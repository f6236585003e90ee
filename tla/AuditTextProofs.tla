--------------------------- MODULE AuditTextProofs ---------------------------
(***************************************************************************)
(* The text of a record, for texts of every length, every alphabet of      *)
(* letters and digits, every UINT64_MAX and arrays of every size.          *)
(*                                                                         *)
(* dfx_text_is_safe accepts the texts composed of characters (SafeWords),  *)
(* json_escape makes texts composed of Pieces of them, and a reader of     *)
(* JSON takes the escapes off again.  parse_json_string,                   *)
(* parse_unsigned_field and parse_boolean_field read exactly what is laid  *)
(* out that way, so the parser accepts exactly the lines that could have   *)
(* been written, each in its one spelling (ParsedLine, WrittenLine).  A    *)
(* name ends in a line only where a field is, since quotation marks within *)
(* texts are escaped: the search by name of audit_context_hash finds the   *)
(* fields of the parser (SearchedContext).                                 *)
(*                                                                         *)
(* Texts are not looked at by recursion: a recursive definition is one     *)
(* turn repeated, the state after n turns is shown to exist                *)
(* (RecursionExists), and what holds of it is shown for one more turn or   *)
(* one more word (Counting, ComposedInduction).                            *)
(***************************************************************************)
EXTENDS JournalReader, SequenceTheorems, FiniteSetTheorems, WellFoundedInduction, TLAPS

-----------------------------------------------------------------------------
(* Counting.                                                               *)

(* Every set of naturals with a member has a least one.                    *)
LEMMA Least ==
    ASSUME NEW T, T \subseteq Nat, T # {}
    PROVE  \E n \in T : \A m \in T : ~(m < n)
  <1> DEFINE R == {ss \in Nat \X Nat : ss[1] < ss[2]}
  <1>1. IsWellFoundedOn(R, Nat)
    BY NatLessThanWellFounded DEF OpToRel
  <1>2. \A m, n \in Nat : m < n => <<m, n>> \in R
    OBVIOUS
  <1> HIDE DEF R
  <1>3. PICK n \in T : \A m \in T : ~(<<m, n>> \in R)
    BY <1>1, WFMin
  <1> QED
    BY <1>2, <1>3

(* What holds of 0, and of n + 1 when it holds of n, holds up to N.        *)
LEMMA Counting ==
    ASSUME NEW N \in Nat, NEW T, 0 \in T, \A n \in 0..(N - 1) : n \in T => n + 1 \in T
    PROVE  \A n \in 0..N : n \in T
  <1> DEFINE U == {n \in 0..N : n \notin T}
  <1>1. SUFFICES ASSUME U # {} PROVE FALSE
    OBVIOUS
  <1>2. U \subseteq Nat
    OBVIOUS
  <1>3. PICK n \in U : \A m \in U : ~(m < n)
    <2> HIDE DEF U
    <2> QED
      BY <1>1, <1>2, Least
  <1>4. n \in 0..N /\ n # 0 /\ n \notin T
    BY <1>3
  <1>5. n - 1 \in 0..(N - 1) /\ n - 1 < n /\ (n - 1) + 1 = n
    BY <1>4
  <1>6. n - 1 \in T
    BY <1>3, <1>5
  <1> QED
    BY <1>4, <1>5, <1>6

(* What holds of n when it holds of every smaller number holds of all.     *)
LEMMA Descent ==
    ASSUME NEW T, \A n \in Nat : (\A m \in 0..(n - 1) : m \in T) => n \in T
    PROVE  Nat \subseteq T
  <1> DEFINE U == {n \in Nat : n \notin T}
  <1>1. SUFFICES ASSUME U # {} PROVE FALSE
    OBVIOUS
  <1>2. U \subseteq Nat
    OBVIOUS
  <1>3. PICK n \in U : \A m \in U : ~(m < n)
    <2> HIDE DEF U
    <2> QED
      BY <1>1, <1>2, Least
  <1>4. \A m \in 0..(n - 1) : m \in T
    BY <1>3
  <1> QED
    BY <1>3, <1>4

(* What holds of the empty sequence, and of every sequence that one more   *)
(* member makes of one of which it holds, holds of all.                    *)
LEMMA SeqInduction ==
    ASSUME NEW S, NEW T, <<>> \in T, \A u \in Seq(S), e \in S : u \in T => Append(u, e) \in T
    PROVE  Seq(S) \subseteq T
  <1> DEFINE U == {n \in Nat : \A u \in Seq(S) : Len(u) = n => u \in T}
  <1>1. \A u \in Seq(S) : Len(u) \in Nat /\ (Len(u) = 0 => u = <<>>)
    BY LenProperties, EmptySeq
  <1>2. 0 \in U
    BY <1>1
  <1>3. ASSUME NEW n \in Nat, n \in U PROVE n + 1 \in U
    <2> SUFFICES ASSUME NEW u \in Seq(S), Len(u) = n + 1 PROVE u \in T
      BY <1>3
    <2>1. u # <<>>
      BY EmptySeq
    <2>2. PICK v \in Seq(S), e \in S : u = Append(v, e)
      BY <2>1, SequenceEmptyOrAppend
    <2>3. Len(v) = n
      BY <1>1, <2>2, AppendProperties
    <2> QED
      BY <1>3, <2>2, <2>3
  <1>4. ASSUME NEW u \in Seq(S) PROVE u \in T
    <2>1. Len(u) \in Nat
      BY <1>1
    <2>2. \A n \in 0..Len(u) : n \in U
      <3> HIDE DEF U
      <3> QED
        BY <1>2, <1>3, <2>1, Counting
    <2> QED
      BY <2>1, <2>2
  <1> QED
    BY <1>4

(* g is first at 0, and at each number F of what it is below.              *)
Follows(g, N, S, first, F) ==
    /\ g \in [0..N -> S] /\ g[0] = first
    /\ \A n \in 1..N : g[n] = F[n][g[n - 1]]

(* There is such a function.                                               *)
LEMMA RecursionExists ==
    ASSUME NEW N \in Nat, NEW S, NEW first \in S, NEW F \in [1..N -> [S -> S]]
    PROVE  \E g : Follows(g, N, S, first, F)
  <1> DEFINE T == {k \in 0..N : \E g : Follows(g, k, S, first, F)}
  <1>1. 0 \in T
    <2>1. Follows([n \in 0..0 |-> first], 0, S, first, F)
      BY DEF Follows
    <2> QED
      BY <2>1
  <1>2. ASSUME NEW k \in 0..(N - 1), k \in T PROVE k + 1 \in T
    <2>1. PICK h : Follows(h, k, S, first, F)
      BY <1>2
    <2> DEFINE g == [n \in 0..(k + 1) |-> IF n = k + 1 THEN F[k + 1][h[k]] ELSE h[n]]
    <2>2. h[k] \in S /\ F[k + 1][h[k]] \in S
      BY <2>1 DEF Follows
    <2>3. g \in [0..(k + 1) -> S]
      <3>1. \A n \in 0..(k + 1) : n # k + 1 => n \in 0..k
        OBVIOUS
      <3> QED
        BY <2>1, <2>2, <3>1 DEF Follows
    <2>4. g[0] = first
      BY <2>1 DEF Follows
    <2>5. ASSUME NEW n \in 1..(k + 1) PROVE g[n] = F[n][g[n - 1]]
      <3>1. n - 1 \in 0..(k + 1) /\ n - 1 # k + 1 /\ n \in 0..(k + 1)
        OBVIOUS
      <3>2. g[n - 1] = h[n - 1]
        BY <3>1
      <3>3. CASE n = k + 1
        BY <3>1, <3>2, <3>3
      <3>4. CASE n # k + 1
        <4>1. n \in 1..k
          BY <3>4
        <4> QED
          BY <2>1, <3>1, <3>2, <3>4, <4>1 DEF Follows
      <3> QED
        BY <3>3, <3>4
    <2> HIDE DEF g
    <2>6. Follows(g, k + 1, S, first, F)
      BY <2>3, <2>4, <2>5 DEF Follows
    <2> QED
      BY <2>6
  <1> HIDE DEF T
  <1>3. \A k \in 0..N : k \in T
    BY <1>1, <1>2, Counting
  <1>4. N \in T
    BY <1>3
  <1> QED
    BY <1>4 DEF T

-----------------------------------------------------------------------------
(* Words in a line.                                                        *)

(* A subsequence of one element.                                           *)
LEMMA SubSeqOne ==
    ASSUME NEW S, NEW s \in Seq(S), NEW p \in 1..Len(s)
    PROVE  SubSeq(s, p, p) = <<s[p]>>
  <1>1. p \in p..Len(s) /\ p \in Int /\ p + 1 \in Int /\ p < p + 1
    BY LenProperties
  <1>2. SubSeq(s, p, p) = <<s[p]>> \o SubSeq(s, p + 1, p)
    BY <1>1, SubSeqRecursiveFirst
  <1>3. SubSeq(s, p + 1, p) = <<>>
    BY <1>1, SubSeqEmpty
  <1>4. <<s[p]>> \in Seq(S)
    BY ElementOfSeq
  <1> QED
    BY <1>2, <1>3, <1>4, ConcatEmptySeq

(* The line s shows w at p.                                                *)
Bears(s, p, w) == p + Len(w) - 1 <= Len(s) /\ \A i \in 1..Len(w) : s[p + i - 1] = w[i]

(* Bears is what HasLiteral looks for, and Slice takes out.                *)
LEMMA BearsLiteral ==
    ASSUME NEW S, NEW s \in Seq(S), NEW w \in Seq(S), NEW p \in Nat \ {0}
    PROVE  /\ HasLiteral(s, p, w) <=> Bears(s, p, w)
           /\ Bears(s, p, w) => Slice(s, p, Len(w)) = w
  <1> DEFINE n == p + Len(w) - 1
             x == SubSeq(s, p, n)
  <1>1. Len(w) \in Nat /\ Len(s) \in Nat /\ n \in Int
    BY LenProperties
  <1>2. Slice(s, p, Len(w)) = x
    BY DEF Slice
  <1>3. ASSUME n <= Len(s) PROVE x = w <=> \A i \in 1..Len(w) : s[p + i - 1] = w[i]
    <2>1. \A i \in p..n : s[i] \in S
      BY <1>1, <1>3, ElementOfSeq
    <2>2. /\ x \in Seq(S) /\ Len(x) = (IF p <= n THEN n - p + 1 ELSE 0)
          /\ \A i \in 1..(n - p + 1) : x[i] = s[p + i - 1]
      <3> HIDE DEF n
      <3> QED
        BY <1>1, <2>1, SubSeqProperties
    <2>3. Len(x) = Len(w) /\ n - p + 1 = Len(w)
      BY <1>1, <2>2
    <2> HIDE DEF x, n
    <2>4. ASSUME \A i \in 1..Len(w) : s[p + i - 1] = w[i] PROVE x = w
      BY <2>2, <2>3, <2>4, SeqEqual
    <2> QED
      BY <2>2, <2>3, <2>4
  <1> QED
    BY <1>2, <1>3 DEF HasLiteral, Bears

(* A line bears two words one behind the other.                            *)
LEMMA BearsConcat ==
    ASSUME NEW S, NEW s, NEW u \in Seq(S), NEW w \in Seq(S), NEW p \in Nat \ {0}, Len(s) \in Nat
    PROVE  Bears(s, p, u \o w) <=> Bears(s, p, u) /\ Bears(s, p + Len(u), w)
  <1> DEFINE x == u \o w
  <1>1. /\ Len(u) \in Nat /\ Len(w) \in Nat /\ Len(x) = Len(u) + Len(w)
        /\ \A i \in 1..(Len(u) + Len(w)) : x[i] = IF i <= Len(u) THEN u[i] ELSE w[i - Len(u)]
    BY LenProperties, ConcatProperties
  <1> HIDE DEF x
  <1>2. ASSUME Bears(s, p, x) PROVE Bears(s, p, u) /\ Bears(s, p + Len(u), w)
    <2>1. \A i \in 1..Len(u) : s[p + i - 1] = u[i]
      BY <1>1, <1>2 DEF Bears
    <2>2. ASSUME NEW i \in 1..Len(w) PROVE s[(p + Len(u)) + i - 1] = w[i]
      <3>1. /\ Len(u) + i \in 1..Len(x) /\ ~(Len(u) + i <= Len(u)) /\ (Len(u) + i) - Len(u) = i
            /\ p + (Len(u) + i) - 1 = (p + Len(u)) + i - 1
        BY <1>1
      <3>2. s[p + (Len(u) + i) - 1] = x[Len(u) + i]
        BY <1>2, <3>1 DEF Bears
      <3> QED
        BY <1>1, <3>1, <3>2
    <2> QED
      BY <1>1, <1>2, <2>1, <2>2 DEF Bears
  <1>3. ASSUME Bears(s, p, u), Bears(s, p + Len(u), w) PROVE Bears(s, p, x)
    <2>1. ASSUME NEW i \in 1..Len(x) PROVE s[p + i - 1] = x[i]
      <3>1. CASE i <= Len(u)
        BY <1>1, <1>3, <3>1 DEF Bears
      <3>2. CASE ~(i <= Len(u))
        <4>1. i - Len(u) \in 1..Len(w) /\ (p + Len(u)) + (i - Len(u)) - 1 = p + i - 1
          BY <1>1, <3>2
        <4>2. s[(p + Len(u)) + (i - Len(u)) - 1] = w[i - Len(u)]
          BY <1>3, <4>1 DEF Bears
        <4> QED
          BY <1>1, <3>2, <4>1, <4>2
      <3> QED
        BY <3>1, <3>2
    <2> QED
      BY <1>1, <1>3, <2>1 DEF Bears
  <1> QED
    BY <1>2, <1>3 DEF x

(* A sequence bears itself, what it bears a line that bears it bears too.  *)
LEMMA BearsSelf ==
    ASSUME NEW S, NEW s \in Seq(S)
    PROVE  Bears(s, 1, s)
  BY LenProperties DEF Bears

(* What stands in a word stands in the lines that bear the word.           *)
LEMMA BearsWithin ==
    ASSUME NEW s, NEW u, NEW w, NEW p \in Nat \ {0}, NEW q \in Nat \ {0},
           Len(s) \in Nat, Len(u) \in Nat, Len(w) \in Nat, Bears(s, p, u), Bears(u, q, w)
    PROVE  Bears(s, p + q - 1, w)
  <1>1. (p + q - 1) + Len(w) - 1 <= Len(s)
    BY DEF Bears
  <1>2. ASSUME NEW i \in 1..Len(w) PROVE s[(p + q - 1) + i - 1] = w[i]
    <2>1. q + i - 1 \in 1..Len(u) /\ p + (q + i - 1) - 1 = (p + q - 1) + i - 1
      BY DEF Bears
    <2>2. s[p + (q + i - 1) - 1] = u[q + i - 1]
      BY <2>1 DEF Bears
    <2> QED
      BY <2>1, <2>2 DEF Bears
  <1> QED
    BY <1>1, <1>2 DEF Bears

-----------------------------------------------------------------------------
(* Texts composed of words.                                                *)

(* The sequences that are one word of C behind the other.                  *)
Composed(C) ==
    {s \in Seq(Byte) : \A Q \in SUBSET Seq(Byte) :
                         <<>> \in Q /\ (\A u \in Q, w \in C : u \o w \in Q) => s \in Q}

(* The composed texts are closed under one more word at the end.           *)
LEMMA ComposedGrows ==
    ASSUME NEW C, C \subseteq Seq(Byte)
    PROVE  /\ Composed(C) \subseteq Seq(Byte)
           /\ <<>> \in Composed(C)
           /\ \A u \in Composed(C), w \in C : u \o w \in Composed(C)
  <1>1. Composed(C) \subseteq Seq(Byte)
    BY DEF Composed
  <1>2. <<>> \in Composed(C)
    BY EmptySeq DEF Composed
  <1>3. ASSUME NEW u \in Composed(C), NEW w \in C PROVE u \o w \in Composed(C)
    <2>1. u \o w \in Seq(Byte)
      BY <1>1, ConcatProperties
    <2>2. ASSUME NEW Q \in SUBSET Seq(Byte),
                 <<>> \in Q, \A v \in Q, x \in C : v \o x \in Q
          PROVE  u \o w \in Q
      <3>1. u \in Q
        BY <2>2 DEF Composed
      <3> QED
        BY <2>2, <3>1
    <2> QED
      BY <2>1, <2>2 DEF Composed
  <1> QED
    BY <1>1, <1>2, <1>3

(* Induction over the words of a composed text.                            *)
LEMMA ComposedInduction ==
    ASSUME NEW C, C \subseteq Seq(Byte), NEW T, <<>> \in T,
           \A u \in Composed(C), w \in C : u \in T => u \o w \in T
    PROVE  Composed(C) \subseteq T
  <1> DEFINE Q == {u \in Composed(C) : u \in T}
  <1>1. Q \in SUBSET Seq(Byte)
    BY ComposedGrows
  <1>2. <<>> \in Q
    BY ComposedGrows
  <1>3. \A u \in Q, w \in C : u \o w \in Q
    BY ComposedGrows
  <1> HIDE DEF Q
  <1>4. \A s \in Composed(C) : s \in Q
    BY <1>1, <1>2, <1>3 DEF Composed
  <1> QED
    BY <1>4 DEF Q

-----------------------------------------------------------------------------
(* The bytes.                                                              *)

Inner == Byte \ (Controls \cup {Quote, Slash})

(* The classes of bytes that are disjoint.                                 *)
LEMMA Alphabet ==
    /\ NonAscii \subseteq Inner /\ Words \subseteq Inner /\ Letters \subseteq Inner
    /\ {",", ":", "{", "}"} \subseteq Inner
    /\ Inner \subseteq Byte /\ {Quote, Slash} \subseteq Byte /\ Controls \subseteq Byte
    /\ End \notin Byte
    /\ NonAscii \cap (Words \cup Letters \cup Marks \cup Controls) = {}
    /\ Letters \cap (Marks \cup Controls) = {}
    /\ Words \cap (Marks \cup Controls) = {} /\ Marks \cap Controls = {}
    /\ Quote # Slash
  <1>1. NonAscii = {"80", "90", "A0", "C0", "C2", "E0", "E1", "ED", "F0", "F1", "F4"}
    BY DEF NonAscii, Tails
  <1>2. /\ Letters \cap Marks = {} /\ Letters \cap Controls = {} /\ Letters \cap NonAscii = {}
        /\ End \notin Letters
    BY TextAssumption
  <1>3. /\ Words \cap Marks = {} /\ Words \cap Controls = {} /\ Marks \cap Controls = {}
        /\ NonAscii \cap Marks = {} /\ NonAscii \cap Controls = {} /\ NonAscii \cap Words = {}
        /\ End \notin (Words \cup Marks \cup Controls \cup NonAscii) /\ Quote # Slash
    BY <1>1 DEF Words, Marks, Controls, End, Quote, Slash
  <1>4. {",", ":", "{", "}"} \subseteq Marks \ {Quote, Slash} /\ {Quote, Slash} \subseteq Marks
    BY DEF Marks, Quote, Slash
  <1> HIDE DEF NonAscii, Words, Marks, Controls, End, Quote, Slash
  <1> QED
    BY <1>2, <1>3, <1>4 DEF Byte, Inner

(* What TextAssumption says of the constants.                              *)
LEMMA DigitsAre ==
    /\ Len(Digits) \in Nat /\ Len(Digits) > 1
    /\ \A i \in 1..Len(Digits) : Digits[i] \in Letters
    /\ \A i, j \in 1..Len(Digits) : Digits[i] = Digits[j] => i = j
    /\ MaxNumber \in Nat /\ FieldBytes \in Nat \ {0}
  BY TextAssumption, LenProperties, ElementOfSeq

-----------------------------------------------------------------------------
(* UTF-8: what both validators take for a character.                       *)

Utf == {w \in Seq(NonAscii) : \E form \in Forms : Len(w) = form[3] /\ HasForm(w, 1, form)}

(* Characters of more than one byte are texts.                             *)
LEMMA NonAsciiText == Seq(NonAscii) \subseteq Seq(Byte) /\ Utf \subseteq Seq(Byte)
  <1>1. NonAscii \subseteq Byte
    BY Alphabet
  <1>2. \A w \in Seq(NonAscii) : w \in Seq(Byte)
    BY <1>1, SeqMonotonic
  <1> QED
    BY <1>2 DEF Utf

(* A lead byte has one form.                                               *)
LEMMA FormShape ==
    /\ \A form \in Forms : /\ form[1] \in NonAscii /\ form[2] \subseteq NonAscii
                           /\ form[2] # {} /\ form[3] \in 2..4
    /\ \A f, g \in Forms : f[1] = g[1] => f = g
    /\ Tails \subseteq NonAscii
  BY DEF Forms, NonAscii, Tails

(* A character of a line lies in it, and is made of non-ASCII bytes.       *)
LEMMA FormInside ==
    ASSUME NEW s \in Seq(Byte), NEW p \in 1..Len(s), NEW form \in Forms, HasForm(s, p, form)
    PROVE  /\ p + form[3] - 1 <= Len(s)
           /\ \A i \in p..(p + form[3] - 1) : s[i] \in NonAscii
  <1>1. /\ form[1] \in NonAscii /\ form[2] \subseteq NonAscii /\ form[3] \in 2..4
        /\ Tails \subseteq NonAscii /\ End \notin NonAscii /\ Len(s) \in Nat
    BY FormShape, Alphabet, LenProperties
  <1>2. \A i \in Nat : ByteAt(s, i) \in NonAscii => i <= Len(s) /\ s[i] \in NonAscii
    BY <1>1 DEF ByteAt
  <1>3. ASSUME NEW i \in p..(p + form[3] - 1) PROVE ByteAt(s, i) \in NonAscii
    <2>1. CASE i = p
      BY <1>1, <2>1 DEF HasForm
    <2>2. CASE i = p + 1
      BY <1>1, <2>2 DEF HasForm
    <2>3. CASE i # p /\ i # p + 1
      <3>1. i - p \in 2..(form[3] - 1) /\ p + (i - p) = i
        BY <1>1, <2>3
      <3>2. ByteAt(s, p + (i - p)) \in Tails
        BY <3>1 DEF HasForm
      <3> QED
        BY <1>1, <3>1, <3>2
    <2> QED
      BY <2>1, <2>2, <2>3
  <1>4. p + form[3] - 1 \in p..(p + form[3] - 1) /\ \A i \in p..(p + form[3] - 1) : i \in Nat
    BY <1>1
  <1> QED
    BY <1>2, <1>3, <1>4

(* Whether a form is there depends on its bytes alone.                     *)
LEMMA FormBytes ==
    ASSUME NEW s \in Seq(Byte), NEW p \in 1..Len(s), NEW form \in Forms
    PROVE  HasForm(s, p, form) <=>
             /\ p + form[3] - 1 <= Len(s) /\ s[p] = form[1] /\ s[p + 1] \in form[2]
             /\ \A k \in 2..(form[3] - 1) : s[p + k] \in Tails
  <1>1. form[3] \in 2..4 /\ Len(s) \in Nat
    BY FormShape, LenProperties
  <1>2. ASSUME p + form[3] - 1 <= Len(s)
        PROVE  /\ ByteAt(s, p) = s[p] /\ ByteAt(s, p + 1) = s[p + 1]
               /\ \A k \in 2..(form[3] - 1) : ByteAt(s, p + k) = s[p + k]
    BY <1>1, <1>2 DEF ByteAt
  <1>3. HasForm(s, p, form) => p + form[3] - 1 <= Len(s)
    BY FormInside
  <1> QED
    BY <1>2, <1>3 DEF HasForm

(* What stands where a form is is a character, and the other way round.    *)
LEMMA UtfTaken ==
    ASSUME NEW s \in Seq(Byte), NEW p \in 1..Len(s), NEW form \in Forms, HasForm(s, p, form)
    PROVE  Slice(s, p, form[3]) \in Utf /\ Len(Slice(s, p, form[3])) = form[3]
  <1> DEFINE n == p + form[3] - 1
             w == SubSeq(s, p, n)
  <1>1. form[3] \in 2..4 /\ n \in Int /\ Len(s) \in Nat
    BY FormShape, LenProperties
  <1>2. n <= Len(s) /\ \A i \in p..n : s[i] \in NonAscii
    BY FormInside
  <1>3. /\ w \in Seq(NonAscii) /\ Len(w) = form[3]
        /\ \A i \in 1..form[3] : w[i] = s[p + i - 1]
    <2>1. n - p + 1 = form[3] /\ p <= n
      BY <1>1
    <2>2. /\ SubSeq(s, p, n) \in Seq(NonAscii) /\ Len(SubSeq(s, p, n)) = n - p + 1
          /\ \A i \in 1..(n - p + 1) : SubSeq(s, p, n)[i] = s[p + i - 1]
      <3> HIDE DEF n
      <3> QED
        BY <1>1, <1>2, <2>1, SubSeqProperties
    <2> QED
      BY <2>1, <2>2
  <1> HIDE DEF w
  <1>4. w \in Seq(Byte) /\ 1 \in 1..Len(w)
    BY <1>1, <1>3, NonAsciiText
  <1>5. /\ s[p] = form[1] /\ s[p + 1] \in form[2]
        /\ \A k \in 2..(form[3] - 1) : s[p + k] \in Tails
    BY FormBytes
  <1>6. w[1] = s[p] /\ w[2] = s[p + 1]
    BY <1>1, <1>3
  <1>7. \A k \in 2..(form[3] - 1) : w[1 + k] = s[p + k]
    BY <1>1, <1>3
  <1>8. HasForm(w, 1, form)
    <2>1. 1 + form[3] - 1 <= Len(w) /\ w[1] = form[1] /\ w[1 + 1] \in form[2]
      BY <1>1, <1>3, <1>5, <1>6
    <2>2. \A k \in 2..(form[3] - 1) : w[1 + k] \in Tails
      BY <1>5, <1>7
    <2> QED
      BY <1>4, <2>1, <2>2, FormBytes
  <1> QED
    BY <1>3, <1>8 DEF Utf, w, Slice

(* A line that bears such a character shows its form there.                *)
LEMMA UtfBorne ==
    ASSUME NEW s \in Seq(Byte), NEW p \in Nat \ {0}, NEW w \in Utf, Bears(s, p, w)
    PROVE  p \in 1..Len(s) /\ \E form \in Forms : HasForm(s, p, form) /\ form[3] = Len(w)
  <1>1. PICK form \in Forms : Len(w) = form[3] /\ HasForm(w, 1, form)
    BY DEF Utf
  <1>2. form[3] \in 2..4 /\ Len(s) \in Nat
    BY FormShape, LenProperties
  <1>3. w \in Seq(Byte) /\ 1 \in 1..Len(w)
    BY <1>1, <1>2, NonAsciiText
  <1>4. /\ w[1] = form[1] /\ w[1 + 1] \in form[2]
        /\ \A k \in 2..(form[3] - 1) : w[1 + k] \in Tails
    BY <1>1, <1>3, FormBytes
  <1>5. p \in 1..Len(s) /\ p + form[3] - 1 <= Len(s)
    BY <1>1, <1>2 DEF Bears
  <1>6. s[p] = w[1] /\ s[p + 1] = w[1 + 1]
    BY <1>1, <1>2 DEF Bears
  <1>7. \A k \in 2..(form[3] - 1) : s[p + k] = w[1 + k]
    BY <1>1, <1>2 DEF Bears
  <1>8. HasForm(s, p, form)
    BY <1>4, <1>5, <1>6, <1>7, FormBytes
  <1> QED
    BY <1>1, <1>5, <1>8

(* utf8_sequence_length is the length of the one form that is there.       *)
LEMMA SequenceFound ==
    ASSUME NEW s, NEW p
    PROVE  /\ \A form \in Forms : HasForm(s, p, form) => SequenceLength(s, p) = form[3]
           /\ SequenceLength(s, p) # 0 => \E form \in Forms : HasForm(s, p, form)
           /\ (~\E form \in Forms : HasForm(s, p, form)) => SequenceLength(s, p) = 0
  <1> DEFINE found == {form \in Forms : HasForm(s, p, form)}
  <1>1. SequenceLength(s, p) = IF found = {} THEN 0 ELSE (CHOOSE form \in found : TRUE)[3]
    BY DEF SequenceLength
  <1>2. \A f, g \in found : f = g
    BY FormShape DEF HasForm
  <1>3. ASSUME NEW form \in Forms, HasForm(s, p, form) PROVE SequenceLength(s, p) = form[3]
    <2>1. form \in found
      BY <1>3
    <2> HIDE DEF found
    <2>2. (CHOOSE f \in found : TRUE) \in found
      BY <2>1
    <2>3. (CHOOSE f \in found : TRUE) = form
      BY <1>2, <2>1, <2>2
    <2> QED
      BY <1>1, <2>1, <2>3
  <1> QED
    BY <1>1, <1>3

(* Both validators see the same characters.                                *)
LEMMA LengthsAgree ==
    ASSUME NEW s \in Seq(Byte), NEW p \in 1..Len(s)
    PROVE  CharacterLength(s, p) = SequenceLength(s, p)
  <1> DEFINE Has(count, second) ==
               /\ p + count - 1 <= Len(s) /\ s[p + 1] \in second
               /\ \A k \in 2..(count - 1) : s[p + k] \in Tails
  <1>1. \A lead, second, count :
          <<lead, second, count>> \in Forms =>
            (HasForm(s, p, <<lead, second, count>>) <=> s[p] = lead /\ Has(count, second))
    <2> SUFFICES ASSUME NEW lead, NEW second, NEW count, <<lead, second, count>> \in Forms
                 PROVE  HasForm(s, p, <<lead, second, count>>) <=> s[p] = lead /\ Has(count, second)
      OBVIOUS
    <2>1. /\ <<lead, second, count>>[1] = lead /\ <<lead, second, count>>[2] = second
          /\ <<lead, second, count>>[3] = count
      OBVIOUS
    <2> QED
      BY <2>1, FormBytes
  <1>2. ASSUME NEW form \in Forms, s[p] = form[1]
        PROVE  SequenceLength(s, p) = IF HasForm(s, p, form) THEN form[3] ELSE 0
    <2>1. \A g \in Forms : HasForm(s, p, g) => g = form
      <3>1. \A g \in Forms : HasForm(s, p, g) => g[1] = s[p]
        BY FormBytes
      <3> QED
        BY <1>2, <3>1, FormShape
    <2> QED
      BY <2>1, SequenceFound
  <1>3. ASSUME NEW lead, NEW second, NEW count, <<lead, second, count>> \in Forms, s[p] = lead
        PROVE  SequenceLength(s, p) = IF Has(count, second) THEN count ELSE 0
    <2>1. <<lead, second, count>>[1] = lead /\ <<lead, second, count>>[3] = count
      OBVIOUS
    <2> HIDE DEF Has
    <2> QED
      BY <1>1, <1>2, <1>3, <2>1
  <1>4. /\ <<"C2", Tails, 2>> \in Forms /\ <<"E0", {"A0"}, 3>> \in Forms
        /\ <<"E1", Tails, 3>> \in Forms /\ <<"ED", {"80", "90"}, 3>> \in Forms
        /\ <<"F0", {"90", "A0"}, 4>> \in Forms /\ <<"F1", Tails, 4>> \in Forms
        /\ <<"F4", {"80"}, 4>> \in Forms
    BY DEF Forms
  <1>5. ASSUME s[p] \notin {"C2", "E0", "E1", "ED", "F0", "F1", "F4"}
        PROVE  SequenceLength(s, p) = 0
    <2>1. \A form \in Forms : form[1] \in {"C2", "E0", "E1", "ED", "F0", "F1", "F4"}
      BY DEF Forms
    <2>2. \A form \in Forms : HasForm(s, p, form) => s[p] = form[1]
      BY FormBytes
    <2> QED
      BY <1>5, <2>1, <2>2, SequenceFound
  <1>6. CharacterLength(s, p) =
          CASE s[p] = "C2" /\ Has(2, Tails) -> 2
            [] s[p] = "E0" /\ Has(3, {"A0"}) -> 3
            [] s[p] = "E1" /\ Has(3, Tails) -> 3
            [] s[p] = "ED" /\ Has(3, {"80", "90"}) -> 3
            [] s[p] = "F0" /\ Has(4, {"90", "A0"}) -> 4
            [] s[p] = "F1" /\ Has(4, Tails) -> 4
            [] s[p] = "F4" /\ Has(4, {"80"}) -> 4
            [] OTHER -> 0
    BY DEF CharacterLength
  <1> HIDE DEF Has
  <1> QED
    BY <1>3, <1>4, <1>5, <1>6

-----------------------------------------------------------------------------
(* dfx_text_is_safe takes the texts composed of characters.                *)

SafeWords == {<<x>> : x \in Byte \ (Controls \cup NonAscii)} \cup Utf

(* The words of a safe text are texts, and none is empty.                  *)
LEMMA SafeWordsText ==
    /\ SafeWords \subseteq Seq(Byte)
    /\ \A w \in SafeWords : Len(w) \in Nat \ {0}
  <1>1. \A w \in Utf : Len(w) \in 2..4
    BY FormShape DEF Utf
  <1>2. \A x \in Byte : <<x>> \in Seq(Byte) /\ Len(<<x>>) = 1
    OBVIOUS
  <1>3. ASSUME NEW w \in SafeWords PROVE w \in Seq(Byte) /\ Len(w) \in Nat \ {0}
    <2>1. CASE w \in Utf
      BY <1>1, <2>1, NonAsciiText
    <2>2. CASE \E x \in Byte : w = <<x>>
      BY <1>2, <2>2
    <2> QED
      BY <1>3, <2>1, <2>2 DEF SafeWords
  <1> QED
    BY <1>3

(* One turn takes one word, or gives up.                                   *)
LEMMA SafeTurnTakes ==
    ASSUME NEW s \in Seq(Byte), NEW p \in 1..Len(s), SafeTurn(s, p) # 0
    PROVE  /\ SafeTurn(s, p) \in (p + 1)..(Len(s) + 1)
           /\ SubSeq(s, p, SafeTurn(s, p) - 1) \in SafeWords
  <1>1. Len(s) \in Nat /\ s[p] \in Byte /\ s[p] \notin Controls
    BY LenProperties, ElementOfSeq DEF SafeTurn
  <1>2. CASE s[p] \notin NonAscii
    <2>1. SafeTurn(s, p) = p + 1
      BY <1>1, <1>2 DEF SafeTurn
    <2>2. SubSeq(s, p, (p + 1) - 1) = <<s[p]>>
      <3>1. (p + 1) - 1 = p
        BY <1>1
      <3> QED
        BY <3>1, SubSeqOne
    <2> QED
      BY <1>1, <1>2, <2>1, <2>2 DEF SafeWords
  <1>3. CASE s[p] \in NonAscii
    <2>1. CharacterLength(s, p) # 0 /\ SafeTurn(s, p) = p + CharacterLength(s, p)
      BY <1>1, <1>3 DEF SafeTurn
    <2>2. SequenceLength(s, p) # 0 /\ SafeTurn(s, p) = p + SequenceLength(s, p)
      BY <2>1, LengthsAgree
    <2>3. PICK form \in Forms : HasForm(s, p, form)
      BY <2>2, SequenceFound
    <2>4. SafeTurn(s, p) = p + form[3] /\ form[3] \in 2..4
      BY <2>2, <2>3, SequenceFound, FormShape
    <2>5. SubSeq(s, p, p + form[3] - 1) \in Utf /\ p + form[3] - 1 <= Len(s)
      BY <2>3, UtfTaken, FormInside DEF Slice
    <2> QED
      BY <1>1, <2>4, <2>5 DEF SafeWords
  <1> QED
    BY <1>2, <1>3

(* A turn of dfx_text_is_safe passes the word that stands at its place.    *)
LEMMA SafeTurnBorne ==
    ASSUME NEW s \in Seq(Byte), NEW p \in Nat \ {0}, NEW w \in SafeWords, Bears(s, p, w)
    PROVE  p \in 1..Len(s) /\ SafeTurn(s, p) = p + Len(w)
  <1>1. Len(s) \in Nat
    BY LenProperties
  <1>2. CASE w \in Utf
    <2>1. p \in 1..Len(s)
      BY <1>2, UtfBorne
    <2>2. PICK form \in Forms : HasForm(s, p, form) /\ form[3] = Len(w)
      BY <1>2, UtfBorne
    <2>3. SequenceLength(s, p) = Len(w) /\ Len(w) \in 2..4
      BY <2>2, SequenceFound, FormShape
    <2>4. CharacterLength(s, p) = Len(w)
      BY <2>1, <2>3, LengthsAgree
    <2>5. s[p] \in NonAscii /\ s[p] \notin Controls
      BY <2>1, <2>2, FormBytes, FormShape, Alphabet
    <2> QED
      BY <1>1, <2>1, <2>3, <2>4, <2>5 DEF SafeTurn
  <1>3. CASE w \notin Utf
    <2>1. PICK x \in Byte \ (Controls \cup NonAscii) : w = <<x>>
      BY <1>3 DEF SafeWords
    <2>2. Len(w) = 1 /\ w[1] = x
      BY <2>1
    <2>3. p \in 1..Len(s) /\ s[p] = x
      BY <1>1, <2>2 DEF Bears
    <2> QED
      BY <1>1, <2>1, <2>2, <2>3 DEF SafeTurn
  <1> QED
    BY <1>2, <1>3

(* Where dfx_text_is_safe stands after so many turns.                      *)
SafePlaces(s) ==
    CHOOSE g : g = [n \in 0..Len(s) |-> IF n = 0 THEN 1 ELSE SafeTurn(s, g[n - 1])]

(* The places of dfx_text_is_safe, turn by turn.                           *)
LEMMA SafePlacesAre ==
    ASSUME NEW s \in Seq(Byte)
    PROVE  /\ \A n \in 0..Len(s) : SafePlaces(s)[n] \in 0..(Len(s) + 1)
           /\ SafePlaces(s)[0] = 1
           /\ \A n \in 1..Len(s) : SafePlaces(s)[n] = SafeTurn(s, SafePlaces(s)[n - 1])
  <1> DEFINE N == Len(s)
             S == 0..(Len(s) + 1)
             first == 1
             X == SafePlaces(s)
             F == [n \in 1..N |-> [x \in S |-> SafeTurn(s, x)]]
  <1>1. N \in Nat /\ first \in S
    BY LenProperties
  <1>2. ASSUME NEW x \in S PROVE SafeTurn(s, x) \in S
    <2>1. CASE x \in {0, Len(s) + 1}
      BY <2>1 DEF SafeTurn
    <2>2. CASE x \in 1..Len(s)
      BY <1>1, <2>2, SafeTurnTakes
    <2> QED
      BY <1>1, <2>1, <2>2
  <1>3. F \in [1..N -> [S -> S]]
    BY <1>2
  <1>4. PICK g : Follows(g, N, S, first, F)
    <2> HIDE DEF F, S, N, first
    <2> QED
      BY <1>1, <1>3, RecursionExists
  <1>5. \A n \in 1..N : g[n] = SafeTurn(s, g[n - 1])
    <2>1. \A n \in 1..N : n - 1 \in 0..N
      BY <1>1
    <2> HIDE DEF S, N, first
    <2> QED
      BY <1>4, <2>1 DEF Follows
  <1> HIDE DEF F
  <1>6. g = [n \in 0..N |-> IF n = 0 THEN first ELSE SafeTurn(s, g[n - 1])]
    <2>1. \A n \in 0..N : n # 0 => n \in 1..N
      BY <1>1
    <2> HIDE DEF S, N, first
    <2> QED
      BY <1>4, <1>5, <2>1 DEF Follows
  <1>7. X = [n \in 0..N |-> IF n = 0 THEN first ELSE SafeTurn(s, X[n - 1])]
    BY <1>6 DEF SafePlaces
  <1> HIDE DEF X, S, N, first
  <1>8. X[0] = first /\ \A n \in 1..N : X[n] = SafeTurn(s, X[n - 1])
    <2>1. 0 \in 0..N /\ \A n \in 1..N : n \in 0..N /\ n # 0
      BY <1>1
    <2> QED
      BY <1>7, <2>1
  <1>9. \A n \in 0..N : X[n] \in S
    <2> DEFINE T == {n \in 0..N : X[n] \in S}
    <2>1. 0 \in T
      BY <1>1, <1>8
    <2>2. ASSUME NEW n \in 0..(N - 1), n \in T PROVE n + 1 \in T
      <3>1. n + 1 \in 1..N /\ n + 1 \in 0..N /\ (n + 1) - 1 = n
        BY <1>1
      <3>2. X[n + 1] = SafeTurn(s, X[n])
        BY <1>8, <3>1
      <3> QED
        BY <1>2, <2>2, <3>1, <3>2
    <2>3. \A n \in 0..N : n \in T
      <3> HIDE DEF T
      <3> QED
        BY <1>1, <2>1, <2>2, Counting
    <2> QED
      BY <2>3
  <1> QED
    BY <1>8, <1>9 DEF X, S, N, first

(* dfx_text_is_safe accepts exactly the texts composed of characters: no   *)
(* control, and every byte outside ASCII part of a well-formed UTF-8       *)
(* sequence.                                                               *)
THEOREM SafeMeansCharacters ==
    ASSUME NEW s \in Seq(Byte)
    PROVE  Safe(s) <=> s \in Composed(SafeWords)
  <1> DEFINE N == Len(s)
             X == SafePlaces(s)
             C == Composed(SafeWords)
  <1>1. Safe(s) <=> X[N] = N + 1
    BY DEF Safe, SafePlaces
  <1>2. /\ N \in Nat /\ \A n \in 0..N : X[n] \in 0..(N + 1)
        /\ X[0] = 1 /\ \A n \in 1..N : X[n] = SafeTurn(s, X[n - 1])
    BY LenProperties, SafePlacesAre
  <1>3. /\ <<>> \in C /\ C \subseteq Seq(Byte)
        /\ \A u \in C, w \in SafeWords : u \o w \in C
    BY ComposedGrows, SafeWordsText
  <1>4. ASSUME X[N] = N + 1 PROVE s \in C
    <2> DEFINE T == {n \in 0..N : X[n] # 0 => SubSeq(s, 1, X[n] - 1) \in C}
    <2> HIDE DEF X
    <2>1. 0 \in T
      <3>1. SubSeq(s, 1, 1 - 1) = <<>>
        BY SubSeqEmpty
      <3>2. SubSeq(s, 1, X[0] - 1) \in C
        BY <1>2, <1>3, <3>1
      <3> QED
        BY <1>2, <3>2
    <2>2. ASSUME NEW n \in 0..(N - 1), n \in T PROVE n + 1 \in T
      <3>1. n + 1 \in 0..N /\ X[n + 1] = SafeTurn(s, X[n]) /\ X[n] \in 0..(N + 1)
        BY <1>2
      <3>2. SUFFICES ASSUME X[n + 1] # 0 PROVE SubSeq(s, 1, X[n + 1] - 1) \in C
        BY <3>1
      <3>3. X[n] # 0
        BY <3>1, <3>2 DEF SafeTurn
      <3>4. SubSeq(s, 1, X[n] - 1) \in C
        BY <2>2, <3>3
      <3>5. CASE X[n] = N + 1
        BY <3>1, <3>4, <3>5 DEF SafeTurn
      <3>6. CASE X[n] # N + 1
        <4>1. X[n] \in 1..N
          <5> HIDE DEF N
          <5> QED
            BY <1>2, <3>1, <3>3, <3>6
        <4>2. /\ X[n + 1] \in (X[n] + 1)..(N + 1)
              /\ SubSeq(s, X[n], X[n + 1] - 1) \in SafeWords
          BY <3>1, <3>2, <4>1, SafeTurnTakes
        <4>3. SubSeq(s, 1, X[n] - 1) \o SubSeq(s, (X[n] - 1) + 1, X[n + 1] - 1)
                = SubSeq(s, 1, X[n + 1] - 1)
          <5>1. /\ 1 \in 1..(N + 1) /\ X[n] - 1 \in (1 - 1)..N
                /\ X[n + 1] - 1 \in (X[n] - 1)..N
            BY <1>2, <4>1, <4>2
          <5> QED
            BY <5>1, ConcatAdjacentSubSeq
        <4>4. (X[n] - 1) + 1 = X[n]
          BY <4>1
        <4> QED
          BY <1>3, <3>4, <4>2, <4>3, <4>4
      <3> QED
        BY <3>5, <3>6
    <2>3. \A n \in 0..N : n \in T
      <3> HIDE DEF T
      <3> QED
        BY <1>2, <2>1, <2>2, Counting
    <2>4. N \in 0..N
      BY <1>2
    <2>5. SubSeq(s, 1, (N + 1) - 1) \in C
      BY <1>2, <1>4, <2>3, <2>4
    <2>6. (N + 1) - 1 = N
      BY <1>2
    <2> QED
      BY <2>5, <2>6, SubSeqFull
  <1>5. ASSUME s \in C PROVE X[N] = N + 1
    <2> DEFINE T == {u \in Seq(Byte) : Bears(s, 1, u) => \E k \in 0..Len(u) : X[k] = Len(u) + 1}
    <2>1. <<>> \in T
      BY <1>2, EmptySeq
    <2>2. ASSUME NEW u \in C, NEW w \in SafeWords, u \in T PROVE u \o w \in T
      <3>1. /\ u \in Seq(Byte) /\ w \in Seq(Byte) /\ u \o w \in Seq(Byte)
            /\ Len(u) \in Nat /\ Len(w) \in Nat \ {0} /\ Len(u \o w) = Len(u) + Len(w)
        BY <1>3, SafeWordsText, LenProperties, ConcatProperties
      <3>2. SUFFICES ASSUME Bears(s, 1, u \o w)
                     PROVE  \E k \in 0..Len(u \o w) : X[k] = Len(u \o w) + 1
        BY <3>1
      <3>3. Bears(s, 1, u) /\ Bears(s, 1 + Len(u), w)
        BY <1>2, <3>1, <3>2, BearsConcat
      <3>4. PICK k \in 0..Len(u) : X[k] = Len(u) + 1
        BY <2>2, <3>3
      <3>5. 1 + Len(u) \in 1..N /\ SafeTurn(s, 1 + Len(u)) = (1 + Len(u)) + Len(w)
        BY <3>1, <3>3, SafeTurnBorne
      <3>6. k + 1 \in 1..N /\ k + 1 \in 0..Len(u \o w) /\ (k + 1) - 1 = k
        BY <1>2, <3>1, <3>4, <3>5
      <3>7. X[k + 1] = SafeTurn(s, X[k])
        BY <1>2, <3>6
      <3> QED
        BY <3>1, <3>4, <3>5, <3>6, <3>7
    <2>3. s \in T
      <3> HIDE DEF T
      <3>1. C \subseteq T
        BY <2>1, <2>2, ComposedInduction, SafeWordsText
      <3> QED
        BY <1>5, <3>1
    <2>4. PICK k \in 0..N : X[k] = N + 1
      BY <2>3, BearsSelf
    <2> DEFINE U == {j \in 0..(N - k) : X[k + j] = N + 1}
    <2>5. 0 \in U
      BY <1>2, <2>4
    <2>6. ASSUME NEW j \in 0..((N - k) - 1), j \in U PROVE j + 1 \in U
      <3>1. k + (j + 1) \in 1..N /\ (k + (j + 1)) - 1 = k + j /\ j + 1 \in 0..(N - k)
        BY <1>2
      <3>2. X[k + (j + 1)] = SafeTurn(s, X[k + j])
        BY <1>2, <3>1
      <3> QED
        BY <2>6, <3>1, <3>2 DEF SafeTurn
    <2>7. \A j \in 0..(N - k) : j \in U
      <3>1. N - k \in Nat
        BY <1>2
      <3> HIDE DEF U
      <3> QED
        BY <2>5, <2>6, <3>1, Counting
    <2>8. N - k \in 0..(N - k) /\ k + (N - k) = N
      BY <1>2
    <2> QED
      BY <2>7, <2>8
  <1> QED
    BY <1>1, <1>4, <1>5

-----------------------------------------------------------------------------
(* json_escape and what a reader of JSON makes of its result.              *)

(* Concatenation and Append.                                               *)
LEMMA ConcatAppend ==
    ASSUME NEW S, NEW s \in Seq(S), NEW t \in Seq(S), NEW e \in S
    PROVE  /\ s \o Append(t, e) = Append(s \o t, e)
           /\ s \o <<e>> = Append(s, e)
  <1>1. <<e>> \in Seq(S) /\ s \o t \in Seq(S)
    BY ConcatProperties
  <1>2. Append(t, e) = t \o <<e>> /\ Append(s \o t, e) = (s \o t) \o <<e>> /\ Append(s, e) = s \o <<e>>
    BY <1>1, AppendIsConcat
  <1>3. (s \o t) \o <<e>> = s \o (t \o <<e>>)
    BY <1>1, ConcatAssociative
  <1> QED
    BY <1>2, <1>3

(* A word of two bytes is appended byte by byte.                           *)
LEMMA ConcatPair ==
    ASSUME NEW S, NEW s \in Seq(S), NEW d \in S, NEW e \in S
    PROVE  s \o <<d, e>> = Append(Append(s, d), e)
  <1>1. <<d>> \in Seq(S) /\ <<d, e>> = Append(<<d>>, e)
    OBVIOUS
  <1> QED
    BY <1>1, ConcatAppend

(* What json_escape has laid out after so many bytes.                      *)
Escaping(t, size) ==
    CHOOSE g : g = [n \in 0..Len(t) |-> IF n = 0 THEN <<>> ELSE EscapeByte(g[n - 1], t[n], size)]

(* json_escape, byte by byte.                                              *)
LEMMA EscapingIs ==
    ASSUME NEW t \in Seq(Byte), NEW size \in Nat
    PROVE  /\ \A n \in 0..Len(t) : Escaping(t, size)[n] \in Seq(Byte)
           /\ Escaping(t, size)[0] = <<>>
           /\ \A n \in 1..Len(t) : Escaping(t, size)[n] = EscapeByte(Escaping(t, size)[n - 1], t[n], size)
  <1> DEFINE N == Len(t)
             S == Seq(Byte)
             first == <<>>
             X == Escaping(t, size)
             F == [n \in 1..N |-> [x \in S |-> EscapeByte(x, t[n], size)]]
  <1>1. N \in Nat /\ first \in S
    BY LenProperties, EmptySeq
  <1>2. ASSUME NEW n \in 1..N, NEW x \in S PROVE EscapeByte(x, t[n], size) \in S
    <2>1. t[n] \in Byte /\ Slash \in Byte
      BY ElementOfSeq, Alphabet
    <2>2. <<Slash, t[n]>> \in Seq(Byte)
      BY <2>1
    <2>3. x \o <<Slash, t[n]>> \in Seq(Byte) /\ Append(x, t[n]) \in Seq(Byte)
      BY <2>1, <2>2, ConcatProperties, AppendProperties
    <2> QED
      BY <2>3 DEF EscapeByte
  <1>3. F \in [1..N -> [S -> S]]
    BY <1>2
  <1>4. PICK g : Follows(g, N, S, first, F)
    <2> HIDE DEF F, S, N, first
    <2> QED
      BY <1>1, <1>3, RecursionExists
  <1>5. \A n \in 1..N : g[n] = EscapeByte(g[n - 1], t[n], size)
    <2>1. \A n \in 1..N : n - 1 \in 0..N
      BY <1>1
    <2> HIDE DEF S, N, first
    <2> QED
      BY <1>4, <2>1 DEF Follows
  <1> HIDE DEF F
  <1>6. g = [n \in 0..N |-> IF n = 0 THEN first ELSE EscapeByte(g[n - 1], t[n], size)]
    <2>1. \A n \in 0..N : n # 0 => n \in 1..N
      BY <1>1
    <2> HIDE DEF S, N, first
    <2> QED
      BY <1>4, <1>5, <2>1 DEF Follows
  <1>7. X = [n \in 0..N |-> IF n = 0 THEN first ELSE EscapeByte(X[n - 1], t[n], size)]
    BY <1>6 DEF Escaping
  <1> HIDE DEF X, S, N, first
  <1>8. X[0] = first /\ \A n \in 1..N : X[n] = EscapeByte(X[n - 1], t[n], size)
    <2>1. 0 \in 0..N /\ \A n \in 1..N : n \in 0..N /\ n # 0
      BY <1>1
    <2> QED
      BY <1>7, <2>1
  <1>9. \A n \in 0..N : X[n] \in S
    <2> DEFINE T == {n \in 0..N : X[n] \in S}
    <2>1. 0 \in T
      BY <1>1, <1>8
    <2>2. ASSUME NEW n \in 0..(N - 1), n \in T PROVE n + 1 \in T
      <3>1. n + 1 \in 1..N /\ n + 1 \in 0..N /\ (n + 1) - 1 = n
        BY <1>1
      <3>2. X[n + 1] = EscapeByte(X[n], t[(n + 1)], size)
        BY <1>8, <3>1
      <3> QED
        BY <1>2, <2>2, <3>1, <3>2
    <2>3. \A n \in 0..N : n \in T
      <3> HIDE DEF T
      <3> QED
        BY <1>1, <2>1, <2>2, Counting
    <2> QED
      BY <2>3
  <1> QED
    BY <1>8, <1>9 DEF X, S, N, first

(* json_escape takes one byte after the other.                             *)
LEMMA EscapedGrows ==
    ASSUME NEW size \in Nat, NEW t \in Seq(Byte), NEW b \in Byte
    PROVE  /\ Escaped(<<>>, size) = <<>>
           /\ Escaped(t, size) \in Seq(Byte)
           /\ Escaped(Append(t, b), size) = EscapeByte(Escaped(t, size), b, size)
  <1> DEFINE u == Append(t, b)
             X == Escaping(t, size)
             Y == Escaping(u, size)
             N == Len(t)
  <1>1. u \in Seq(Byte) /\ N \in Nat /\ Len(u) = N + 1 /\ u[N + 1] = b
    BY LenProperties, AppendProperties
  <1>2. \A i \in 1..N : u[i] = t[i]
    BY AppendProperties
  <1>3. /\ \A n \in 0..N : X[n] \in Seq(Byte)
        /\ X[0] = <<>> /\ \A n \in 1..N : X[n] = EscapeByte(X[n - 1], t[n], size)
    BY EscapingIs
  <1>4. Y[0] = <<>> /\ \A n \in 1..Len(u) : Y[n] = EscapeByte(Y[n - 1], u[n], size)
    <2> HIDE DEF u
    <2> QED
      BY <1>1, EscapingIs
  <1>5. Escaping(<<>>, size)[0] = <<>>
    BY EscapingIs, EmptySeq
  <1> HIDE DEF u, X, Y
  <1> DEFINE T == {n \in 0..N : Y[n] = X[n]}
  <1>6. 0 \in T
    BY <1>1, <1>3, <1>4
  <1>7. ASSUME NEW n \in 0..(N - 1), n \in T PROVE n + 1 \in T
    <2>1. n + 1 \in 1..N /\ n + 1 \in 0..N /\ n + 1 \in 1..Len(u) /\ (n + 1) - 1 = n
      BY <1>1
    <2>2. X[n + 1] = EscapeByte(X[n], t[n + 1], size) /\ Y[n + 1] = EscapeByte(Y[n], u[n + 1], size)
      BY <1>3, <1>4, <2>1
    <2> QED
      BY <1>2, <1>7, <2>1, <2>2
  <1>8. \A n \in 0..N : n \in T
    <2> HIDE DEF T
    <2> QED
      BY <1>1, <1>6, <1>7, Counting
  <1>9. Y[N] = X[N] /\ N \in 0..N
    BY <1>1, <1>8
  <1>10. Y[N + 1] = EscapeByte(Y[N], b, size)
    <2>1. N + 1 \in 1..Len(u) /\ (N + 1) - 1 = N
      BY <1>1
    <2> QED
      BY <1>1, <1>4, <2>1
  <1>11. Escaped(t, size) = X[N] /\ Escaped(u, size) = Y[Len(u)]
    BY DEF Escaped, Escaping, X, Y
  <1>12. Escaped(<<>>, size) = Escaping(<<>>, size)[0]
    BY EmptySeq DEF Escaped, Escaping
  <1> QED
    BY <1>1, <1>3, <1>5, <1>9, <1>10, <1>11, <1>12 DEF u

(* What a reader of JSON knows after so many bytes, and at the end.        *)
Reading(t) ==
    CHOOSE g : g = [n \in 0..Len(t) |-> IF n = 0 THEN [text |-> <<>>, escaped |-> FALSE]
                                        ELSE UnescapeByte(g[n - 1], t[n])]

Read(t) == Reading(t)[Len(t)]

(* A reader of JSON, byte by byte.                                         *)
LEMMA ReadingIs ==
    ASSUME NEW t \in Seq(Byte)
    PROVE  /\ \A n \in 0..Len(t) : Reading(t)[n] \in [text : Seq(Byte), escaped : BOOLEAN]
           /\ Reading(t)[0] = [text |-> <<>>, escaped |-> FALSE]
           /\ \A n \in 1..Len(t) : Reading(t)[n] = UnescapeByte(Reading(t)[n - 1], t[n])
  <1> DEFINE N == Len(t)
             S == [text : Seq(Byte), escaped : BOOLEAN]
             first == [text |-> <<>>, escaped |-> FALSE]
             X == Reading(t)
             F == [n \in 1..N |-> [x \in S |-> UnescapeByte(x, t[n])]]
  <1>1. N \in Nat /\ first \in S
    BY LenProperties, EmptySeq
  <1>2. ASSUME NEW n \in 1..N, NEW x \in S PROVE UnescapeByte(x, t[n]) \in S
    <2>1. t[n] \in Byte
      BY ElementOfSeq
    <2>2. Append(x.text, t[n]) \in Seq(Byte)
      BY <2>1, AppendProperties
    <2> QED
      BY <2>2 DEF UnescapeByte
  <1>3. F \in [1..N -> [S -> S]]
    BY <1>2
  <1>4. PICK g : Follows(g, N, S, first, F)
    <2> HIDE DEF F, S, N, first
    <2> QED
      BY <1>1, <1>3, RecursionExists
  <1>5. \A n \in 1..N : g[n] = UnescapeByte(g[n - 1], t[n])
    <2>1. \A n \in 1..N : n - 1 \in 0..N
      BY <1>1
    <2> HIDE DEF S, N, first
    <2> QED
      BY <1>4, <2>1 DEF Follows
  <1> HIDE DEF F
  <1>6. g = [n \in 0..N |-> IF n = 0 THEN first ELSE UnescapeByte(g[n - 1], t[n])]
    <2>1. \A n \in 0..N : n # 0 => n \in 1..N
      BY <1>1
    <2> HIDE DEF S, N, first
    <2> QED
      BY <1>4, <1>5, <2>1 DEF Follows
  <1>7. X = [n \in 0..N |-> IF n = 0 THEN first ELSE UnescapeByte(X[n - 1], t[n])]
    BY <1>6 DEF Reading
  <1> HIDE DEF X, S, N, first
  <1>8. X[0] = first /\ \A n \in 1..N : X[n] = UnescapeByte(X[n - 1], t[n])
    <2>1. 0 \in 0..N /\ \A n \in 1..N : n \in 0..N /\ n # 0
      BY <1>1
    <2> QED
      BY <1>7, <2>1
  <1>9. \A n \in 0..N : X[n] \in S
    <2> DEFINE T == {n \in 0..N : X[n] \in S}
    <2>1. 0 \in T
      BY <1>1, <1>8
    <2>2. ASSUME NEW n \in 0..(N - 1), n \in T PROVE n + 1 \in T
      <3>1. n + 1 \in 1..N /\ n + 1 \in 0..N /\ (n + 1) - 1 = n
        BY <1>1
      <3>2. X[n + 1] = UnescapeByte(X[n], t[(n + 1)])
        BY <1>8, <3>1
      <3> QED
        BY <1>2, <2>2, <3>1, <3>2
    <2>3. \A n \in 0..N : n \in T
      <3> HIDE DEF T
      <3> QED
        BY <1>1, <2>1, <2>2, Counting
    <2> QED
      BY <2>3
  <1> QED
    BY <1>8, <1>9 DEF X, S, N, first

(* One more byte.                                                          *)
LEMMA ReadGrows ==
    ASSUME NEW t \in Seq(Byte), NEW b \in Byte
    PROVE  /\ Read(<<>>) = [text |-> <<>>, escaped |-> FALSE]
           /\ Read(t) \in [text : Seq(Byte), escaped : BOOLEAN]
           /\ Read(Append(t, b)) = UnescapeByte(Read(t), b)
  <1> DEFINE u == Append(t, b)
             X == Reading(t)
             Y == Reading(u)
             N == Len(t)
  <1>1. u \in Seq(Byte) /\ N \in Nat /\ Len(u) = N + 1 /\ u[N + 1] = b
    BY LenProperties, AppendProperties
  <1>2. \A i \in 1..N : u[i] = t[i]
    BY AppendProperties
  <1>3. /\ \A n \in 0..N : X[n] \in [text : Seq(Byte), escaped : BOOLEAN]
        /\ X[0] = [text |-> <<>>, escaped |-> FALSE] /\ \A n \in 1..N : X[n] = UnescapeByte(X[n - 1], t[n])
    BY ReadingIs
  <1>4. Y[0] = [text |-> <<>>, escaped |-> FALSE] /\ \A n \in 1..Len(u) : Y[n] = UnescapeByte(Y[n - 1], u[n])
    <2> HIDE DEF u
    <2> QED
      BY <1>1, ReadingIs
  <1>5. Reading(<<>>)[0] = [text |-> <<>>, escaped |-> FALSE]
    BY ReadingIs, EmptySeq
  <1> HIDE DEF u, X, Y
  <1> DEFINE T == {n \in 0..N : Y[n] = X[n]}
  <1>6. 0 \in T
    BY <1>1, <1>3, <1>4
  <1>7. ASSUME NEW n \in 0..(N - 1), n \in T PROVE n + 1 \in T
    <2>1. n + 1 \in 1..N /\ n + 1 \in 0..N /\ n + 1 \in 1..Len(u) /\ (n + 1) - 1 = n
      BY <1>1
    <2>2. X[n + 1] = UnescapeByte(X[n], t[n + 1]) /\ Y[n + 1] = UnescapeByte(Y[n], u[n + 1])
      BY <1>3, <1>4, <2>1
    <2> QED
      BY <1>2, <1>7, <2>1, <2>2
  <1>8. \A n \in 0..N : n \in T
    <2> HIDE DEF T
    <2> QED
      BY <1>1, <1>6, <1>7, Counting
  <1>9. Y[N] = X[N] /\ N \in 0..N
    BY <1>1, <1>8
  <1>10. Y[N + 1] = UnescapeByte(Y[N], b)
    <2>1. N + 1 \in 1..Len(u) /\ (N + 1) - 1 = N
      BY <1>1
    <2> QED
      BY <1>1, <1>4, <2>1
  <1>11. Read(t) = X[N] /\ Read(u) = Y[Len(u)]
    BY DEF Read, X, Y
  <1>12. Read(<<>>) = Reading(<<>>)[0]
    BY EmptySeq DEF Read
  <1> QED
    BY <1>1, <1>3, <1>5, <1>9, <1>10, <1>11, <1>12 DEF u

(* Unescaped is the text of the reader.                                    *)
LEMMA UnescapedIsRead == \A t : Unescaped(t) = Read(t).text
  BY DEF Unescaped, Read, Reading

(* A word without anything to escape is laid out as it is, if there is     *)
(* room, and read as it is.                                                *)
LEMMA EscapedWord ==
    ASSUME NEW size \in Nat, NEW t \in Seq(Byte), NEW w \in Seq(Inner),
           Len(Escaped(t, size)) + Len(w) < size
    PROVE  Escaped(t \o w, size) = Escaped(t, size) \o w
  <1> DEFINE E == Escaped(t, size)
             T == {u \in Seq(Inner) : Len(E) + Len(u) < size => Escaped(t \o u, size) = E \o u}
  <1>1. E \in Seq(Byte) /\ Len(E) \in Nat /\ Inner \subseteq Byte
    BY EscapedGrows, Alphabet, LenProperties
  <1>2. <<>> \in T
    <2>1. t \o <<>> = t /\ E \o <<>> = E
      BY <1>1, ConcatEmptySeq
    <2> QED
      BY <2>1, EmptySeq
  <1>3. ASSUME NEW u \in Seq(Inner), NEW e \in Inner, u \in T PROVE Append(u, e) \in T
    <2>1. /\ u \in Seq(Byte) /\ e \in Byte /\ Len(u) \in Nat
          /\ Append(u, e) \in Seq(Inner) /\ Len(Append(u, e)) = Len(u) + 1
      BY <1>1, SeqMonotonic, LenProperties, AppendProperties
    <2>2. SUFFICES ASSUME Len(E) + (Len(u) + 1) < size
                   PROVE  Escaped(t \o Append(u, e), size) = E \o Append(u, e)
      BY <2>1
    <2>3. Escaped(t \o u, size) = E \o u
      <3>1. Len(E) + Len(u) < size
        <4> HIDE DEF E
        <4> QED
          BY <1>1, <2>1, <2>2
      <3>2. Len(E) + Len(u) < size => Escaped(t \o u, size) = E \o u
        BY <1>3
      <3> QED
        BY <3>1, <3>2
    <2>4. t \o Append(u, e) = Append(t \o u, e) /\ E \o Append(u, e) = Append(E \o u, e)
      <3> HIDE DEF E
      <3>1. t \o Append(u, e) = Append(t \o u, e)
        BY <2>1, ConcatAppend
      <3>2. E \o Append(u, e) = Append(E \o u, e)
        BY <1>1, <2>1, ConcatAppend
      <3> QED
        BY <3>1, <3>2
    <2>5. t \o u \in Seq(Byte) /\ Len(E \o u) = Len(E) + Len(u)
      BY <1>1, <2>1, ConcatProperties
    <2>6. Escaped(Append(t \o u, e), size) = EscapeByte(E \o u, e, size)
      BY <2>1, <2>3, <2>5, EscapedGrows
    <2>7. e \notin Controls /\ e \notin {Quote, Slash}
      BY DEF Inner
    <2>8. ~(Len(E \o u) + 1 >= size)
      BY <1>1, <2>1, <2>2, <2>5
    <2> HIDE DEF E
    <2>9. EscapeByte(E \o u, e, size) = Append(E \o u, e)
      BY <2>7, <2>8 DEF EscapeByte
    <2> QED
      BY <2>4, <2>6, <2>9
  <1> HIDE DEF T
  <1>4. w \in T
    BY <1>2, <1>3, SeqInduction
  <1> QED
    BY <1>4 DEF T

(* A reader of JSON keeps what needs no escape.                            *)
LEMMA ReadWord ==
    ASSUME NEW v \in Seq(Byte), NEW w \in Seq(Inner), ~Read(v).escaped
    PROVE  Read(v \o w) = [text |-> Read(v).text \o w, escaped |-> FALSE]
  <1> DEFINE st == Read(v)
             T == {u \in Seq(Inner) : Read(v \o u) = [text |-> st.text \o u, escaped |-> FALSE]}
  <1>1. st \in [text : Seq(Byte), escaped : BOOLEAN] /\ Inner \subseteq Byte
    BY ReadGrows, Alphabet
  <1>2. st.text \in Seq(Byte) /\ st = [text |-> st.text, escaped |-> FALSE]
    <2> HIDE DEF st
    <2>1. st = [text |-> st.text, escaped |-> st.escaped] /\ st.escaped \in BOOLEAN
      BY <1>1
    <2>2. st.escaped = FALSE
      BY <2>1 DEF st
    <2> QED
      BY <1>1, <2>1, <2>2
  <1>3. <<>> \in T
    <2>1. v \o <<>> = v /\ st.text \o <<>> = st.text
      BY <1>2, ConcatEmptySeq
    <2> QED
      BY <1>2, <2>1, EmptySeq
  <1>4. ASSUME NEW u \in Seq(Inner), NEW e \in Inner, u \in T PROVE Append(u, e) \in T
    <2>1. u \in Seq(Byte) /\ e \in Byte /\ Append(u, e) \in Seq(Inner)
      BY <1>1, SeqMonotonic, AppendProperties
    <2>2. v \o Append(u, e) = Append(v \o u, e) /\ st.text \o Append(u, e) = Append(st.text \o u, e)
      BY <1>2, <2>1, ConcatAppend
    <2>3. v \o u \in Seq(Byte)
      BY <2>1, ConcatProperties
    <2>4. Read(Append(v \o u, e)) = UnescapeByte([text |-> st.text \o u, escaped |-> FALSE], e)
      BY <1>4, <2>1, <2>3, ReadGrows
    <2>5. e # Slash
      BY DEF Inner
    <2> HIDE DEF st
    <2>6. UnescapeByte([text |-> st.text \o u, escaped |-> FALSE], e)
            = [text |-> Append(st.text \o u, e), escaped |-> FALSE]
      BY <2>5 DEF UnescapeByte
    <2> QED
      BY <2>1, <2>2, <2>4, <2>6
  <1> HIDE DEF T
  <1>5. w \in T
    BY <1>3, <1>4, SeqInduction
  <1> QED
    BY <1>5 DEF T

(* What is escaped takes two bytes, which are read as one.                 *)
LEMMA EscapedMark ==
    ASSUME NEW size \in Nat, NEW t \in Seq(Byte), NEW b \in {Quote, Slash},
           Len(Escaped(t, size)) + 2 < size
    PROVE  Escaped(Append(t, b), size) = Escaped(t, size) \o <<Slash, b>>
  <1>1. b \in Byte /\ b \notin Controls /\ Escaped(t, size) \in Seq(Byte)
    BY Alphabet, EscapedGrows DEF Marks
  <1>2. Len(Escaped(t, size)) \in Nat
    BY <1>1, LenProperties
  <1>3. Escaped(Append(t, b), size) = EscapeByte(Escaped(t, size), b, size)
    BY <1>1, EscapedGrows
  <1>4. ~(Len(Escaped(t, size)) + 1 >= size)
    BY <1>2
  <1> QED
    BY <1>1, <1>3, <1>4 DEF EscapeByte

(* A reader of JSON takes the escape off.                                  *)
LEMMA ReadMark ==
    ASSUME NEW v \in Seq(Byte), NEW b \in {Quote, Slash}, ~Read(v).escaped
    PROVE  Read(v \o <<Slash, b>>) = [text |-> Append(Read(v).text, b), escaped |-> FALSE]
  <1> DEFINE st == Read(v)
  <1>1. st \in [text : Seq(Byte), escaped : BOOLEAN] /\ b \in Byte /\ Slash \in Byte
    BY ReadGrows, Alphabet
  <1>2. v \o <<Slash, b>> = Append(Append(v, Slash), b) /\ Append(v, Slash) \in Seq(Byte)
    BY <1>1, ConcatPair, AppendProperties
  <1>3. Read(Append(v, Slash)) = UnescapeByte(st, Slash)
    BY <1>1, ReadGrows
  <1>4. Read(Append(Append(v, Slash), b)) = UnescapeByte(UnescapeByte(st, Slash), b)
    BY <1>1, <1>2, <1>3, ReadGrows
  <1>5. ~st.escaped
    OBVIOUS
  <1> HIDE DEF st
  <1>6. UnescapeByte(st, Slash) = [text |-> st.text, escaped |-> TRUE]
    BY <1>1, <1>5 DEF UnescapeByte
  <1>7. UnescapeByte([text |-> st.text, escaped |-> TRUE], b)
          = [text |-> Append(st.text, b), escaped |-> FALSE]
    BY DEF UnescapeByte
  <1> QED
    BY <1>2, <1>4, <1>6, <1>7 DEF st

(* What parse_json_string takes at a time.                                 *)
Pieces == {<<x>> : x \in Inner \ NonAscii} \cup {<<Slash, x>> : x \in {Slash, Quote}} \cup Utf

(* Bytes that need no escape.                                              *)
LEMMA UtfInner ==
    /\ Utf \subseteq Seq(Inner) /\ \A w \in Utf : Len(w) \in 2..4
    /\ \A x \in Inner : <<x>> \in Seq(Inner) /\ Len(<<x>>) = 1
    /\ \A x \in {Slash, Quote} : <<Slash, x>> \in Seq(Byte) /\ Len(<<Slash, x>>) = 2
  <1>1. \A w \in Seq(NonAscii) : w \in Seq(Inner)
    BY Alphabet, SeqMonotonic
  <1>2. \A w \in Utf : Len(w) \in 2..4
    BY FormShape DEF Utf
  <1>3. \A x \in {Slash, Quote} : x \in Byte /\ Slash \in Byte
    BY Alphabet
  <1> QED
    BY <1>1, <1>2, <1>3 DEF Utf

(* A piece is a safe word, or an escape.                                   *)
LEMMA PieceKinds ==
    ASSUME NEW w \in Pieces
    PROVE  /\ w \in Seq(Byte) /\ Len(w) \in 1..4
           /\ \/ w \in SafeWords /\ w \in Seq(Inner)
              \/ \E x \in {Slash, Quote} : w = <<Slash, x>> /\ <<x>> \in SafeWords
  <1>1. \A x \in Seq(Inner) : x \in Seq(Byte)
    BY Alphabet, SeqMonotonic
  <1>2. CASE w \in Utf
    BY <1>1, <1>2, UtfInner DEF SafeWords
  <1>3. CASE \E x \in Inner \ NonAscii : w = <<x>>
    <2>1. PICK x \in Inner \ NonAscii : w = <<x>>
      BY <1>3
    <2>2. x \in Byte \ (Controls \cup NonAscii)
      BY DEF Inner
    <2> QED
      BY <1>1, <2>1, <2>2, UtfInner DEF SafeWords
  <1>4. CASE \E x \in {Slash, Quote} : w = <<Slash, x>>
    <2>1. PICK x \in {Slash, Quote} : w = <<Slash, x>>
      BY <1>4
    <2>2. x \in Byte \ (Controls \cup NonAscii)
      BY Alphabet DEF Marks
    <2> QED
      BY <2>1, <2>2, UtfInner DEF SafeWords
  <1> QED
    BY <1>2, <1>3, <1>4 DEF Pieces

(* A safe word is a piece, or is escaped into one.                         *)
LEMMA SafeWordKinds ==
    ASSUME NEW w \in SafeWords
    PROVE  \/ w \in Pieces /\ w \in Seq(Inner)
           \/ \E x \in {Slash, Quote} : w = <<x>> /\ <<Slash, x>> \in Pieces
  <1>1. CASE w \in Utf
    BY <1>1, UtfInner DEF Pieces
  <1>2. CASE \E x \in Byte \ (Controls \cup NonAscii) : w = <<x>>
    <2>1. PICK x \in Byte \ (Controls \cup NonAscii) : w = <<x>>
      BY <1>2
    <2>2. CASE x \in {Slash, Quote}
      BY <2>1, <2>2 DEF Pieces
    <2>3. CASE x \notin {Slash, Quote}
      <3>1. x \in Inner \ NonAscii
        BY <2>3 DEF Inner
      <3> QED
        BY <2>1, <3>1, UtfInner DEF Pieces
    <2> QED
      BY <2>2, <2>3
  <1> QED
    BY <1>1, <1>2 DEF SafeWords

(* Pieces and safe words are texts.                                        *)
LEMMA PiecesText == Pieces \subseteq Seq(Byte) /\ SafeWords \subseteq Seq(Byte)
  BY PieceKinds, SafeWordsText

(* A text of characters that fits twice into the buffer is escaped into    *)
(* pieces, without loss, and a reader of JSON gets it back.                *)
THEOREM EscapedReads ==
    ASSUME NEW size \in Nat, NEW t \in Composed(SafeWords), 2 * Len(t) < size
    PROVE  /\ Escaped(t, size) \in Composed(Pieces)
           /\ Len(Escaped(t, size)) <= 2 * Len(t)
           /\ Read(Escaped(t, size)) = [text |-> t, escaped |-> FALSE]
  <1> DEFINE Good(u, E) == /\ E \in Composed(Pieces) /\ Len(E) <= 2 * Len(u)
                           /\ Read(E) = [text |-> u, escaped |-> FALSE]
             T == {u \in Seq(Byte) : 2 * Len(u) < size => Good(u, Escaped(u, size))}
  <1>1. /\ Composed(Pieces) \subseteq Seq(Byte) /\ <<>> \in Composed(Pieces)
        /\ \A u \in Composed(Pieces), w \in Pieces : u \o w \in Composed(Pieces)
    BY PiecesText, ComposedGrows
  <1>2. Composed(SafeWords) \subseteq Seq(Byte)
    BY PiecesText, ComposedGrows
  <1>3. <<>> \in T
    <2>1. Escaped(<<>>, size) = <<>> /\ Read(<<>>) = [text |-> <<>>, escaped |-> FALSE]
      BY EscapedGrows, ReadGrows, EmptySeq, Alphabet
    <2> QED
      BY <1>1, <2>1, EmptySeq
  <1>4. ASSUME NEW u \in Composed(SafeWords), NEW w \in SafeWords, u \in T PROVE u \o w \in T
    <2> DEFINE E == Escaped(u, size)
    <2>1. /\ u \in Seq(Byte) /\ w \in Seq(Byte) /\ u \o w \in Seq(Byte)
          /\ Len(u) \in Nat /\ Len(w) \in Nat /\ Len(u \o w) = Len(u) + Len(w)
      BY <1>2, PiecesText, ConcatProperties, LenProperties
    <2>2. SUFFICES ASSUME 2 * Len(u \o w) < size PROVE Good(u \o w, Escaped(u \o w, size))
      BY <2>1
    <2>3. 2 * Len(u) < size
      BY <2>1, <2>2
    <2>4. Good(u, E)
      BY <1>4, <2>3
    <2>5. E \in Seq(Byte) /\ Len(E) \in Nat /\ ~Read(E).escaped /\ Read(E).text = u
      BY <1>1, <2>4, LenProperties
    <2>6. Len(E) + 2 * Len(w) < size
      <3>1. Len(E) <= 2 * Len(u) /\ 2 * (Len(u) + Len(w)) < size
        BY <2>1, <2>2, <2>4
      <3> HIDE DEF E
      <3> QED
        BY <2>1, <2>5, <3>1
    <2>7. CASE w \in Pieces /\ w \in Seq(Inner)
      <3>1. Len(E) + Len(w) < size
        <4> HIDE DEF E
        <4> QED
          BY <2>1, <2>5, <2>6
      <3>2. Escaped(u \o w, size) = E \o w
        BY <2>1, <2>7, <3>1, EscapedWord
      <3>3. Read(E \o w) = [text |-> u \o w, escaped |-> FALSE]
        BY <2>5, <2>7, ReadWord
      <3>4. E \o w \in Composed(Pieces)
        BY <1>1, <2>4, <2>7
      <3>5. Len(E \o w) <= 2 * Len(u \o w)
        <4>1. Len(E \o w) = Len(E) + Len(w)
          BY <2>1, <2>5, ConcatProperties
        <4>2. Len(E) <= 2 * Len(u)
          BY <2>4
        <4> HIDE DEF E
        <4> QED
          BY <2>1, <2>5, <4>1, <4>2
      <3> QED
        BY <3>2, <3>3, <3>4, <3>5
    <2>8. CASE \E x \in {Slash, Quote} : w = <<x>> /\ <<Slash, x>> \in Pieces
      <3>1. PICK x \in {Slash, Quote} : w = <<x>> /\ <<Slash, x>> \in Pieces
        BY <2>8
      <3>2. x \in Byte /\ u \o w = Append(u, x) /\ Len(w) = 1
        <4>1. x \in Byte
          BY Alphabet
        <4> QED
          BY <2>1, <3>1, <4>1, ConcatAppend
      <3>3. Len(E) + 2 < size
        <4> HIDE DEF E
        <4> QED
          BY <2>5, <2>6, <3>2
      <3>4. Escaped(u \o w, size) = E \o <<Slash, x>>
        <4>1. Escaped(Append(u, x), size) = E \o <<Slash, x>>
          BY <2>1, <3>3, EscapedMark
        <4> QED
          BY <3>2, <4>1
      <3>5. Read(E \o <<Slash, x>>) = [text |-> u \o w, escaped |-> FALSE]
        BY <2>5, <3>2, ReadMark
      <3>6. E \o <<Slash, x>> \in Composed(Pieces)
        BY <1>1, <2>4, <3>1
      <3>7. Len(E \o <<Slash, x>>) <= 2 * Len(u \o w)
        <4>1. <<Slash, x>> \in Seq(Byte) /\ Len(<<Slash, x>>) = 2
          BY UtfInner
        <4>2. Len(E \o <<Slash, x>>) = Len(E) + 2
          BY <2>5, <4>1, ConcatProperties
        <4>3. Len(E) <= 2 * Len(u)
          BY <2>4
        <4> HIDE DEF E
        <4> QED
          BY <2>1, <2>5, <3>2, <4>2, <4>3
      <3> QED
        BY <3>4, <3>5, <3>6, <3>7
    <2> QED
      BY <2>7, <2>8, SafeWordKinds
  <1> HIDE DEF T
  <1>5. t \in T
    BY <1>3, <1>4, PiecesText, ComposedInduction
  <1> QED
    BY <1>5 DEF T

(* What is made of pieces is the only spelling of the text it is read as,  *)
(* and that text is one of characters.                                     *)
THEOREM ReadEscapes ==
    ASSUME NEW size \in Nat, NEW v \in Composed(Pieces), Len(v) < size
    PROVE  /\ Read(v).text \in Composed(SafeWords)
           /\ Escaped(Read(v).text, size) = v
           /\ ~Read(v).escaped
  <1> DEFINE Good(u) == /\ Read(u).text \in Composed(SafeWords)
                        /\ Escaped(Read(u).text, size) = u
                        /\ ~Read(u).escaped
             T == {u \in Seq(Byte) : Len(u) < size => Good(u)}
  <1>1. /\ Composed(SafeWords) \subseteq Seq(Byte) /\ <<>> \in Composed(SafeWords)
        /\ \A u \in Composed(SafeWords), w \in SafeWords : u \o w \in Composed(SafeWords)
    BY PiecesText, ComposedGrows
  <1>2. Composed(Pieces) \subseteq Seq(Byte)
    BY PiecesText, ComposedGrows
  <1>3. <<>> \in T
    <2>1. Escaped(<<>>, size) = <<>> /\ Read(<<>>) = [text |-> <<>>, escaped |-> FALSE]
      BY EscapedGrows, ReadGrows, EmptySeq, Alphabet
    <2> QED
      BY <1>1, <2>1, EmptySeq
  <1>4. ASSUME NEW u \in Composed(Pieces), NEW w \in Pieces, u \in T PROVE u \o w \in T
    <2> DEFINE t == Read(u).text
    <2>1. /\ u \in Seq(Byte) /\ w \in Seq(Byte) /\ u \o w \in Seq(Byte)
          /\ Len(u) \in Nat /\ Len(w) \in Nat /\ Len(u \o w) = Len(u) + Len(w)
      BY <1>2, PiecesText, ConcatProperties, LenProperties
    <2>2. SUFFICES ASSUME Len(u \o w) < size PROVE Good(u \o w)
      BY <2>1
    <2>3. Good(u)
      BY <1>4, <2>1, <2>2
    <2>4. t \in Seq(Byte)
      BY <1>1, <2>3
    <2>5. CASE w \in SafeWords /\ w \in Seq(Inner)
      <3>1. Read(u \o w) = [text |-> t \o w, escaped |-> FALSE]
        BY <2>1, <2>3, <2>5, ReadWord
      <3>2. Escaped(t \o w, size) = u \o w
        <4>1. Len(Escaped(t, size)) + Len(w) < size
          BY <2>1, <2>2, <2>3
        <4> QED
          BY <2>3, <2>4, <2>5, <4>1, EscapedWord
      <3>3. t \o w \in Composed(SafeWords)
        BY <1>1, <2>3, <2>5
      <3> QED
        BY <3>1, <3>2, <3>3
    <2>6. CASE \E x \in {Slash, Quote} : w = <<Slash, x>> /\ <<x>> \in SafeWords
      <3>1. PICK x \in {Slash, Quote} : w = <<Slash, x>> /\ <<x>> \in SafeWords
        BY <2>6
      <3>2. x \in Byte /\ t \o <<x>> = Append(t, x) /\ Len(w) = 2
        <4>1. x \in Byte
          BY Alphabet
        <4> QED
          BY <2>4, <3>1, <4>1, ConcatAppend
      <3>3. Read(u \o w) = [text |-> t \o <<x>>, escaped |-> FALSE]
        BY <2>1, <2>3, <3>1, <3>2, ReadMark
      <3>4. Escaped(t \o <<x>>, size) = u \o w
        <4>1. Len(Escaped(t, size)) + 2 < size
          BY <2>1, <2>2, <2>3, <3>2
        <4> QED
          BY <2>3, <2>4, <3>1, <3>2, <4>1, EscapedMark
      <3>5. t \o <<x>> \in Composed(SafeWords)
        BY <1>1, <2>3, <3>1
      <3> DEFINE y == t \o <<x>>
      <3> HIDE DEF y
      <3>6. Read(u \o w).text = y /\ ~Read(u \o w).escaped
        BY <3>3 DEF y
      <3> QED
        BY <3>4, <3>5, <3>6 DEF y
    <2> QED
      BY <2>5, <2>6, PieceKinds
  <1> HIDE DEF T
  <1>5. v \in T
    BY <1>3, <1>4, PiecesText, ComposedInduction
  <1> QED
    BY <1>5 DEF T

-----------------------------------------------------------------------------
(* parse_json_string takes what is made of pieces, between quotation marks.*)

(* A subsequence of two elements.                                          *)
LEMMA SubSeqTwo ==
    ASSUME NEW S, NEW s \in Seq(S), NEW p \in 1..Len(s), p + 1 <= Len(s)
    PROVE  SubSeq(s, p, p + 1) = <<s[p], s[p + 1]>>
  <1>1. /\ Len(s) \in Nat /\ p + 1 \in 1..Len(s) /\ p + 1 \in p..Len(s)
        /\ p + 1 \in (p + 1)..Len(s)
    BY LenProperties
  <1>2. SubSeq(s, p, p + 1) = <<s[p]>> \o SubSeq(s, p + 1, p + 1)
    BY <1>1, SubSeqRecursiveFirst
  <1>3. SubSeq(s, p + 1, p + 1) = <<s[p + 1]>>
    BY <1>1, SubSeqOne
  <1>4. s[p] \in S /\ s[p + 1] \in S
    BY <1>1, ElementOfSeq
  <1>5. \A x, y \in S : <<x>> \o <<y>> = <<x, y>>
    <2> SUFFICES ASSUME NEW x \in S, NEW y \in S PROVE <<x>> \o <<y>> = <<x, y>>
      OBVIOUS
    <2>1. <<x>> \in Seq(S) /\ <<x, y>> = Append(<<x>>, y)
      OBVIOUS
    <2> QED
      BY <2>1, ConcatAppend
  <1> QED
    BY <1>2, <1>3, <1>4, <1>5

(* A slice of a line is borne where it was taken.                          *)
LEMMA SliceBorne ==
    ASSUME NEW s \in Seq(Byte), NEW p \in Nat \ {0}, NEW n \in Nat, p + n - 1 <= Len(s),
           Slice(s, p, n) \in Seq(Byte), Len(Slice(s, p, n)) = n
    PROVE  Bears(s, p, Slice(s, p, n))
  <1>1. HasLiteral(s, p, Slice(s, p, n))
    BY DEF HasLiteral
  <1> QED
    BY <1>1, BearsLiteral

(* What one step of parse_json_string takes is a piece.                    *)
LEMMA TakenPiece ==
    ASSUME NEW s \in Seq(Byte), NEW p \in Nat \ {0}, ByteAt(s, p) # Quote, Taken(s, p) # 0
    PROVE  /\ Taken(s, p) \in 1..4 /\ p + Taken(s, p) - 1 <= Len(s)
           /\ Slice(s, p, Taken(s, p)) \in Pieces /\ Len(Slice(s, p, Taken(s, p))) = Taken(s, p)
  <1>1. Len(s) \in Nat /\ End \notin Byte /\ \A i \in 1..Len(s) : s[i] \in Byte
    BY LenProperties, ElementOfSeq, Alphabet
  <1>2. CASE ByteAt(s, p) = Slash
    <2>1. Taken(s, p) = 2 /\ ByteAt(s, p + 1) \in {Slash, Quote}
      <3>1. Slash \notin Controls /\ Slash # End /\ Slash \notin NonAscii
        BY Alphabet DEF Inner, Marks
      <3>2. Slash \notin Controls \cup {End} /\ ~(Slash \in NonAscii)
        BY <3>1
      <3>3. Taken(s, p) = IF ByteAt(s, p + 1) \in {Slash, Quote} THEN 2 ELSE 0
        BY <1>2, <3>2 DEF Taken
      <3> QED
        BY <3>3
    <2>2. p + 1 <= Len(s) /\ s[p + 1] \in {Slash, Quote} /\ s[p] = Slash
      BY <1>1, <1>2, <2>1, Alphabet DEF ByteAt
    <2>3. p \in 1..Len(s) /\ p + 2 - 1 = p + 1
      BY <1>1, <2>2
    <2>4. SubSeq(s, p, p + 1) = <<Slash, s[p + 1]>>
      BY <2>2, <2>3, SubSeqTwo
    <2>5. <<Slash, s[p + 1]>> \in Pieces /\ Len(<<Slash, s[p + 1]>>) = 2
      BY <2>2 DEF Pieces
    <2>6. Slice(s, p, Taken(s, p)) = SubSeq(s, p, p + 1)
      BY <2>1, <2>3 DEF Slice
    <2> QED
      BY <1>1, <2>1, <2>2, <2>3, <2>4, <2>5, <2>6
  <1>3. CASE ByteAt(s, p) # Slash /\ ByteAt(s, p) \in NonAscii
    <2>1. ByteAt(s, p) \notin Controls \cup {End}
      BY <1>3, Alphabet
    <2>2. Taken(s, p) = SequenceLength(s, p)
      BY <1>3, <2>1 DEF Taken
    <2>3. PICK form \in Forms : HasForm(s, p, form)
      BY <2>2, SequenceFound
    <2>4. p \in 1..Len(s)
      BY <1>1, <2>1 DEF ByteAt
    <2>5. Taken(s, p) = form[3] /\ form[3] \in 2..4
      BY <2>2, <2>3, SequenceFound, FormShape
    <2>6. /\ Slice(s, p, form[3]) \in Utf /\ p + form[3] - 1 <= Len(s)
          /\ Len(Slice(s, p, form[3])) = form[3]
      BY <2>3, <2>4, UtfTaken, FormInside
    <2> QED
      BY <2>5, <2>6 DEF Pieces
  <1>4. CASE ByteAt(s, p) # Slash /\ ByteAt(s, p) \notin NonAscii
    <2>1. ByteAt(s, p) \notin Controls \cup {End} /\ Taken(s, p) = 1
      BY <1>4 DEF Taken
    <2>2. p \in 1..Len(s) /\ ByteAt(s, p) = s[p]
      BY <1>1, <2>1 DEF ByteAt
    <2>3. s[p] \in Inner \ NonAscii
      BY <1>1, <1>4, <2>1, <2>2 DEF Inner
    <2>4. SubSeq(s, p, p) = <<s[p]>> /\ p + 1 - 1 = p
      BY <2>2, SubSeqOne
    <2>5. <<s[p]>> \in Pieces /\ Len(<<s[p]>>) = 1
      BY <2>3 DEF Pieces
    <2>6. Slice(s, p, Taken(s, p)) = SubSeq(s, p, p)
      BY <2>1, <2>4 DEF Slice
    <2> QED
      BY <1>1, <2>1, <2>2, <2>4, <2>5, <2>6
  <1> QED
    BY <1>2, <1>3, <1>4

(* One step of parse_json_string takes the piece that stands there.        *)
LEMMA TakenBorne ==
    ASSUME NEW s \in Seq(Byte), NEW p \in Nat \ {0}, NEW w \in Pieces, Bears(s, p, w)
    PROVE  ByteAt(s, p) # Quote /\ Taken(s, p) = Len(w)
  <1>1. Len(s) \in Nat
    BY LenProperties
  <1>2. CASE w \in Utf
    <2>1. p \in 1..Len(s)
      BY <1>2, UtfBorne
    <2>2. PICK form \in Forms : HasForm(s, p, form) /\ form[3] = Len(w)
      BY <1>2, UtfBorne
    <2>3. ByteAt(s, p) \in NonAscii
      BY <2>2, FormShape DEF HasForm
    <2>4. /\ ByteAt(s, p) \notin Controls \cup {End} /\ ByteAt(s, p) # Slash
          /\ ByteAt(s, p) # Quote
      BY <2>3, Alphabet DEF Inner
    <2>5. SequenceLength(s, p) = Len(w)
      BY <2>2, SequenceFound
    <2> QED
      BY <2>3, <2>4, <2>5 DEF Taken
  <1>3. CASE \E x \in Inner \ NonAscii : w = <<x>>
    <2>1. PICK x \in Inner \ NonAscii : w = <<x>>
      BY <1>3
    <2>2. Len(w) = 1 /\ w[1] = x
      BY <2>1
    <2>3. ByteAt(s, p) = x
      BY <1>1, <2>2 DEF Bears, ByteAt
    <2>4. x \notin Controls \cup {End} /\ x # Slash /\ x # Quote /\ x \notin NonAscii
      BY <2>1, Alphabet DEF Inner
    <2> QED
      BY <2>2, <2>3, <2>4 DEF Taken
  <1>4. CASE \E x \in {Slash, Quote} : w = <<Slash, x>>
    <2>1. PICK x \in {Slash, Quote} : w = <<Slash, x>>
      BY <1>4
    <2>2. Len(w) = 2 /\ w[1] = Slash /\ w[2] = x
      BY <2>1
    <2>3. p + 1 <= Len(s) /\ s[p] = Slash /\ s[p + 1] = x
      BY <1>1, <2>2 DEF Bears
    <2>4. ByteAt(s, p) = Slash /\ ByteAt(s, p + 1) = x
      BY <1>1, <2>3 DEF ByteAt
    <2>5. Slash \notin Controls \cup {End} /\ Slash \notin NonAscii /\ Slash # Quote
      <3>1. Slash \notin Controls /\ Slash # End /\ Slash \notin NonAscii /\ Slash # Quote
        BY Alphabet DEF Marks
      <3> QED
        BY <3>1
    <2> QED
      BY <2>1, <2>2, <2>4, <2>5 DEF Taken
  <1> QED
    BY <1>2, <1>3, <1>4 DEF Pieces

Quoted(v) == <<Quote>> \o v \o <<Quote>>

(* Where a line bears a text between quotation marks.                      *)
LEMMA QuotedBorne ==
    ASSUME NEW s \in Seq(Byte), NEW v \in Seq(Byte), NEW p \in Nat \ {0}
    PROVE  /\ Quoted(v) \in Seq(Byte) /\ Len(Quoted(v)) = Len(v) + 2
           /\ Bears(s, p, Quoted(v)) <=>
                /\ p + 1 + Len(v) <= Len(s) /\ s[p] = Quote
                /\ Bears(s, p + 1, v) /\ s[p + 1 + Len(v)] = Quote
  <1>1. <<Quote>> \in Seq(Byte) /\ Len(<<Quote>>) = 1 /\ <<Quote>>[1] = Quote
    <2>1. Quote \in Byte
      BY Alphabet
    <2>2. \A x \in Byte : <<x>> \in Seq(Byte) /\ Len(<<x>>) = 1 /\ <<x>>[1] = x
      OBVIOUS
    <2> QED
      BY <2>1, <2>2
  <1>2. /\ Len(s) \in Nat /\ Len(v) \in Nat
        /\ <<Quote>> \o v \in Seq(Byte) /\ Len(<<Quote>> \o v) = 1 + Len(v)
    BY <1>1, LenProperties, ConcatProperties
  <1>3. Quoted(v) \in Seq(Byte) /\ Len(Quoted(v)) = (1 + Len(v)) + 1
    BY <1>1, <1>2, ConcatProperties DEF Quoted
  <1>4. \A q \in Nat \ {0} : Bears(s, q, <<Quote>>) <=> q <= Len(s) /\ s[q] = Quote
    BY <1>1, <1>2 DEF Bears
  <1>5. Bears(s, p, Quoted(v)) <=> Bears(s, p, <<Quote>> \o v) /\ Bears(s, p + (1 + Len(v)), <<Quote>>)
    BY <1>1, <1>2, BearsConcat DEF Quoted
  <1>6. Bears(s, p, <<Quote>> \o v) <=> Bears(s, p, <<Quote>>) /\ Bears(s, p + 1, v)
    BY <1>1, <1>2, BearsConcat
  <1>7. p + (1 + Len(v)) \in Nat \ {0} /\ p + (1 + Len(v)) = p + 1 + Len(v)
    BY <1>2
  <1> QED
    BY <1>2, <1>3, <1>4, <1>5, <1>6, <1>7

(* Where parse_json_string stands after so many turns.                     *)
StringTurns(s, p, size) ==
    CHOOSE g : g = [k \in 0..(Len(s) - p) |->
                      IF k = 0 THEN [at |-> p + 1, value |-> <<>>, closed |-> FALSE]
                      ELSE StringTurn(s, g[k - 1], size)]

StringStates(s) == [at : 0..(Len(s) + 1), value : Seq(Byte), closed : BOOLEAN]

(* A turn of parse_json_string keeps the type of its state.                *)
LEMMA StringTurnTyped ==
    ASSUME NEW s \in Seq(Byte), NEW st \in StringStates(s), NEW size \in Nat
    PROVE  StringTurn(s, st, size) \in StringStates(s)
  <1>1. /\ Len(s) \in Nat /\ st.at \in 0..(Len(s) + 1) /\ st.value \in Seq(Byte)
        /\ st = [at |-> st.at, value |-> st.value, closed |-> st.closed] /\ st.closed \in BOOLEAN
    BY LenProperties DEF StringStates
  <1>2. CASE st.closed \/ st.at = 0
    BY <1>2 DEF StringTurn
  <1>3. CASE ~(st.closed \/ st.at = 0) /\ ByteAt(s, st.at) = Quote
    <2>1. st.at <= Len(s)
      BY <1>3, Alphabet DEF ByteAt
    <2>2. StringTurn(s, st, size) = [at |-> st.at + 1, value |-> st.value, closed |-> TRUE]
      BY <1>1, <1>3 DEF StringTurn
    <2>3. st.at + 1 \in 0..(Len(s) + 1)
      BY <1>1, <2>1
    <2> QED
      BY <1>1, <2>2, <2>3 DEF StringStates
  <1>4. CASE ~(st.closed \/ st.at = 0) /\ ByteAt(s, st.at) # Quote
    <2> DEFINE n == Taken(s, st.at)
    <2>1. CASE n = 0 \/ Len(st.value) + n >= size
      <3>1. StringTurn(s, st, size) = [at |-> 0, value |-> st.value, closed |-> st.closed]
        BY <1>1, <1>4, <2>1 DEF StringTurn
      <3> QED
        BY <1>1, <3>1 DEF StringStates
    <2>2. CASE ~(n = 0 \/ Len(st.value) + n >= size)
      <3>1. StringTurn(s, st, size)
              = [at |-> st.at + n, value |-> st.value \o Slice(s, st.at, n), closed |-> st.closed]
        BY <1>1, <1>4, <2>2 DEF StringTurn
      <3>2. st.at \in Nat \ {0}
        BY <1>1, <1>4
      <3>3. n \in 1..4 /\ st.at + n - 1 <= Len(s) /\ Slice(s, st.at, n) \in Pieces
        BY <1>4, <2>2, <3>2, TakenPiece
      <3>4. st.at + n \in 0..(Len(s) + 1)
        BY <1>1, <3>2, <3>3
      <3>5. st.value \o Slice(s, st.at, n) \in Seq(Byte)
        BY <1>1, <3>3, PiecesText, ConcatProperties
      <3> HIDE DEF n
      <3> QED
        BY <1>1, <3>1, <3>4, <3>5 DEF StringStates
    <2> QED
      BY <2>1, <2>2
  <1> QED
    BY <1>2, <1>3, <1>4

(* parse_json_string, turn by turn.                                        *)
LEMMA StringTurnsAre ==
    ASSUME NEW s \in Seq(Byte), NEW p \in 1..Len(s), NEW size \in Nat
    PROVE  /\ \A n \in 0..(Len(s) - p) : StringTurns(s, p, size)[n] \in StringStates(s)
           /\ StringTurns(s, p, size)[0] = [at |-> p + 1, value |-> <<>>, closed |-> FALSE]
           /\ \A n \in 1..(Len(s) - p) : StringTurns(s, p, size)[n] = StringTurn(s, StringTurns(s, p, size)[n - 1], size)
  <1> DEFINE N == (Len(s) - p)
             S == StringStates(s)
             first == [at |-> p + 1, value |-> <<>>, closed |-> FALSE]
             X == StringTurns(s, p, size)
             F == [n \in 1..N |-> [x \in S |-> StringTurn(s, x, size)]]
  <1>1. N \in Nat /\ first \in S
    <2>1. N \in Nat /\ p + 1 \in 0..(Len(s) + 1)
      BY LenProperties
    <2>2. <<>> \in Seq(Byte)
      BY EmptySeq
    <2> QED
      BY <2>1, <2>2 DEF StringStates
  <1>2. ASSUME NEW x \in S PROVE StringTurn(s, x, size) \in S
    BY StringTurnTyped
  <1>3. F \in [1..N -> [S -> S]]
    BY <1>2
  <1>4. PICK g : Follows(g, N, S, first, F)
    <2> HIDE DEF F, S, N, first
    <2> QED
      BY <1>1, <1>3, RecursionExists
  <1>5. \A n \in 1..N : g[n] = StringTurn(s, g[n - 1], size)
    <2>1. \A n \in 1..N : n - 1 \in 0..N
      BY <1>1
    <2> HIDE DEF S, N, first
    <2> QED
      BY <1>4, <2>1 DEF Follows
  <1> HIDE DEF F
  <1>6. g = [n \in 0..N |-> IF n = 0 THEN first ELSE StringTurn(s, g[n - 1], size)]
    <2>1. \A n \in 0..N : n # 0 => n \in 1..N
      BY <1>1
    <2> HIDE DEF S, N, first
    <2> QED
      BY <1>4, <1>5, <2>1 DEF Follows
  <1>7. X = [n \in 0..N |-> IF n = 0 THEN first ELSE StringTurn(s, X[n - 1], size)]
    BY <1>6 DEF StringTurns
  <1> HIDE DEF X, S, N, first
  <1>8. X[0] = first /\ \A n \in 1..N : X[n] = StringTurn(s, X[n - 1], size)
    <2>1. 0 \in 0..N /\ \A n \in 1..N : n \in 0..N /\ n # 0
      BY <1>1
    <2> QED
      BY <1>7, <2>1
  <1>9. \A n \in 0..N : X[n] \in S
    <2> DEFINE T == {n \in 0..N : X[n] \in S}
    <2>1. 0 \in T
      BY <1>1, <1>8
    <2>2. ASSUME NEW n \in 0..(N - 1), n \in T PROVE n + 1 \in T
      <3>1. n + 1 \in 1..N /\ n + 1 \in 0..N /\ (n + 1) - 1 = n
        BY <1>1
      <3>2. X[n + 1] = StringTurn(s, X[n], size)
        BY <1>8, <3>1
      <3> QED
        BY <1>2, <2>2, <3>1, <3>2
    <2>3. \A n \in 0..N : n \in T
      <3> HIDE DEF T
      <3> QED
        BY <1>1, <2>1, <2>2, Counting
    <2> QED
      BY <2>3
  <1> QED
    BY <1>8, <1>9 DEF X, S, N, first

(* The buffer of the string; without one there is no limit.                *)
Room(s, kept) == IF kept THEN 2 * FieldBytes ELSE Len(s) + 1

(* parse_json_string is the last of its turns.                             *)
LEMMA ParseStringIs ==
    ASSUME NEW s, NEW p, NEW kept, ByteAt(s, p) = Quote
    PROVE  ParseString(s, p, kept)
             = LET last == StringTurns(s, p, Room(s, kept))[Len(s) - p]
               IN  IF last.closed THEN [at |-> last.at, value |-> last.value] ELSE Failure
  BY DEF ParseString, StringTurns, Room

(* The buffer of a string is not empty.                                    *)
LEMMA RoomIs ==
    ASSUME NEW s \in Seq(Byte), NEW kept \in BOOLEAN
    PROVE  Room(s, kept) \in Nat \ {0}
  BY LenProperties, DigitsAre DEF Room

(* What has been read is borne by the line behind the quotation mark.      *)
StringSound(s, p, size, st) ==
    st.at # 0 =>
        /\ st.value \in Composed(Pieces) /\ Bears(s, p + 1, st.value) /\ Len(st.value) < size
        /\ st.closed => /\ p + 1 + Len(st.value) <= Len(s) /\ s[p + 1 + Len(st.value)] = Quote
                        /\ st.at = p + Len(st.value) + 2
        /\ ~st.closed => st.at = p + 1 + Len(st.value)

(* A turn of parse_json_string takes nothing the line does not show.       *)
LEMMA StringTurnSound ==
    ASSUME NEW s \in Seq(Byte), NEW p \in Nat \ {0}, NEW size \in Nat,
           NEW st \in StringStates(s), StringSound(s, p, size, st)
    PROVE  StringSound(s, p, size, StringTurn(s, st, size))
  <1>1. /\ Len(s) \in Nat /\ st.at \in 0..(Len(s) + 1) /\ st.value \in Seq(Byte)
        /\ st = [at |-> st.at, value |-> st.value, closed |-> st.closed] /\ st.closed \in BOOLEAN
        /\ Len(st.value) \in Nat
    BY LenProperties DEF StringStates
  <1>2. CASE st.closed \/ st.at = 0
    BY <1>2 DEF StringTurn
  <1>3. CASE ~(st.closed \/ st.at = 0) /\ ByteAt(s, st.at) = Quote
    <2>1. st.at <= Len(s) /\ s[st.at] = Quote
      BY <1>3, Alphabet DEF ByteAt
    <2>2. StringTurn(s, st, size) = [at |-> st.at + 1, value |-> st.value, closed |-> TRUE]
      BY <1>1, <1>3 DEF StringTurn
    <2>3. st.at = p + 1 + Len(st.value)
      BY <1>1, <1>3 DEF StringSound
    <2>4. st.at + 1 = p + Len(st.value) + 2
      BY <1>1, <2>3
    <2> QED
      BY <1>1, <1>3, <2>1, <2>2, <2>3, <2>4 DEF StringSound
  <1>4. CASE ~(st.closed \/ st.at = 0) /\ ByteAt(s, st.at) # Quote
    <2> DEFINE n == Taken(s, st.at)
               w == Slice(s, st.at, n)
    <2>1. CASE n = 0 \/ Len(st.value) + n >= size
      <3>1. StringTurn(s, st, size) = [at |-> 0, value |-> st.value, closed |-> st.closed]
        BY <1>1, <1>4, <2>1 DEF StringTurn
      <3> QED
        BY <3>1 DEF StringSound
    <2>2. CASE ~(n = 0 \/ Len(st.value) + n >= size)
      <3>1. StringTurn(s, st, size)
              = [at |-> st.at + n, value |-> st.value \o w, closed |-> st.closed]
        BY <1>1, <1>4, <2>2 DEF StringTurn
      <3>2. st.at \in Nat \ {0}
        BY <1>1, <1>4
      <3>3. n \in 1..4 /\ st.at + n - 1 <= Len(s) /\ w \in Pieces /\ Len(w) = n
        BY <1>4, <2>2, <3>2, TakenPiece
      <3>4. w \in Seq(Byte)
        BY <3>3, PiecesText
      <3>5. Bears(s, st.at, w)
        BY <3>2, <3>3, <3>4, SliceBorne
      <3>6. st.value \in Composed(Pieces) /\ Bears(s, p + 1, st.value) /\ st.at = (p + 1) + Len(st.value)
        BY <1>1, <1>4 DEF StringSound
      <3> DEFINE v == st.value
                 x == v \o w
      <3>7. x \in Composed(Pieces) /\ Len(x) = Len(v) + Len(w)
        <4>1. \A u \in Composed(Pieces), y \in Pieces : u \o y \in Composed(Pieces)
          BY PiecesText, ComposedGrows
        <4>2. v \in Seq(Byte)
          BY <1>1
        <4>3. Len(x) = Len(v) + Len(w)
          BY <3>4, <4>2, ConcatProperties
        <4> QED
          BY <3>3, <3>6, <4>1, <4>3
      <3>8. Bears(s, p + 1, x)
        <4>1. p + 1 \in Nat \ {0}
          OBVIOUS
        <4> QED
          BY <1>1, <3>4, <3>5, <3>6, <4>1, BearsConcat
      <3>9. Len(v) \in Nat /\ st.at = (p + 1) + Len(v) /\ Len(w) = n /\ n \in 1..4
            /\ ~(Len(v) + n >= size)
        BY <1>1, <2>2, <3>3, <3>6
      <3> HIDE DEF x, n, w, v
      <3>10. Len(x) < size /\ st.at + n = p + 1 + Len(x)
        BY <3>7, <3>9
      <3>11. StringTurn(s, st, size) = [at |-> st.at + n, value |-> x, closed |-> st.closed]
        BY <3>1 DEF x, v
      <3> QED
        BY <1>4, <3>7, <3>8, <3>10, <3>11 DEF StringSound
    <2> QED
      BY <2>1, <2>2
  <1> QED
    BY <1>2, <1>3, <1>4

(* A string that parse_json_string takes is made of pieces, and borne by   *)
(* the line between quotation marks, where it was looked for.              *)
THEOREM ParsedString ==
    ASSUME NEW s \in Seq(Byte), NEW p \in Nat \ {0}, NEW kept \in BOOLEAN,
           ParseString(s, p, kept).at # 0
    PROVE  \E v \in Composed(Pieces) :
             /\ Bears(s, p, Quoted(v)) /\ Len(v) < Room(s, kept)
             /\ ParseString(s, p, kept) = [at |-> p + Len(v) + 2, value |-> v]
  <1> DEFINE size == Room(s, kept)
             N == Len(s) - p
             X == StringTurns(s, p, size)
             last == X[N]
  <1>1. ByteAt(s, p) = Quote
    <2>1. ByteAt(s, p) # Quote => ParseString(s, p, kept) = Failure
      BY DEF ParseString
    <2> QED
      BY <2>1 DEF Failure
  <1>2. p \in 1..Len(s) /\ s[p] = Quote /\ Len(s) \in Nat
    <2>1. Len(s) \in Nat /\ End # Quote
      BY LenProperties, Alphabet
    <2> QED
      BY <1>1, <2>1 DEF ByteAt
  <1>3. N \in Nat /\ size \in Nat \ {0}
    BY <1>2, RoomIs
  <1>4. last.closed /\ ParseString(s, p, kept) = [at |-> last.at, value |-> last.value]
    BY <1>1, ParseStringIs DEF Failure
  <1>5. last.at # 0
    BY <1>4
  <1>6. /\ \A n \in 0..N : X[n] \in StringStates(s)
        /\ X[0] = [at |-> p + 1, value |-> <<>>, closed |-> FALSE]
        /\ \A n \in 1..N : X[n] = StringTurn(s, X[n - 1], size)
    <2>1. size \in Nat
      BY <1>3
    <2> HIDE DEF size
    <2> QED
      BY <1>2, <2>1, StringTurnsAre
  <1> HIDE DEF X, size
  <1>7. StringSound(s, p, size, X[0])
    <2>1. <<>> \in Composed(Pieces) /\ Len(<<>>) = 0 /\ Bears(s, p + 1, <<>>)
      <3>1. <<>> \in Composed(Pieces)
        BY PiecesText, ComposedGrows
      <3> QED
        BY <1>2, <3>1 DEF Bears
    <2> DEFINE e == <<>>
    <2> HIDE DEF e
    <2>2. X[0] = [at |-> p + 1, value |-> e, closed |-> FALSE]
      BY <1>6 DEF e
    <2>3. e \in Composed(Pieces) /\ Len(e) = 0 /\ Bears(s, p + 1, e)
      BY <2>1 DEF e
    <2> QED
      BY <1>3, <2>2, <2>3 DEF StringSound
  <1>8. \A n \in 0..N : StringSound(s, p, size, X[n])
    <2> DEFINE T == {n \in 0..N : StringSound(s, p, size, X[n])}
    <2>1. 0 \in T
      BY <1>3, <1>7
    <2>2. ASSUME NEW n \in 0..(N - 1), n \in T PROVE n + 1 \in T
      <3>1. n + 1 \in 1..N /\ n + 1 \in 0..N /\ (n + 1) - 1 = n /\ n \in 0..N
        BY <1>3
      <3>2. X[n + 1] = StringTurn(s, X[n], size)
        BY <1>6, <3>1
      <3>3. StringSound(s, p, size, X[n]) /\ X[n] \in StringStates(s)
        BY <1>6, <2>2, <3>1
      <3>4. StringSound(s, p, size, X[n + 1])
        BY <1>3, <3>2, <3>3, StringTurnSound
      <3> QED
        BY <3>1, <3>4
    <2> HIDE DEF N, T
    <2>3. \A n \in 0..N : n \in T
      BY <1>3, <2>1, <2>2, Counting
    <2> QED
      BY <2>3 DEF T
  <1> DEFINE v == last.value
  <1>9. StringSound(s, p, size, last) /\ N \in 0..N
    BY <1>3, <1>8
  <1>10. /\ v \in Composed(Pieces) /\ Bears(s, p + 1, v) /\ Len(v) < size
         /\ p + 1 + Len(v) <= Len(s) /\ s[p + 1 + Len(v)] = Quote /\ last.at = p + Len(v) + 2
    BY <1>4, <1>5, <1>9 DEF StringSound
  <1>11. v \in Seq(Byte)
    BY <1>10, PiecesText, ComposedGrows
  <1>12. Bears(s, p, Quoted(v))
    BY <1>2, <1>10, <1>11, QuotedBorne
  <1> HIDE DEF v, last
  <1>13. ParseString(s, p, kept) = [at |-> p + Len(v) + 2, value |-> v]
    BY <1>4, <1>10 DEF v
  <1> QED
    BY <1>10, <1>12, <1>13 DEF size

(* parse_json_string takes every string that is made of pieces.            *)
THEOREM BorneString ==
    ASSUME NEW s \in Seq(Byte), NEW p \in Nat \ {0}, NEW kept \in BOOLEAN,
           NEW v \in Composed(Pieces), Bears(s, p, Quoted(v)), Len(v) < Room(s, kept)
    PROVE  ParseString(s, p, kept) = [at |-> p + Len(v) + 2, value |-> v]
  <1> DEFINE size == Room(s, kept)
             N == Len(s) - p
             X == StringTurns(s, p, size)
             In(u) == Bears(s, p + 1, u) /\ Len(u) < size /\ p + 1 + Len(u) <= Len(s)
             T == {u \in Seq(Byte) : In(u) =>
                     \E k \in 0..Len(u) : X[k] = [at |-> p + 1 + Len(u), value |-> u, closed |-> FALSE]}
  <1>1. \A u \in Composed(Pieces) : u \in Seq(Byte) /\ Len(u) \in Nat
    BY PiecesText, ComposedGrows, LenProperties
  <1>2. /\ s[p] = Quote /\ In(v) /\ s[p + 1 + Len(v)] = Quote
    BY <1>1, QuotedBorne
  <1>3. Len(s) \in Nat /\ Len(v) \in Nat /\ p \in 1..Len(s)
    BY <1>1, <1>2, LenProperties
  <1>4. N \in Nat /\ size \in Nat \ {0}
    BY <1>3, RoomIs
  <1>5. /\ X[0] = [at |-> p + 1, value |-> <<>>, closed |-> FALSE]
        /\ \A n \in 1..N : X[n] = StringTurn(s, X[n - 1], size)
    <2>1. size \in Nat
      BY <1>4
    <2> HIDE DEF size
    <2> QED
      BY <1>3, <2>1, StringTurnsAre
  <1> HIDE DEF X, size
  <1>6. <<>> \in T
    <2>1. Len(<<>>) = 0 /\ <<>> \in Seq(Byte) /\ 0 \in 0..0 /\ p + 1 + 0 = p + 1
      BY EmptySeq
    <2> DEFINE e == <<>>
    <2>2. Len(e) = 0 /\ e \in Seq(Byte) /\ X[0] = [at |-> p + 1, value |-> e, closed |-> FALSE]
      BY <1>5, <2>1
    <2> HIDE DEF e
    <2>3. e \in T
      BY <2>1, <2>2
    <2> QED
      BY <2>3 DEF e
  <1>7. ASSUME NEW u \in Composed(Pieces), NEW w \in Pieces, u \in T PROVE u \o w \in T
    <2> DEFINE x == u \o w
    <2>1. /\ u \in Seq(Byte) /\ w \in Seq(Byte) /\ Len(u) \in Nat /\ Len(w) \in 1..4
      BY <1>1, PieceKinds
    <2>2. x \in Seq(Byte) /\ Len(x) = Len(u) + Len(w)
      BY <2>1, ConcatProperties
    <2>0. SUFFICES ASSUME In(x)
                   PROVE  \E k \in 0..Len(x) : X[k] = [at |-> p + 1 + Len(x), value |-> x, closed |-> FALSE]
      BY <2>2
    <2>3. Bears(s, p + 1, u) /\ Bears(s, (p + 1) + Len(u), w)
      <3>1. p + 1 \in Nat \ {0}
        OBVIOUS
      <3> QED
        BY <1>3, <2>0, <2>1, <3>1, BearsConcat
    <2>4. /\ Len(u) < size /\ p + 1 + Len(u) <= Len(s) /\ ~(Len(u) + Len(w) >= size)
          /\ p + 1 + Len(x) <= Len(s)
      <3>1. Len(x) < size /\ p + 1 + Len(x) <= Len(s)
        BY <2>0
      <3> HIDE DEF x
      <3> QED
        BY <1>3, <1>4, <2>1, <2>2, <3>1
    <2>5. PICK k \in 0..Len(u) : X[k] = [at |-> p + 1 + Len(u), value |-> u, closed |-> FALSE]
      BY <1>7, <2>3, <2>4
    <2> DEFINE q == (p + 1) + Len(u)
               st == X[k]
    <2>6. q \in Nat \ {0} /\ Len(w) # 0
      <3>1. Len(u) \in Nat /\ Len(w) \in 1..4
        BY <2>1
      <3>2. \A i, j, n \in Nat : i # 0 /\ n \in 1..4 => (i + 1) + j \in Nat \ {0} /\ n # 0
        OBVIOUS
      <3>3. Len(w) \in Nat /\ p \in Nat /\ p # 0
        BY <3>1
      <3> QED
        BY <3>1, <3>2, <3>3
    <2>7. ByteAt(s, q) # Quote /\ Taken(s, q) = Len(w) /\ Slice(s, q, Len(w)) = w
      <3> HIDE DEF q
      <3>1. Bears(s, q, w)
        BY <2>3 DEF q
      <3> QED
        BY <2>1, <2>6, <3>1, TakenBorne, BearsLiteral
    <2>8. st.at = q /\ st.value = u /\ st.closed = FALSE /\ st = [at |-> q, value |-> u, closed |-> FALSE]
      BY <2>5
    <2> HIDE DEF st, x
    <2>9. StringTurn(s, st, size) = [at |-> q + Len(w), value |-> u \o w, closed |-> FALSE]
      <3> HIDE DEF q
      <3> QED
        BY <2>4, <2>6, <2>7, <2>8 DEF StringTurn
    <2>10. /\ k + 1 \in 1..N /\ (k + 1) - 1 = k /\ k + 1 \in 0..Len(x)
           /\ q + Len(w) = p + 1 + Len(x)
      <3>1. /\ Len(u) \in Nat /\ Len(w) \in 1..4 /\ Len(x) = Len(u) + Len(w)
            /\ p + 1 + Len(x) <= Len(s)
        BY <2>1, <2>2, <2>4
      <3>2. p \in Nat /\ k \in Nat /\ Len(w) \in Nat /\ Len(x) \in Nat /\ k \in 0..Len(u)
        BY <3>1
      <3>3. /\ k + 1 \in 1..(Len(s) - p) /\ (k + 1) - 1 = k /\ k + 1 \in 0..Len(x)
            /\ (p + 1) + Len(u) + Len(w) = p + 1 + Len(x)
        <4> HIDE DEF x, st, T, q, N
        <4>1. k \in 0..Len(u) /\ Len(w) \in 1..4
          BY <3>1, <3>2
        <4>2. Len(s) \in Nat /\ Len(u) \in Nat /\ Len(x) = Len(u) + Len(w) /\ p + 1 + Len(x) <= Len(s)
          BY <1>3, <3>1
        <4> DEFINE a == Len(u)
                   b == Len(w)
                   c == Len(x)
                   n == Len(s)
        <4>3. a \in Nat /\ b \in Nat /\ c \in Nat /\ n \in Nat /\ p \in Nat /\ k \in Nat
          BY <3>2, <4>2
        <4>4. k \in 0..a /\ b \in 1..4 /\ c = a + b /\ p + 1 + c <= n
          BY <4>1, <4>2
        <4> HIDE DEF a, b, c, n
        <4>5. k + 1 \in 1..(n - p) /\ (k + 1) - 1 = k /\ k + 1 \in 0..c
          BY <4>3, <4>4
        <4>6. (p + 1) + a + b = p + 1 + c
          BY <4>3, <4>4
        <4> QED
          BY <4>5, <4>6 DEF a, b, c, n
      <3> QED
        BY <3>3
    <2>11. X[k + 1] = [at |-> p + 1 + Len(x), value |-> x, closed |-> FALSE]
      <3>1. X[k + 1] = StringTurn(s, X[(k + 1) - 1], size)
        BY <1>5, <2>10
      <3> HIDE DEF q, N
      <3> QED
        BY <2>9, <2>10, <3>1 DEF st, x
    <2> QED
      BY <2>10, <2>11
  <1>8. v \in T
    <2> HIDE DEF T
    <2> QED
      BY <1>6, <1>7, PiecesText, ComposedInduction
  <1>9. PICK k \in 0..Len(v) : X[k] = [at |-> p + 1 + Len(v), value |-> v, closed |-> FALSE]
    BY <1>2, <1>8
  <1> DEFINE done == [at |-> p + Len(v) + 2, value |-> v, closed |-> TRUE]
  <1>10. k + 1 \in 1..N /\ (k + 1) - 1 = k
    BY <1>2, <1>3
  <1>11. X[k + 1] = done
    <2> DEFINE st == X[k]
               q == p + 1 + Len(v)
    <2>1. st.at = q /\ st.value = v /\ st.closed = FALSE /\ st = [at |-> q, value |-> v, closed |-> FALSE]
      BY <1>9
    <2>2. X[k + 1] = StringTurn(s, st, size)
      BY <1>5, <1>10
    <2>3. q \in Nat \ {0} /\ ByteAt(s, q) = Quote /\ q + 1 = p + Len(v) + 2
      BY <1>2, <1>3 DEF ByteAt
    <2> HIDE DEF st, q
    <2>4. StringTurn(s, st, size) = [at |-> q + 1, value |-> v, closed |-> TRUE]
      BY <2>1, <2>3 DEF StringTurn
    <2> QED
      BY <2>2, <2>3, <2>4
  <1>12. \A n \in 0..N : n >= k + 1 => X[n] = done
    <2> DEFINE U == {n \in 0..N : n >= k + 1 => X[n] = done}
    <2>1. 0 \in U
      BY <1>4, <1>10
    <2>2. ASSUME NEW n \in 0..(N - 1), n \in U PROVE n + 1 \in U
      <3>1. n + 1 \in 1..N /\ n + 1 \in 0..N /\ (n + 1) - 1 = n /\ n \in 0..N
        BY <1>4
      <3>2. X[n + 1] = StringTurn(s, X[n], size)
        BY <1>5, <3>1
      <3>3. CASE n >= k + 1
        <4>1. X[n] = done
          BY <2>2, <3>3
        <4>2. done.closed
          OBVIOUS
        <4> HIDE DEF done
        <4>3. StringTurn(s, X[n], size) = X[n]
          BY <4>1, <4>2 DEF StringTurn
        <4> QED
          BY <3>1, <3>2, <4>1, <4>3
      <3>4. CASE ~(n >= k + 1)
        <4>1. n + 1 >= k + 1 => n + 1 = k + 1
          BY <3>4
        <4> QED
          BY <1>11, <3>1, <4>1
      <3> QED
        BY <3>3, <3>4
    <2> HIDE DEF N, U
    <2>3. \A n \in 0..N : n \in U
      BY <1>4, <2>1, <2>2, Counting
    <2> QED
      BY <2>3 DEF U
  <1>13. X[N] = done
    <2>1. N \in 0..N /\ N >= k + 1
      BY <1>4, <1>10
    <2> HIDE DEF N, done
    <2> QED
      BY <1>12, <2>1
  <1>14. ByteAt(s, p) = Quote
    BY <1>2, <1>3 DEF ByteAt
  <1>15. ParseString(s, p, kept) = IF X[N].closed THEN [at |-> X[N].at, value |-> X[N].value] ELSE Failure
    BY <1>14, ParseStringIs DEF X, size
  <1>16. done.closed /\ done.at = p + Len(v) + 2 /\ done.value = v
    OBVIOUS
  <1> HIDE DEF done
  <1> QED
    BY <1>13, <1>15, <1>16

-----------------------------------------------------------------------------
(* Numbers.                                                                *)

Base == Len(Digits)

(* Division with remainder.                                                *)
LEMMA Division ==
    ASSUME NEW n \in Int, NEW d \in Nat \ {0}
    PROVE  /\ n \div d \in Int /\ (n % d) \in 0..(d - 1)
           /\ n = d * (n \div d) + (n % d)
  BY SMT

(* Multiplication is monotonic.                                            *)
LEMMA Product ==
    ASSUME NEW a \in Int, NEW b \in Int, NEW d \in Nat
    PROVE  /\ a * d \in Int /\ a * d = d * a
           /\ a < b => a * d + d <= b * d
           /\ a <= b => a * d <= b * d
           /\ a >= 0 => a * d >= 0
  BY SMT

(* There is more than one digit.                                           *)
LEMMA BaseIs == Base \in Nat \ {0, 1}
  BY DigitsAre DEF Base

(* What is left of a number without its last digit.                        *)
LEMMA Shorter ==
    ASSUME NEW n \in Nat
    PROVE  /\ n % Base \in 0..(Base - 1) /\ n \div Base \in Nat
           /\ n = (n \div Base) * Base + (n % Base)
           /\ n >= Base => n \div Base \in 1..(n - 1)
           /\ n < Base => n \div Base = 0 /\ n % Base = n
  <1> DEFINE q == n \div Base
             r == n % Base
             B == Base
  <1>1. B \in Nat \ {0, 1}
    BY BaseIs
  <1>2. q \in Int /\ r \in 0..(B - 1) /\ n = B * q + r
    BY <1>1, Division
  <1> HIDE DEF q, r, B
  <1>3. q * B \in Int /\ q * B = B * q /\ (q < 0 => q * B + B <= 0 * B) /\ 0 * B = 0
    BY <1>1, <1>2, Product
  <1>4. q >= 0
    BY <1>1, <1>2, <1>3
  <1>5. ASSUME n >= B PROVE q >= 1 /\ q < n
    <2>1. q = 0 => q * B = 0
      BY <1>3
    <2>2. q >= 1
      BY <1>1, <1>2, <1>3, <1>4, <1>5, <2>1
    <2>3. q * 2 <= q * B
      <3>1. q \in Nat /\ 2 <= B /\ q * B = B * q
        BY <1>1, <1>2, <1>3, <1>4
      <3>2. 2 * q <= B * q
        BY <1>1, <3>1, Product
      <3> QED
        BY <1>2, <3>1, <3>2
    <2> QED
      BY <1>1, <1>2, <1>3, <2>2, <2>3
  <1>6. ASSUME n < B PROVE q = 0 /\ r = n
    <2>1. q > 0 => 0 * B + B <= q * B
      BY <1>1, <1>2, Product
    <2>2. q = 0
      BY <1>1, <1>2, <1>3, <1>4, <1>6, <2>1
    <2> QED
      BY <1>1, <1>2, <1>3, <2>2
  <1> QED
    <2>1. n = q * B + r
      BY <1>1, <1>2, <1>3
    <2>2. q \in Nat
      BY <1>2, <1>4
    <2>3. n >= B => q \in 1..(n - 1)
      BY <1>5, <2>2
    <2> QED
      BY <1>2, <1>6, <2>1, <2>2, <2>3 DEF q, r, B

(* A quotient and a remainder put together again.                          *)
LEMMA Rejoined ==
    ASSUME NEW q \in Nat, NEW r \in 0..(Base - 1)
    PROVE  /\ q * Base + r \in Nat
           /\ (q * Base + r) \div Base = q /\ (q * Base + r) % Base = r
           /\ q >= 1 => q * Base + r >= Base
  <1> DEFINE B == Base
             n == q * B + r
             Q == n \div B
             R == n % B
  <1>1. B \in Nat \ {0, 1}
    BY BaseIs
  <1>2. q * B \in Int /\ q * B >= 0 /\ (q >= 1 => 1 * B <= q * B) /\ r \in 0..(B - 1)
    BY <1>1, Product
  <1>3. n \in Nat
    BY <1>1, <1>2
  <1>4. Q \in Int /\ R \in 0..(B - 1) /\ n = B * Q + R
    BY <1>1, <1>3, Division
  <1>5. /\ q * B + r = Q * B + R
        /\ Q * B \in Int
    BY <1>1, <1>4, Product
  <1>6. (Q < q => Q * B + B <= q * B) /\ (q < Q => q * B + B <= Q * B)
    BY <1>1, <1>4, Product
  <1> HIDE DEF n, Q, R, B
  <1>7. Q = q
    BY <1>1, <1>2, <1>4, <1>5, <1>6
  <1>8. R = r
    BY <1>2, <1>4, <1>5, <1>7
  <1>9. q >= 1 => n >= B
    BY <1>1, <1>2 DEF n
  <1> QED
    BY <1>3, <1>7, <1>8, <1>9 DEF n, Q, R, B

(* The last digit of a number, and the numerals up to N.                   *)
LastDigit(n) == <<Digits[(n % Len(Digits)) + 1]>>

Numerals(g, N) ==
    g = [n \in 0..N |-> IF n < Len(Digits) THEN LastDigit(n) ELSE g[n \div Len(Digits)] \o LastDigit(n)]

(* The recursion of Numeral defines a function.                            *)
LEMMA NumeralsExist == \A N \in Nat : \E g : Numerals(g, N)
  <1> SUFFICES ASSUME NEW N \in Nat PROVE \E g : Numerals(g, N)
    OBVIOUS
  <1> DEFINE T == {k \in 0..N : \E g : Numerals(g, k)}
  <1>1. 0 \in T
    <2> DEFINE g == [n \in 0..0 |-> LastDigit(0)]
    <2>1. \A n \in 0..0 : n = 0 /\ n < Len(Digits)
      BY DigitsAre
    <2>2. Numerals(g, 0)
      BY <2>1 DEF Numerals
    <2> QED
      BY <2>2
  <1>2. ASSUME NEW k \in 0..(N - 1), k \in T PROVE k + 1 \in T
    <2>1. PICK h : Numerals(h, k)
      BY <1>2
    <2> DEFINE top == IF k + 1 < Len(Digits) THEN LastDigit(k + 1)
                      ELSE h[(k + 1) \div Len(Digits)] \o LastDigit(k + 1)
               g == [n \in 0..(k + 1) |-> IF n = k + 1 THEN top ELSE h[n]]
    <2>2. k + 1 \in 0..N /\ k \in Nat
      OBVIOUS
    <2>3. \A n \in 0..(k + 1) : n >= Len(Digits) => n \div Len(Digits) \in 1..(n - 1)
      BY <2>2, Shorter DEF Base
    <2>4. ASSUME NEW n \in 0..(k + 1)
          PROVE  g[n] = IF n < Len(Digits) THEN LastDigit(n) ELSE g[n \div Len(Digits)] \o LastDigit(n)
      <3>1. n >= Len(Digits) => /\ n \div Len(Digits) \in 0..(k + 1)
                                /\ n \div Len(Digits) # k + 1 /\ n \div Len(Digits) \in 0..k
        <4> DEFINE m == n \div Len(Digits)
        <4>1. n >= Len(Digits) => m \in 1..(n - 1)
          BY <2>3
        <4> HIDE DEF m
        <4>2. m \in 1..(n - 1) => m \in 0..(k + 1) /\ m # k + 1 /\ m \in 0..k
          BY <2>2
        <4> QED
          BY <4>1, <4>2 DEF m
      <3>2. n >= Len(Digits) => g[n \div Len(Digits)] = h[n \div Len(Digits)]
        BY <3>1
      <3>3. ~(n < Len(Digits)) => n >= Len(Digits)
        BY DigitsAre
      <3>4. CASE n = k + 1
        <4>1. g[n] = top
          BY <3>4
        <4> QED
          BY <3>2, <3>3, <3>4, <4>1
      <3>5. CASE n # k + 1
        <4>1. n \in 0..k /\ g[n] = h[n]
          BY <3>5
        <4>2. h[n] = IF n < Len(Digits) THEN LastDigit(n) ELSE h[n \div Len(Digits)] \o LastDigit(n)
          BY <2>1, <4>1 DEF Numerals
        <4> HIDE DEF g
        <4> QED
          BY <3>2, <3>3, <4>1, <4>2
      <3> QED
        BY <3>4, <3>5
    <2> HIDE DEF top
    <2>5. Numerals(g, k + 1)
      <3> DEFINE f == [n \in 0..(k + 1) |-> IF n < Len(Digits) THEN LastDigit(n) ELSE g[n \div Len(Digits)] \o LastDigit(n)]
      <3>1. g = [n \in 0..(k + 1) |-> g[n]]
        OBVIOUS
      <3> HIDE DEF g
      <3>2. g = f
        BY <2>4, <3>1
      <3> QED
        BY <3>2 DEF Numerals
    <2> HIDE DEF g
    <2> QED
      BY <2>2, <2>5
  <1> HIDE DEF T
  <1>3. \A k \in 0..N : k \in T
    BY <1>1, <1>2, Counting
  <1>4. N \in T
    BY <1>3
  <1> QED
    BY <1>4 DEF T

(* The numerals of small numbers do not depend on the range.               *)
LEMMA NumeralsAgree ==
    ASSUME NEW N \in Nat, NEW M \in Nat, NEW g, NEW h, Numerals(g, N), Numerals(h, M)
    PROVE  \A n \in Nat : n <= N /\ n <= M => g[n] = h[n]
  <1> DEFINE T == {n \in Nat : n <= N /\ n <= M => g[n] = h[n]}
  <1>1. ASSUME NEW n \in Nat, \A m \in 0..(n - 1) : m \in T PROVE n \in T
    <2> SUFFICES ASSUME n <= N, n <= M PROVE g[n] = h[n]
      OBVIOUS
    <2>1. n \in 0..N /\ n \in 0..M /\ Len(Digits) \in Nat
      BY DigitsAre
    <2>2. /\ g[n] = IF n < Len(Digits) THEN LastDigit(n) ELSE g[n \div Len(Digits)] \o LastDigit(n)
          /\ h[n] = IF n < Len(Digits) THEN LastDigit(n) ELSE h[n \div Len(Digits)] \o LastDigit(n)
      BY <2>1 DEF Numerals
    <2>3. CASE n < Len(Digits)
      BY <2>2, <2>3
    <2>4. CASE n >= Len(Digits)
      <3> DEFINE m == n \div Len(Digits)
      <3>1. m \in 1..(n - 1)
        BY <2>4, Shorter DEF Base
      <3> HIDE DEF m
      <3>2. m \in 0..(n - 1) /\ m \in Nat /\ m <= N /\ m <= M
        BY <3>1
      <3>3. g[m] = h[m]
        BY <1>1, <3>2
      <3> QED
        BY <2>1, <2>2, <2>4, <3>3 DEF m
    <2> QED
      BY <2>1, <2>3, <2>4
  <1> HIDE DEF T
  <1>2. Nat \subseteq T
    BY <1>1, Descent
  <1> QED
    BY <1>2 DEF T

(* The numeral of a number is that of what is left of it, and a digit.     *)
LEMMA NumeralIs ==
    ASSUME NEW n \in Nat
    PROVE  Numeral(n) = IF n < Base THEN LastDigit(n) ELSE Numeral(n \div Base) \o LastDigit(n)
  <1> DEFINE nf(N) == CHOOSE g : Numerals(g, N)
  <1>1. \A N \in Nat : Numerals(nf(N), N)
    BY NumeralsExist
  <1>2. \A N : Numeral(N) = nf(N)[N]
    BY DEF Numeral, Numerals, LastDigit
  <1> HIDE DEF nf
  <1>3. nf(n)[n] = IF n < Len(Digits) THEN LastDigit(n) ELSE nf(n)[n \div Len(Digits)] \o LastDigit(n)
    <2>1. n \in 0..n
      OBVIOUS
    <2> QED
      BY <1>1, <2>1 DEF Numerals
  <1>4. CASE n < Base
    BY <1>2, <1>3, <1>4 DEF Base
  <1>5. CASE ~(n < Base)
    <2> DEFINE m == n \div Base
    <2>1. m \in 1..(n - 1)
      <3>1. n >= Base
        BY <1>5, BaseIs
      <3> QED
        BY <3>1, Shorter
    <2> HIDE DEF m
    <2>2. m \in Nat /\ m <= n /\ m <= m
      BY <2>1
    <2>3. nf(n)[m] = nf(m)[m]
      BY <1>1, <2>2, NumeralsAgree
    <2>4. nf(n)[n] = nf(n)[m] \o LastDigit(n)
      BY <1>3, <1>5 DEF m, Base
    <2> QED
      BY <1>2, <1>5, <2>3, <2>4 DEF m
  <1> QED
    BY <1>4, <1>5

DigitSet == {Digits[d] : d \in 1..Len(Digits)}

(* The last digit of a number.                                             *)
LEMMA LastIs ==
    ASSUME NEW n \in Nat
    PROVE  /\ LastDigit(n) \in Seq(Letters) /\ Len(LastDigit(n)) = 1
           /\ LastDigit(n)[1] = Digits[(n % Base) + 1] /\ LastDigit(n)[1] \in DigitSet
           /\ (n % Base) + 1 \in 1..Len(Digits)
           /\ LastDigit(n)[1] = Digits[1] => n % Base = 0
  <1> DEFINE d == (n % Base) + 1
  <1>1. d \in 1..Len(Digits)
    <2>1. n % Base \in 0..(Base - 1)
      BY Shorter
    <2> QED
      BY <2>1, BaseIs DEF Base
  <1>2. LastDigit(n) = <<Digits[d]>>
    BY DEF LastDigit, Base
  <1>3. 1 \in 1..Len(Digits)
    BY DigitsAre
  <1>4. Digits[d] = Digits[1] => d = 1
    BY <1>1, <1>3, DigitsAre
  <1>5. d = 1 => n % Base = 0
    <2>1. n % Base \in 0..(Base - 1)
      BY Shorter
    <2> QED
      BY <2>1, BaseIs
  <1> HIDE DEF d
  <1>6. Digits[d] \in Letters /\ Digits[d] \in DigitSet
    BY <1>1, DigitsAre DEF DigitSet
  <1> DEFINE x == Digits[d]
  <1> HIDE DEF x
  <1>7. x \in Letters /\ LastDigit(n) = <<x>>
    BY <1>2, <1>6 DEF x
  <1>8. <<x>> \in Seq(Letters) /\ Len(<<x>>) = 1 /\ <<x>>[1] = x
    BY <1>7
  <1>9. LastDigit(n) \in Seq(Letters) /\ Len(LastDigit(n)) = 1 /\ LastDigit(n)[1] = x
    BY <1>7, <1>8
  <1> QED
    BY <1>1, <1>4, <1>5, <1>6, <1>9 DEF x, d

(* A numeral is a sequence of digits, and only that of 0 starts with 0.    *)
LEMMA NumeralShape ==
    ASSUME NEW n \in Nat
    PROVE  /\ Numeral(n) \in Seq(Letters) /\ Len(Numeral(n)) \in Nat \ {0}
           /\ n < Base => Len(Numeral(n)) = 1
           /\ \A i \in 1..Len(Numeral(n)) : Numeral(n)[i] \in DigitSet
           /\ Numeral(n)[1] = Digits[1] => n = 0
  <1> DEFINE Good(k) == /\ Numeral(k) \in Seq(Letters) /\ Len(Numeral(k)) \in Nat \ {0}
                        /\ k < Base => Len(Numeral(k)) = 1
                        /\ \A i \in 1..Len(Numeral(k)) : Numeral(k)[i] \in DigitSet
                        /\ Numeral(k)[1] = Digits[1] => k = 0
             T == {k \in Nat : Good(k)}
  <1>1. ASSUME NEW k \in Nat, \A m \in 0..(k - 1) : m \in T PROVE k \in T
    <2> DEFINE l == LastDigit(k)
    <2>1. /\ l \in Seq(Letters) /\ Len(l) = 1 /\ l[1] \in DigitSet
          /\ l[1] = Digits[1] => k % Base = 0
      BY LastIs
    <2>2. CASE k < Base
      <3>1. Numeral(k) = l
        BY <2>2, NumeralIs
      <3>2. k % Base = k
        BY <2>2, Shorter
      <3>3. \A i \in 1..1 : i = 1
        OBVIOUS
      <3> HIDE DEF l
      <3>4. \A i \in 1..Len(l) : l[i] \in DigitSet
        BY <2>1, <3>3
      <3>5. l[1] = Digits[1] => k = 0
        BY <2>1, <3>2
      <3>6. Len(l) \in Nat \ {0}
        BY <2>1
      <3> QED
        BY <2>1, <3>1, <3>4, <3>5, <3>6
    <2>3. CASE k >= Base
      <3> DEFINE m == k \div Base
                 w == Numeral(m)
      <3>1. Numeral(k) = w \o l
        <4>1. ~(k < Base)
          BY <2>3, BaseIs
        <4> QED
          BY <4>1, NumeralIs
      <3>2. m \in 1..(k - 1)
        BY <2>3, Shorter
      <3> HIDE DEF m, l
      <3>3. m \in 0..(k - 1) /\ m \in Nat /\ m # 0
        BY <3>2
      <3>4. Good(m)
        BY <1>1, <3>3
      <3> HIDE DEF w
      <3>5. /\ w \in Seq(Letters) /\ Len(w) \in Nat \ {0}
            /\ \A i \in 1..Len(w) : w[i] \in DigitSet
            /\ w[1] # Digits[1]
        BY <3>3, <3>4 DEF w
      <3>6. /\ w \o l \in Seq(Letters) /\ Len(w \o l) = Len(w) + 1
            /\ \A i \in 1..(Len(w) + 1) : (w \o l)[i] = IF i <= Len(w) THEN w[i] ELSE l[i - Len(w)]
        <4>1. w \in Seq(Letters) /\ l \in Seq(Letters) /\ Len(l) = 1
          BY <2>1, <3>5
        <4> QED
          BY <4>1, ConcatProperties
      <3> DEFINE x == w \o l
      <3> HIDE DEF x
      <3>7. /\ x \in Seq(Letters) /\ Len(x) = Len(w) + 1
            /\ \A i \in 1..(Len(w) + 1) : x[i] = IF i <= Len(w) THEN w[i] ELSE l[i - Len(w)]
        BY <3>6 DEF x
      <3>8. \A i \in 1..Len(x) : x[i] \in DigitSet
        <4> SUFFICES ASSUME NEW i \in 1..Len(x) PROVE x[i] \in DigitSet
          OBVIOUS
        <4>1. i \in 1..(Len(w) + 1)
          BY <3>7
        <4>2. CASE i <= Len(w)
          BY <3>5, <3>7, <4>1, <4>2
        <4>3. CASE ~(i <= Len(w))
          <5>1. i - Len(w) = 1
            BY <3>5, <4>1, <4>3
          <5> QED
            BY <2>1, <3>7, <4>1, <4>3, <5>1
        <4> QED
          BY <4>2, <4>3
      <3>9. x[1] # Digits[1]
        <4>1. 1 \in 1..(Len(w) + 1) /\ 1 <= Len(w)
          BY <3>5
        <4> QED
          BY <3>5, <3>7, <4>1
      <3>10. ~(k < Base) /\ Len(x) \in Nat \ {0}
        BY <2>3, <3>5, <3>7, BaseIs
      <3>11. Numeral(k) = x
        BY <3>1 DEF x
      <3> QED
        BY <3>7, <3>8, <3>9, <3>10, <3>11
    <2> QED
      BY <2>2, <2>3, BaseIs
  <1> HIDE DEF T
  <1>2. Nat \subseteq T
    BY <1>1, Descent
  <1> QED
    BY <1>2 DEF T

(* Another digit of a number.                                              *)
LEMMA AddDigitIs ==
    ASSUME NEW number \in Nat, NEW r \in 0..(Base - 1)
    PROVE  AddDigit(number, Digits[r + 1])
             = IF number * Base + r <= MaxNumber THEN number * Base + r ELSE -1
  <1> DEFINE B == Base
             dd == CHOOSE i \in 1..Len(Digits) : Digits[i] = Digits[r + 1]
             q == (MaxNumber - r) \div B
             e == (MaxNumber - r) % B
  <1>1. B \in Nat \ {0, 1} /\ MaxNumber \in Nat /\ r \in 0..(B - 1) /\ r \in Int
    BY BaseIs, DigitsAre
  <1>2. r + 1 \in 1..Len(Digits)
    BY <1>1 DEF Base
  <1>3. dd = r + 1
    <2>1. \E i \in 1..Len(Digits) : Digits[i] = Digits[r + 1]
      BY <1>2
    <2>2. dd \in 1..Len(Digits) /\ Digits[dd] = Digits[r + 1]
      BY <2>1
    <2> HIDE DEF dd
    <2> QED
      BY <1>2, <2>2, DigitsAre
  <1> HIDE DEF dd
  <1>4. dd - 1 = r
    BY <1>1, <1>3
  <1>5. AddDigit(number, Digits[r + 1])
          = IF number = -1 \/ number > (MaxNumber - (dd - 1)) \div Len(Digits) THEN -1
            ELSE number * Len(Digits) + (dd - 1)
    BY DEF AddDigit, dd
  <1>6. AddDigit(number, Digits[r + 1]) = IF number > q THEN -1 ELSE number * B + r
    <2>1. number # -1
      OBVIOUS
    <2> QED
      BY <1>4, <1>5, <2>1 DEF Base
  <1>7. q \in Int /\ e \in 0..(B - 1) /\ MaxNumber - r = B * q + e
    <2>1. MaxNumber - r \in Int
      BY <1>1
    <2> QED
      BY <1>1, <2>1, Division
  <1> HIDE DEF q, e, B
  <1>8. /\ q * B = B * q /\ q * B \in Int /\ number * B \in Int
        /\ q < number => q * B + B <= number * B
        /\ number <= q => number * B <= q * B
    BY <1>1, <1>7, Product
  <1>9. number > q <=> ~(number * B + r <= MaxNumber)
    BY <1>1, <1>7, <1>8
  <1> QED
    BY <1>6, <1>9 DEF B

(* Where a digit stands.                                                   *)
LEMMA DigitAtIs ==
    ASSUME NEW s \in Seq(Byte), NEW p \in Nat \ {0}
    PROVE  /\ DigitAt(s, p) <=> ByteAt(s, p) \in DigitSet
           /\ DigitAt(s, p) <=> p <= Len(s) /\ s[p] \in DigitSet
  <1>1. DigitAt(s, p) <=> ByteAt(s, p) \in DigitSet
    BY DEF DigitAt, DigitSet
  <1>2. End \notin DigitSet
    <2>1. End \notin Letters
      BY Alphabet DEF Byte
    <2> QED
      BY <2>1, DigitsAre DEF DigitSet
  <1> QED
    BY <1>1, <1>2 DEF ByteAt

NumberEnds(s, p, e) == ~DigitAt(s, e) /\ \A i \in p..(e - 1) : DigitAt(s, i)

(* There is one place where a number ends.                                 *)
LEMMA OneNumberEnd ==
    ASSUME NEW s \in Seq(Byte), NEW p \in 1..(Len(s) + 1)
    PROVE  /\ \E e \in p..(Len(s) + 1) : NumberEnds(s, p, e)
           /\ \A e, f \in p..(Len(s) + 1) : NumberEnds(s, p, e) /\ NumberEnds(s, p, f) => e = f
  <1>1. Len(s) \in Nat /\ Len(s) + 1 \in Nat \ {0}
    BY LenProperties
  <1> DEFINE T == {e \in p..(Len(s) + 1) : ~DigitAt(s, e)}
  <1>2. Len(s) + 1 \in T
    <2>1. ~DigitAt(s, Len(s) + 1)
      BY <1>1, DigitAtIs
    <2> QED
      BY <1>1, <2>1
  <1>3. PICK e \in T : \A m \in T : ~(m < e)
    <2>1. T \subseteq Nat
      BY <1>1
    <2> HIDE DEF T
    <2> QED
      BY <1>2, <2>1, Least
  <1>4. \A i \in p..(e - 1) : DigitAt(s, i)
    <2> SUFFICES ASSUME NEW i \in p..(e - 1) PROVE DigitAt(s, i)
      OBVIOUS
    <2>1. i \in p..(Len(s) + 1) /\ i < e
      BY <1>1, <1>3
    <2> QED
      BY <1>3, <2>1
  <1>5. NumberEnds(s, p, e) /\ e \in p..(Len(s) + 1)
    BY <1>3, <1>4 DEF NumberEnds
  <1>6. ASSUME NEW a \in p..(Len(s) + 1), NEW b \in p..(Len(s) + 1),
               NumberEnds(s, p, a), NumberEnds(s, p, b), a < b
        PROVE  FALSE
    <2>1. a \in p..(b - 1)
      BY <1>1, <1>6
    <2> QED
      BY <1>6, <2>1 DEF NumberEnds
  <1>7. ASSUME NEW a \in p..(Len(s) + 1), NEW b \in p..(Len(s) + 1),
               NumberEnds(s, p, a), NumberEnds(s, p, b)
        PROVE  a = b
    <2>1. a < b \/ b < a \/ a = b
      BY <1>1
    <2> QED
      BY <1>6, <1>7, <2>1
  <1> QED
    BY <1>5, <1>7

(* What the parser keeps is a number or -1.                                *)
LEMMA AddDigitTyped ==
    ASSUME NEW x \in Nat \cup {-1}, NEW y \in DigitSet
    PROVE  AddDigit(x, y) \in Nat \cup {-1}
  <1>1. CASE x = -1
    BY <1>1 DEF AddDigit
  <1>2. CASE x \in Nat
    <2>1. PICK d \in 1..Len(Digits) : y = Digits[d]
      BY DEF DigitSet
    <2>2. d - 1 \in 0..(Base - 1) /\ (d - 1) + 1 = d
      BY BaseIs DEF Base
    <2>3. x * Base + (d - 1) \in Nat
      BY <1>2, <2>2, Rejoined
    <2>4. AddDigit(x, Digits[(d - 1) + 1])
            = IF x * Base + (d - 1) <= MaxNumber THEN x * Base + (d - 1) ELSE -1
      BY <1>2, <2>2, AddDigitIs
    <2> QED
      BY <2>1, <2>2, <2>3, <2>4
  <1> QED
    BY <1>1, <1>2

(* The number read after so many digits.                                   *)
Numbers(s, p, e) ==
    CHOOSE g : g = [i \in 0..(e - p) |-> IF i = 0 THEN 0 ELSE AddDigit(g[i - 1], s[p + i - 1])]

(* The number read so far, digit by digit.                                 *)
LEMMA NumbersAre ==
    ASSUME NEW s \in Seq(Byte), NEW p \in Nat \ {0}, NEW e \in Nat, p <= e, e <= Len(s) + 1,
           \A i \in p..(e - 1) : s[i] \in DigitSet
    PROVE  /\ \A n \in 0..(e - p) : Numbers(s, p, e)[n] \in Nat \cup {-1}
           /\ Numbers(s, p, e)[0] = 0
           /\ \A n \in 1..(e - p) : Numbers(s, p, e)[n] = AddDigit(Numbers(s, p, e)[n - 1], s[p + n - 1])
  <1> DEFINE N == (e - p)
             S == Nat \cup {-1}
             first == 0
             X == Numbers(s, p, e)
             F == [n \in 1..N |-> [x \in S |-> AddDigit(x, s[p + n - 1])]]
  <1>1. N \in Nat /\ first \in S
    OBVIOUS
  <1>2. ASSUME NEW n \in 1..N, NEW x \in S PROVE AddDigit(x, s[p + n - 1]) \in S
    <2>1. p + n - 1 \in p..(e - 1)
      OBVIOUS
    <2> QED
      BY <2>1, AddDigitTyped
  <1>3. F \in [1..N -> [S -> S]]
    BY <1>2
  <1>4. PICK g : Follows(g, N, S, first, F)
    <2> HIDE DEF F, S, N, first
    <2> QED
      BY <1>1, <1>3, RecursionExists
  <1>5. \A n \in 1..N : g[n] = AddDigit(g[n - 1], s[p + n - 1])
    <2>1. \A n \in 1..N : n - 1 \in 0..N
      BY <1>1
    <2> HIDE DEF S, N, first
    <2> QED
      BY <1>4, <2>1 DEF Follows
  <1> HIDE DEF F
  <1>6. g = [n \in 0..N |-> IF n = 0 THEN first ELSE AddDigit(g[n - 1], s[p + n - 1])]
    <2>1. \A n \in 0..N : n # 0 => n \in 1..N
      BY <1>1
    <2> HIDE DEF S, N, first
    <2> QED
      BY <1>4, <1>5, <2>1 DEF Follows
  <1>7. X = [n \in 0..N |-> IF n = 0 THEN first ELSE AddDigit(X[n - 1], s[p + n - 1])]
    BY <1>6 DEF Numbers
  <1> HIDE DEF X, S, N, first
  <1>8. X[0] = first /\ \A n \in 1..N : X[n] = AddDigit(X[n - 1], s[p + n - 1])
    <2>1. 0 \in 0..N /\ \A n \in 1..N : n \in 0..N /\ n # 0
      BY <1>1
    <2> QED
      BY <1>7, <2>1
  <1>9. \A n \in 0..N : X[n] \in S
    <2> DEFINE T == {n \in 0..N : X[n] \in S}
    <2>1. 0 \in T
      BY <1>1, <1>8
    <2>2. ASSUME NEW n \in 0..(N - 1), n \in T PROVE n + 1 \in T
      <3>1. n + 1 \in 1..N /\ n + 1 \in 0..N /\ (n + 1) - 1 = n
        BY <1>1
      <3>2. X[n + 1] = AddDigit(X[n], s[p + (n + 1) - 1])
        BY <1>8, <3>1
      <3> QED
        BY <1>2, <2>2, <3>1, <3>2
    <2>3. \A n \in 0..N : n \in T
      <3> HIDE DEF T
      <3> QED
        BY <1>1, <2>1, <2>2, Counting
    <2> QED
      BY <2>3
  <1> QED
    BY <1>8, <1>9 DEF X, S, N, first

(* parse_unsigned_field reads up to the end of the digits.                 *)
LEMMA ParseNumberIs ==
    ASSUME NEW s \in Seq(Byte), NEW p \in 1..(Len(s) + 1), NEW e \in p..(Len(s) + 1), NumberEnds(s, p, e)
    PROVE  ParseNumber(s, p)
             = IF ~StartsNumber(s, p) \/ Numbers(s, p, e)[e - p] = -1 THEN Failure
               ELSE [at |-> e, value |-> Numbers(s, p, e)[e - p]]
  <1> DEFINE end == CHOOSE f \in p..(Len(s) + 1) : ~DigitAt(s, f) /\ \A i \in p..(f - 1) : DigitAt(s, i)
  <1>1. end = e
    <2>1. end = CHOOSE f \in p..(Len(s) + 1) : NumberEnds(s, p, f)
      BY DEF NumberEnds
    <2>2. end \in p..(Len(s) + 1) /\ NumberEnds(s, p, end)
      BY <2>1
    <2> HIDE DEF end
    <2> QED
      BY <2>2, OneNumberEnd
  <1>2. ParseNumber(s, p)
          = IF ~StartsNumber(s, p) THEN Failure
            ELSE IF Numbers(s, p, end)[end - p] = -1 THEN Failure
            ELSE [at |-> end, value |-> Numbers(s, p, end)[end - p]]
    BY DEF ParseNumber, Numbers
  <1> HIDE DEF end
  <1> QED
    BY <1>1, <1>2

(* A number that parse_unsigned_field takes is borne by the line, digit by *)
(* digit as it would be written, and no digit follows.                     *)
THEOREM ParsedNumber ==
    ASSUME NEW s \in Seq(Byte), NEW p \in 1..(Len(s) + 1), ParseNumber(s, p).at # 0
    PROVE  \E n \in 0..MaxNumber :
             /\ Bears(s, p, Numeral(n)) /\ ~DigitAt(s, p + Len(Numeral(n)))
             /\ ParseNumber(s, p) = [at |-> p + Len(Numeral(n)), value |-> n]
  <1>1. Len(s) \in Nat /\ p \in Nat \ {0} /\ MaxNumber \in Nat
    BY LenProperties, DigitsAre
  <1>2. PICK e \in p..(Len(s) + 1) : NumberEnds(s, p, e)
    BY OneNumberEnd
  <1> DEFINE N == e - p
             X == Numbers(s, p, e)
  <1>3. /\ StartsNumber(s, p) /\ X[N] # -1
        /\ ParseNumber(s, p) = [at |-> e, value |-> X[N]]
    BY <1>2, ParseNumberIs DEF Failure
  <1>4. DigitAt(s, p) /\ ~(s[p] = Digits[1] /\ DigitAt(s, p + 1))
    BY <1>1, <1>3, DigitAtIs DEF StartsNumber, ByteAt
  <1>5. N \in Nat \ {0} /\ e \in Nat /\ p <= e /\ e <= Len(s) + 1
    <2>1. e # p
      BY <1>2, <1>4 DEF NumberEnds
    <2> QED
      BY <1>1, <2>1
  <1>6. \A i \in p..(e - 1) : i \in 1..Len(s) /\ s[i] \in DigitSet
    <2> SUFFICES ASSUME NEW i \in p..(e - 1) PROVE i \in 1..Len(s) /\ s[i] \in DigitSet
      OBVIOUS
    <2>1. i \in Nat \ {0} /\ i <= Len(s)
      BY <1>1, <1>5
    <2>2. DigitAt(s, i)
      BY <1>2 DEF NumberEnds
    <2> QED
      BY <2>1, <2>2, DigitAtIs
  <1>7. /\ \A n \in 0..N : X[n] \in Nat \cup {-1}
        /\ X[0] = 0 /\ \A n \in 1..N : X[n] = AddDigit(X[n - 1], s[p + n - 1])
    BY <1>1, <1>5, <1>6, NumbersAre
  <1> HIDE DEF X
  <1> DEFINE Good(i) == X[i] # -1 /\ i >= 1 =>
                          /\ X[i] \in 0..MaxNumber /\ Len(Numeral(X[i])) = i /\ Bears(s, p, Numeral(X[i]))
                          /\ X[i] = 0 => s[p] = Digits[1]
             T == {i \in 0..N : Good(i)}
  <1>8. 0 \in T
    BY <1>5
  <1>9. ASSUME NEW i \in 0..(N - 1), i \in T PROVE i + 1 \in T
    <2>1. /\ i + 1 \in 0..N /\ i + 1 \in 1..N /\ (i + 1) - 1 = i /\ p + (i + 1) - 1 = p + i /\ i \in 0..N
          /\ p + i \in p..(e - 1) /\ p + i \in Nat \ {0} /\ i \in Nat
      BY <1>1, <1>5
    <2>2. p + i \in 1..Len(s) /\ s[p + i] \in DigitSet
      BY <1>6, <2>1
    <2>3. PICK d \in 1..Len(Digits) : s[p + i] = Digits[d]
      BY <2>2 DEF DigitSet
    <2> DEFINE r == d - 1
    <2>4. r \in 0..(Base - 1) /\ r + 1 = d
      BY BaseIs DEF Base
    <2> HIDE DEF r
    <2>5. X[i + 1] = AddDigit(X[i], Digits[r + 1])
      BY <1>7, <2>1, <2>3, <2>4
    <2> SUFFICES ASSUME X[i + 1] # -1 PROVE Good(i + 1)
      BY <2>1
    <2>6. X[i] # -1 /\ X[i] \in Nat
      <3>1. X[i] = -1 => X[i + 1] = -1
        BY <2>5 DEF AddDigit
      <3> QED
        BY <1>7, <2>1, <3>1
    <2> DEFINE x == X[i]
               y == x * Base + r
    <2>7. X[i + 1] = y /\ y <= MaxNumber
      <3>1. x * Base + r <= MaxNumber => AddDigit(x, Digits[r + 1]) = x * Base + r
        BY <2>4, <2>6, AddDigitIs
      <3>2. ~(x * Base + r <= MaxNumber) => AddDigit(x, Digits[r + 1]) = -1
        BY <2>4, <2>6, AddDigitIs
      <3> QED
        BY <2>5, <3>1, <3>2
    <2>8. y \in Nat /\ y \div Base = x /\ y % Base = r /\ (x >= 1 => y >= Base)
      BY <2>4, <2>6, Rejoined
    <2>9. y \in 0..MaxNumber
      BY <1>1, <2>7, <2>8
    <2> HIDE DEF y
    <2>10. LastDigit(y) = <<Digits[d]>> /\ Len(LastDigit(y)) = 1 /\ LastDigit(y)[1] = Digits[d] /\ LastDigit(y) \in Seq(Letters)
      BY <2>4, <2>8, LastIs DEF LastDigit, Base
    <2>11. CASE i = 0
      <3>1. x = 0 /\ y = r
        BY <1>7, <2>4, <2>11, BaseIs DEF y
      <3>2. Numeral(y) = LastDigit(y)
        BY <2>4, <2>8, <3>1, NumeralIs, BaseIs
      <3>3. s[p] = Digits[d] /\ (y = 0 => d = 1) /\ 1 <= Len(s)
        BY <1>1, <2>1, <2>2, <2>3, <2>4, <2>11, <3>1
      <3>4. Len(Numeral(y)) = 1 /\ Numeral(y)[1] = Digits[d]
        BY <2>10, <3>2
      <3>5. Bears(s, p, Numeral(y))
        <4>1. p + 1 - 1 <= Len(s)
          BY <1>1, <2>2, <2>11
        <4>2. \A k \in 1..1 : k = 1 /\ p + k - 1 = p
          BY <1>1
        <4> QED
          BY <3>3, <3>4, <4>1, <4>2 DEF Bears
      <3> QED
        BY <2>7, <2>9, <2>11, <3>3, <3>4, <3>5
    <2>12. CASE i >= 1
      <3>1. Good(i)
        BY <1>9
      <3>2. Len(Numeral(x)) = i /\ Bears(s, p, Numeral(x)) /\ (x = 0 => s[p] = Digits[1])
        BY <2>6, <2>12, <3>1
      <3>3. s[p] # Digits[1]
        <4>1. p + 1 \in p..(e - 1) /\ p + 1 \in Nat \ {0}
          BY <1>1, <2>1, <2>12
        <4>2. DigitAt(s, p + 1)
          BY <1>6, <4>1, DigitAtIs
        <4> QED
          BY <1>4, <4>2
      <3>4. x >= 1 /\ y >= Base
        BY <2>6, <2>8, <3>2, <3>3
      <3> DEFINE w == Numeral(x)
                 l == LastDigit(y)
      <3>5. Numeral(y) = w \o l
        <4>1. ~(y < Base)
          BY <2>8, <3>4, BaseIs
        <4> QED
          BY <2>8, <4>1, NumeralIs
      <3>6. w \in Seq(Letters)
        BY <2>6, NumeralShape
      <3> HIDE DEF w, l
      <3>7. l \in Seq(Letters) /\ Len(l) = 1 /\ l[1] = Digits[d]
        BY <2>10 DEF l
      <3>8. Len(w \o l) = Len(w) + 1 /\ Len(w) = i /\ Bears(s, p, w)
        <4>1. Len(w \o l) = Len(w) + Len(l)
          BY <3>6, <3>7, ConcatProperties
        <4> QED
          BY <3>2, <3>7, <4>1 DEF w
      <3>9. Bears(s, p + Len(w), l)
        <4>1. \A k \in 1..1 : k = 1 /\ (p + i) + k - 1 = p + i
          BY <1>1, <2>1
        <4>2. (p + i) + 1 - 1 <= Len(s)
          BY <1>1, <2>1, <2>2
        <4> QED
          BY <2>3, <3>7, <3>8, <4>1, <4>2 DEF Bears
      <3>10. Bears(s, p, w \o l)
        BY <1>1, <3>6, <3>7, <3>8, <3>9, BearsConcat
      <3>11. y # 0 /\ i + 1 >= 1
        BY <2>1, <3>4, BaseIs
      <3> QED
        BY <2>7, <2>9, <3>5, <3>8, <3>10, <3>11
    <2> QED
      BY <2>1, <2>11, <2>12
  <1>10. \A i \in 0..N : i \in T
    <2> HIDE DEF T, N
    <2> QED
      BY <1>5, <1>8, <1>9, Counting
  <1>11. N \in 0..N /\ N >= 1 /\ Good(N)
    BY <1>5, <1>10
  <1> DEFINE n == X[N]
  <1>12. n \in 0..MaxNumber /\ Len(Numeral(n)) = N /\ Bears(s, p, Numeral(n))
    BY <1>3, <1>11
  <1>13. p + N = e /\ ~DigitAt(s, e)
    BY <1>1, <1>2, <1>5 DEF NumberEnds
  <1> HIDE DEF n, N
  <1>14. ParseNumber(s, p) = [at |-> p + Len(Numeral(n)), value |-> n]
    BY <1>3, <1>12, <1>13 DEF n
  <1> QED
    BY <1>12, <1>13, <1>14

(* Every number that was written is taken, if no digit follows.            *)
THEOREM BorneNumber ==
    ASSUME NEW s \in Seq(Byte), NEW p \in Nat \ {0}, NEW v \in 0..MaxNumber,
           Bears(s, p, Numeral(v)), ~DigitAt(s, p + Len(Numeral(v)))
    PROVE  ParseNumber(s, p) = [at |-> p + Len(Numeral(v)), value |-> v]
  <1> DEFINE W == Len(Numeral(v))
             e == p + W
             X == Numbers(s, p, e)
  <1>1. Len(s) \in Nat /\ MaxNumber \in Nat /\ v \in Nat
    BY LenProperties, DigitsAre
  <1>2. /\ W \in Nat \ {0} /\ (v < Base => W = 1)
        /\ \A i \in 1..W : Numeral(v)[i] \in DigitSet
        /\ Numeral(v)[1] = Digits[1] => v = 0
    BY <1>1, NumeralShape
  <1>3. p + W - 1 <= Len(s) /\ \A i \in 1..W : s[p + i - 1] = Numeral(v)[i]
    BY DEF Bears
  <1> HIDE DEF W
  <1>4. p \in 1..(Len(s) + 1) /\ e \in p..(Len(s) + 1) /\ e - p = W /\ e \in Nat /\ p <= e
    BY <1>1, <1>2, <1>3
  <1>5. \A i \in p..(e - 1) : i \in Nat \ {0} /\ i <= Len(s) /\ s[i] \in DigitSet
    <2> SUFFICES ASSUME NEW i \in p..(e - 1)
                 PROVE  i \in Nat \ {0} /\ i <= Len(s) /\ s[i] \in DigitSet
      OBVIOUS
    <2>1. i - p + 1 \in 1..W /\ p + (i - p + 1) - 1 = i /\ i \in Nat \ {0} /\ i <= Len(s)
      BY <1>1, <1>2, <1>3
    <2> QED
      BY <1>2, <1>3, <2>1
  <1>6. NumberEnds(s, p, e)
    <2>1. \A i \in p..(e - 1) : DigitAt(s, i)
      BY <1>5, DigitAtIs
    <2>2. ~DigitAt(s, e)
      BY DEF W
    <2> QED
      BY <2>1, <2>2 DEF NumberEnds
  <1>7. StartsNumber(s, p)
    <2>1. p \in p..(e - 1)
      BY <1>2, <1>4
    <2>2. DigitAt(s, p) /\ ByteAt(s, p) = s[p]
      BY <1>5, <2>1, DigitAtIs DEF ByteAt
    <2>3. 1 \in 1..W /\ p + 1 - 1 = p
      BY <1>2
    <2>4. s[p] = Numeral(v)[1]
      BY <1>3, <2>3
    <2>5. s[p] = Digits[1] => p + 1 = e
      BY <1>2, <2>4, BaseIs
    <2>6. ~DigitAt(s, e)
      BY DEF W
    <2> HIDE DEF e
    <2> QED
      BY <2>2, <2>5, <2>6 DEF StartsNumber
  <1>8. X[0] = 0 /\ \A n \in 1..W : X[n] = AddDigit(X[n - 1], s[p + n - 1])
    <2>1. \A i \in p..(e - 1) : s[i] \in DigitSet
      BY <1>5
    <2>2. e <= Len(s) + 1
      BY <1>4
    <2> HIDE DEF e
    <2>3. X[0] = 0 /\ \A n \in 1..(e - p) : X[n] = AddDigit(X[n - 1], s[p + n - 1])
      BY <1>4, <2>1, <2>2, NumbersAre
    <2> QED
      BY <1>4, <2>3
  <1> HIDE DEF X
  <1> DEFINE T == {n \in Nat : n <= MaxNumber /\ Len(Numeral(n)) <= W /\ Bears(s, p, Numeral(n)) =>
                                 X[Len(Numeral(n))] = n}
  <1>9. ASSUME NEW n \in Nat, \A m \in 0..(n - 1) : m \in T PROVE n \in T
    <2> SUFFICES ASSUME n <= MaxNumber, Len(Numeral(n)) <= W, Bears(s, p, Numeral(n))
                 PROVE  X[Len(Numeral(n))] = n
      OBVIOUS
    <2> DEFINE q == n \div Base
               r == n % Base
               l == LastDigit(n)
               k == Len(Numeral(n))
    <2>1. r \in 0..(Base - 1) /\ q \in Nat /\ n = q * Base + r
      BY Shorter
    <2>2. l \in Seq(Letters) /\ Len(l) = 1 /\ l[1] = Digits[r + 1]
      BY LastIs
    <2> HIDE DEF r, l
    <2>3. AddDigit(q, Digits[r + 1]) = n
      <3>1. q * Base + r <= MaxNumber
        BY <2>1
      <3> QED
        BY <2>1, <3>1, AddDigitIs
    <2>4. CASE n < Base
      <3>1. q = 0 /\ r = n
        BY <2>4, Shorter DEF r
      <3>2. Numeral(n) = l
        BY <2>4, NumeralIs DEF l
      <3>3. k = 1 /\ 1 \in 1..W /\ 1 - 1 = 0 /\ p + 1 - 1 = p /\ 1 \in 1..k
        <4>1. k = 1
          BY <2>2, <3>2
        <4>2. 1 \in 1..W
          BY <1>2
        <4> HIDE DEF k
        <4> QED
          BY <4>1, <4>2
      <3>4. s[p] = l[1]
        BY <3>2, <3>3 DEF Bears
      <3>5. X[1] = AddDigit(X[0], s[p])
        BY <1>8, <3>3
      <3> HIDE DEF q
      <3> QED
        BY <1>8, <2>2, <2>3, <3>1, <3>3, <3>4, <3>5
    <2>5. CASE n >= Base
      <3> DEFINE w == Numeral(q)
      <3>1. Numeral(n) = w \o l
        <4>1. ~(n < Base)
          BY <2>5, BaseIs
        <4> QED
          BY <4>1, NumeralIs DEF l
      <3>2. q \in 1..(n - 1)
        BY <2>5, Shorter
      <3> HIDE DEF q
      <3>3. q \in 0..(n - 1) /\ q \in Nat /\ q <= MaxNumber
        BY <1>1, <3>2
      <3>4. w \in Seq(Letters) /\ Len(w) \in Nat
        BY <3>3, NumeralShape
      <3> HIDE DEF w
      <3>5. Len(w \o l) = Len(w) + Len(l)
        BY <2>2, <3>4, ConcatProperties
      <3>6. Bears(s, p, w) /\ Bears(s, p + Len(w), l)
        BY <1>1, <2>2, <3>1, <3>4, BearsConcat
      <3>7. k = Len(w) + 1 /\ Len(w) <= W /\ k \in 1..W /\ k - 1 = Len(w)
            /\ p + k - 1 = p + Len(w)
        BY <1>2, <2>2, <3>1, <3>4, <3>5
      <3>8. X[Len(w)] = q
        BY <2>1, <1>9, <3>3, <3>6, <3>7 DEF w
      <3>9. s[p + Len(w)] = Digits[r + 1]
        <4>1. 1 \in 1..Len(l) /\ (p + Len(w)) + 1 - 1 = p + Len(w)
          BY <2>2, <3>4
        <4> QED
          BY <2>2, <3>6, <4>1 DEF Bears
      <3>10. X[k] = AddDigit(X[k - 1], s[p + k - 1])
        BY <1>8, <3>7
      <3> QED
        BY <2>3, <3>7, <3>8, <3>9, <3>10
    <2> QED
      BY <2>4, <2>5, BaseIs
  <1>10. v \in T
    <2> HIDE DEF T
    <2>1. Nat \subseteq T
      BY <1>9, Descent
    <2> QED
      BY <1>1, <2>1
  <1>11. X[e - p] = v
    <2>1. W <= W
      BY <1>2
    <2> QED
      BY <1>1, <1>4, <1>10, <2>1 DEF W
  <1>12. ParseNumber(s, p) = [at |-> e, value |-> v]
    <2>1. v # -1
      BY <1>1
    <2> HIDE DEF e
    <2> QED
      BY <1>4, <1>6, <1>7, <1>11, <2>1, ParseNumberIs DEF X
  <1> QED
    BY <1>12 DEF W

-----------------------------------------------------------------------------
(* Fields.                                                                 *)

(* The fields of the schema.                                               *)
LEMMA SchemaIs ==
    /\ Len(Schema) = 7
    /\ /\ Schema[1].name = <<"identifiant">> /\ Schema[1].kind = "text"
       /\ Schema[1].kept = TRUE /\ Schema[1].context = TRUE
    /\ /\ Schema[2].name = <<"identifiant", "_apres">> /\ Schema[2].kind = "text"
       /\ Schema[2].kept = TRUE /\ Schema[2].context = FALSE
    /\ /\ Schema[3].name = <<"taille", "_apres">> /\ Schema[3].kind = "number"
       /\ Schema[3].kept = TRUE /\ Schema[3].context = FALSE
    /\ /\ Schema[4].name = <<"modele">> /\ Schema[4].kind = "text"
       /\ Schema[4].kept = FALSE /\ Schema[4].context = TRUE
    /\ /\ Schema[5].name = <<"laboratoire">> /\ Schema[5].kind = "flag"
       /\ Schema[5].kept = TRUE /\ Schema[5].context = TRUE
    /\ /\ Schema[6].name = <<"taille">> /\ Schema[6].kind = "number"
       /\ Schema[6].kept = TRUE /\ Schema[6].context = TRUE
    /\ /\ Schema[7].name = <<"detail">> /\ Schema[7].kind = "text"
       /\ Schema[7].kept = FALSE /\ Schema[7].context = FALSE
  BY DEF Schema, Field

Names == {<<x>> : x \in Words} \cup {<<x, y>> : x \in Words, y \in Words}

(* What a field of the schema may be.                                      *)
LEMMA SchemaFields ==
    ASSUME NEW i \in 1..Len(Schema)
    PROVE  /\ Schema[i].name \in Names /\ Schema[i].kind \in {"text", "number", "flag"}
           /\ Schema[i].kept \in BOOLEAN /\ Schema[i].context \in BOOLEAN
           /\ ~Schema[i].kept => Schema[i].kind = "text"
  <1>1. i \in 1..7
    BY SchemaIs
  <1>2. {"identifiant", "_apres", "taille", "modele", "laboratoire", "detail"} \subseteq Words
    BY DEF Words
  <1>3. \A x, y \in Words : <<x>> \in Names /\ <<x, y>> \in Names
    BY DEF Names
  <1>4. CASE i = 1
    BY <1>2, <1>3, <1>4, SchemaIs
  <1>5. CASE i = 2
    BY <1>2, <1>3, <1>5, SchemaIs
  <1>6. CASE i = 3
    BY <1>2, <1>3, <1>6, SchemaIs
  <1>7. CASE i = 4
    BY <1>2, <1>3, <1>7, SchemaIs
  <1>8. CASE i = 5
    BY <1>2, <1>3, <1>8, SchemaIs
  <1>9. CASE i = 6
    BY <1>2, <1>3, <1>9, SchemaIs
  <1>10. CASE i = 7
    BY <1>2, <1>3, <1>10, SchemaIs
  <1> QED
    BY <1>1, <1>4, <1>5, <1>6, <1>7, <1>8, <1>9, <1>10

(* No two fields have the same name.                                       *)
LEMMA SchemaNames == \A i, j \in 1..Len(Schema) : Schema[i].name = Schema[j].name => i = j
  <1> DEFINE name(i) == Schema[i].name
  <1>1. /\ name(1) = <<"identifiant">> /\ name(2) = <<"identifiant", "_apres">>
        /\ name(3) = <<"taille", "_apres">> /\ name(4) = <<"modele">>
        /\ name(5) = <<"laboratoire">> /\ name(6) = <<"taille">> /\ name(7) = <<"detail">>
    BY SchemaIs
  <1>2. \A x, y, z, u : <<x>> # <<y, z>> /\ (<<x>> = <<y>> <=> x = y) /\ (<<x, u>> = <<y, z>> <=> x = y /\ u = z)
    OBVIOUS
  <1> HIDE DEF name
  <1>3. \A i, j \in 1..7 : name(i) = name(j) => i = j
    BY <1>1, <1>2
  <1> QED
    BY <1>3, SchemaIs DEF name

Entry(f) ==
    f.name \in Names /\ f.kind \in {"text", "number", "flag"} /\ f.kept \in BOOLEAN

Comma == ","
Colon == ":"
Brace == "}"

Marker(name) == <<Comma>> \o Named(name)

(* A name has one or two syllables.                                        *)
LEMMA NamesAre ==
    ASSUME NEW name \in Names
    PROVE  name \in Seq(Words) /\ name \in Seq(Byte) /\ Len(name) \in 1..2
  <1>1. name \in Seq(Words) /\ Len(name) \in 1..2
    <2>1. CASE \E x \in Words : name = <<x>>
      <3>1. PICK x \in Words : name = <<x>>
        BY <2>1
      <3> QED
        BY <3>1
    <2>2. CASE \E x, y \in Words : name = <<x, y>>
      <3>1. PICK x, y \in Words : name = <<x, y>>
        BY <2>2
      <3> QED
        BY <3>1
    <2> QED
      BY <2>1, <2>2 DEF Names
  <1>2. Words \subseteq Byte
    BY Alphabet
  <1> QED
    BY <1>1, <1>2, SeqMonotonic

(* The length and the elements of a concatenation.                         *)
LEMMA Joined ==
    ASSUME NEW S, NEW u \in Seq(S), NEW w \in Seq(S)
    PROVE  /\ u \o w \in Seq(S) /\ Len(u \o w) = Len(u) + Len(w)
           /\ Len(u) \in Nat /\ Len(w) \in Nat
           /\ \A i \in 1..Len(u) : (u \o w)[i] = u[i]
           /\ \A i \in 1..Len(w) : (u \o w)[Len(u) + i] = w[i]
  <1> DEFINE y == u \o w
             m == Len(u)
             n == Len(w)
  <1>1. /\ y \in Seq(S) /\ Len(y) = m + n /\ m \in Nat /\ n \in Nat
        /\ \A i \in 1..(m + n) : y[i] = IF i <= m THEN u[i] ELSE w[i - m]
    BY ConcatProperties, LenProperties
  <1> HIDE DEF y, m, n
  <1>2. \A i \in 1..m : y[i] = u[i]
    <2>1. \A i \in 1..m : i \in 1..(m + n) /\ i <= m
      BY <1>1
    <2> QED
      BY <1>1, <2>1
  <1>3. \A i \in 1..n : y[m + i] = w[i]
    <2>1. \A i \in 1..n : m + i \in 1..(m + n) /\ ~(m + i <= m) /\ (m + i) - m = i
      BY <1>1
    <2> QED
      BY <1>1, <2>1
  <1> QED
    BY <1>1, <1>2, <1>3 DEF y, m, n

(* Sequences of one and of two elements.                                   *)
LEMMA Single ==
    ASSUME NEW S, NEW x \in S, NEW y \in S
    PROVE  /\ <<x>> \in Seq(S) /\ Len(<<x>>) = 1 /\ <<x>>[1] = x
           /\ <<x, y>> \in Seq(S) /\ Len(<<x, y>>) = 2 /\ <<x, y>>[1] = x /\ <<x, y>>[2] = y
  OBVIOUS

(* The bytes of a name between its marks.                                  *)
LEMMA NamedIs ==
    ASSUME NEW name \in Names
    PROVE  /\ Named(name) \in Seq(Byte) /\ Len(Named(name)) = Len(name) + 3
           /\ Named(name)[1] = Quote /\ Named(name)[Len(name) + 2] = Quote
           /\ Named(name)[Len(name) + 3] = ":"
           /\ \A k \in 1..Len(name) : Named(name)[k + 1] = name[k]
  <1> DEFINE a == <<Quote>>
             c == <<Quote, ":">>
             n == Len(name)
             x == a \o name
             y == x \o c
  <1>1. Quote \in Byte /\ ":" \in Byte
    BY Alphabet
  <1>2. /\ a \in Seq(Byte) /\ Len(a) = 1 /\ a[1] = Quote
        /\ c \in Seq(Byte) /\ Len(c) = 2 /\ c[1] = Quote /\ c[2] = ":"
    BY <1>1, Single
  <1>3. name \in Seq(Byte) /\ n \in Nat
    BY NamesAre, LenProperties
  <1> HIDE DEF a, c
  <1>4. /\ x \in Seq(Byte) /\ Len(x) = Len(a) + n
        /\ \A i \in 1..Len(a) : x[i] = a[i]
        /\ \A i \in 1..n : x[Len(a) + i] = name[i]
    <2>1. a \in Seq(Byte) /\ name \in Seq(Byte)
      BY <1>2, <1>3
    <2> QED
      BY <2>1, Joined
  <1>5. Named(name) = y
    BY DEF Named, a, c
  <1> HIDE DEF x, n
  <1>6. /\ y \in Seq(Byte) /\ Len(y) = Len(x) + Len(c)
        /\ \A i \in 1..Len(x) : y[i] = x[i]
        /\ \A i \in 1..Len(c) : y[Len(x) + i] = c[i]
    <2>1. x \in Seq(Byte) /\ c \in Seq(Byte)
      BY <1>2, <1>4
    <2> QED
      BY <2>1, Joined
  <1> HIDE DEF y
  <1>7. Len(x) = 1 + n /\ Len(y) = n + 3
    BY <1>2, <1>3, <1>4, <1>6
  <1>8. y[1] = Quote
    <2>1. 1 \in 1..Len(x) /\ 1 \in 1..Len(a)
      BY <1>2, <1>3, <1>7
    <2> QED
      BY <1>2, <1>4, <1>6, <2>1
  <1>9. y[n + 2] = Quote /\ y[n + 3] = ":"
    <2>1. 1 \in 1..Len(c) /\ 2 \in 1..Len(c) /\ Len(x) + 1 = n + 2 /\ Len(x) + 2 = n + 3
      BY <1>2, <1>3, <1>7
    <2> QED
      BY <1>2, <1>6, <2>1
  <1>10. ASSUME NEW k \in 1..n PROVE y[k + 1] = name[k]
    <2>1. k + 1 \in 1..Len(x) /\ Len(a) + k = k + 1
      BY <1>2, <1>3, <1>7
    <2> QED
      BY <1>4, <1>6, <2>1
  <1> QED
    BY <1>5, <1>6, <1>7, <1>8, <1>9, <1>10 DEF n

(* The bytes before a value.                                               *)
LEMMA MarkerIs ==
    ASSUME NEW name \in Names
    PROVE  /\ Marker(name) \in Seq(Byte) /\ Len(Marker(name)) = Len(name) + 4
           /\ Len(Marker(name)) \in Nat \ {0}
           /\ Marker(name)[1] = Comma
           /\ \A k \in 1..(Len(name) + 3) : Marker(name)[k + 1] = Named(name)[k]
  <1> DEFINE a == <<Comma>>
             x == Named(name)
             n == Len(name)
             y == a \o x
  <1>1. a \in Seq(Byte) /\ Len(a) = 1 /\ a[1] = Comma
    <2>1. Comma \in Byte
      BY Alphabet DEF Comma
    <2> QED
      BY <2>1, Single
  <1>2. x \in Seq(Byte) /\ Len(x) = n + 3 /\ n \in Nat
    BY NamedIs, NamesAre, LenProperties
  <1> HIDE DEF a, x, n
  <1>3. /\ y \in Seq(Byte) /\ Len(y) = Len(a) + Len(x)
        /\ \A i \in 1..Len(a) : y[i] = a[i]
        /\ \A i \in 1..Len(x) : y[Len(a) + i] = x[i]
    <2>1. a \in Seq(Byte) /\ x \in Seq(Byte)
      BY <1>1, <1>2
    <2> QED
      BY <2>1, Joined
  <1>4. Marker(name) = y
    BY DEF Marker, a, x
  <1> HIDE DEF y
  <1>5. Len(y) = n + 4 /\ n + 4 \in Nat \ {0}
    BY <1>1, <1>2, <1>3
  <1>6. y[1] = Comma
    BY <1>1, <1>3
  <1>7. ASSUME NEW k \in 1..(n + 3) PROVE y[k + 1] = x[k]
    <2>1. k \in 1..Len(x) /\ Len(a) + k = k + 1
      BY <1>1, <1>2
    <2> QED
      BY <1>3, <2>1
  <1> QED
    BY <1>3, <1>4, <1>5, <1>6, <1>7 DEF x, n

(* The values that a field may have.                                       *)
Fits(f, v) ==
    /\ f.kind = "text" => v \in Composed(Pieces) /\ (f.kept => Len(v) < 2 * FieldBytes)
    /\ f.kind = "number" => v \in 0..MaxNumber
    /\ f.kind = "flag" => v \in BOOLEAN

(* How each kind of value is laid out.                                     *)
LEMMA RenderedIs ==
    ASSUME NEW f, NEW v
    PROVE  /\ f.kind = "text" => Rendered(f, v) = Quoted(v)
           /\ f.kind = "number" => Rendered(f, v) = Numeral(v)
           /\ f.kind = "flag" => Rendered(f, v) = <<IF v THEN "true" ELSE "false">>
  BY DEF Rendered, Quoted

(* A text between quotation marks is a text.                               *)
LEMMA QuotedIs ==
    ASSUME NEW v \in Seq(Byte)
    PROVE  Quoted(v) \in Seq(Byte) /\ Len(Quoted(v)) = Len(v) + 2
  <1>1. <<>> \in Seq(Byte) /\ 1 \in Nat \ {0}
    BY EmptySeq
  <1> QED
    BY <1>1, QuotedBorne

(* A value that fits is laid out as a text, never as the empty one.        *)
LEMMA RenderedText ==
    ASSUME NEW f, NEW v, Entry(f), Fits(f, v)
    PROVE  Rendered(f, v) \in Seq(Byte) /\ Len(Rendered(f, v)) \in Nat \ {0}
  <1>1. CASE f.kind = "text"
    <2>1. v \in Seq(Byte) /\ Len(v) \in Nat
      <3>1. v \in Composed(Pieces)
        BY <1>1 DEF Fits
      <3> QED
        BY <3>1, PiecesText, ComposedGrows, LenProperties
    <2>2. Rendered(f, v) = Quoted(v)
      BY <1>1, RenderedIs
    <2> QED
      BY <2>1, <2>2, QuotedIs
  <1>2. CASE f.kind = "number"
    <2>1. v \in Nat
      <3>1. v \in 0..MaxNumber
        BY <1>2 DEF Fits
      <3> QED
        BY <3>1, DigitsAre
    <2>2. Numeral(v) \in Seq(Letters) /\ Letters \subseteq Byte
      BY <2>1, NumeralShape, Alphabet
    <2>3. Numeral(v) \in Seq(Byte)
      BY <2>2, SeqMonotonic
    <2> QED
      BY <1>2, <2>1, <2>3, NumeralShape, RenderedIs
  <1>3. CASE f.kind = "flag"
    <2>1. "true" \in Byte /\ "false" \in Byte
      BY Alphabet DEF Words
    <2>2. \A x \in Byte : <<x>> \in Seq(Byte) /\ Len(<<x>>) = 1
      OBVIOUS
    <2>3. Rendered(f, v) = <<"true">> \/ Rendered(f, v) = <<"false">>
      BY <1>3, RenderedIs
    <2>4. 1 \in Nat \ {0}
      OBVIOUS
    <2> QED
      BY <2>1, <2>2, <2>3, <2>4
  <1> QED
    BY <1>1, <1>2, <1>3 DEF Entry

Piece(f, v) == Marker(f.name) \o Rendered(f, v)

(* The lengths of a field and of its parts.                                *)
LEMMA PieceIs ==
    ASSUME NEW f, NEW v, Entry(f), Fits(f, v)
    PROVE  /\ Piece(f, v) \in Seq(Byte)
           /\ Len(Piece(f, v)) = Len(Marker(f.name)) + Len(Rendered(f, v))
           /\ Marker(f.name) \in Seq(Byte) /\ Len(Marker(f.name)) \in Nat \ {0}
           /\ Rendered(f, v) \in Seq(Byte) /\ Len(Rendered(f, v)) \in Nat \ {0}
  <1>1. Marker(f.name) \in Seq(Byte) /\ Len(Marker(f.name)) \in Nat \ {0}
    <2>1. f.name \in Names
      BY DEF Entry
    <2> QED
      BY <2>1, MarkerIs
  <1>2. Rendered(f, v) \in Seq(Byte) /\ Len(Rendered(f, v)) \in Nat \ {0}
    BY RenderedText
  <1> QED
    BY <1>1, <1>2, ConcatProperties DEF Piece

(* A field is parsed by its kind, behind its marker.                       *)
LEMMA ParseFieldIs ==
    ASSUME NEW s, NEW at, NEW f
    PROVE  LET start == at + Len(Marker(f.name))
           IN  /\ ~HasLiteral(s, at, Marker(f.name)) => ParseField(s, at, f) = Failure
               /\ HasLiteral(s, at, Marker(f.name)) =>
                    /\ f.kind = "text" => ParseField(s, at, f) = ParseString(s, start, f.kept)
                    /\ f.kind = "number" => ParseField(s, at, f) = ParseNumber(s, start)
                    /\ f.kind = "flag" => ParseField(s, at, f) = ParseFlag(s, start)
  BY DEF ParseField, Marker, Comma

(* parse_boolean_field reads the two flags.                                *)
LEMMA FlagIs ==
    ASSUME NEW s \in Seq(Byte), NEW p \in Nat \ {0}
    PROVE  /\ ParseFlag(s, p).at # 0 =>
                \E v \in BOOLEAN : /\ Bears(s, p, <<IF v THEN "true" ELSE "false">>)
                                   /\ ParseFlag(s, p) = [at |-> p + 1, value |-> v]
           /\ \A v \in BOOLEAN : Bears(s, p, <<IF v THEN "true" ELSE "false">>) =>
                                   ParseFlag(s, p) = [at |-> p + 1, value |-> v]
  <1>1. Len(s) \in Nat /\ End \notin {"true", "false"} /\ "true" # "false"
    BY LenProperties DEF End
  <1>2. \A x \in Byte : Bears(s, p, <<x>>) <=> p <= Len(s) /\ s[p] = x
    <2> SUFFICES ASSUME NEW x \in Byte PROVE Bears(s, p, <<x>>) <=> p <= Len(s) /\ s[p] = x
      OBVIOUS
    <2> DEFINE w == <<x>>
    <2>1. Len(w) = 1 /\ w[1] = x
      BY Single
    <2> HIDE DEF w
    <2>2. p + 1 - 1 = p /\ \A i \in 1..1 : i = 1
      OBVIOUS
    <2>3. Bears(s, p, w) <=> p <= Len(s) /\ s[p] = x
      BY <2>1, <2>2 DEF Bears
    <2> QED
      BY <2>3 DEF w
  <1>3. {"true", "false"} \subseteq Byte
    BY Alphabet DEF Words
  <1>4. ASSUME ParseFlag(s, p).at # 0
        PROVE  \E v \in BOOLEAN : /\ Bears(s, p, <<IF v THEN "true" ELSE "false">>)
                                  /\ ParseFlag(s, p) = [at |-> p + 1, value |-> v]
    <2>1. ByteAt(s, p) \in {"true", "false"}
      <3>1. ByteAt(s, p) \notin {"true", "false"} => ParseFlag(s, p) = Failure
        BY DEF ParseFlag
      <3> QED
        BY <1>4, <3>1 DEF Failure
    <2>2. p <= Len(s) /\ ByteAt(s, p) = s[p]
      BY <1>1, <2>1 DEF ByteAt
    <2>3. ParseFlag(s, p) = [at |-> p + 1, value |-> ByteAt(s, p) = "true"]
      BY <2>1 DEF ParseFlag
    <2>4. CASE ByteAt(s, p) = "true"
      <3>1. Bears(s, p, <<"true">>)
        BY <1>2, <1>3, <2>2, <2>4
      <3>2. ParseFlag(s, p) = [at |-> p + 1, value |-> TRUE]
        BY <2>3, <2>4
      <3> QED
        BY <3>1, <3>2
    <2>5. CASE ByteAt(s, p) = "false"
      <3>1. Bears(s, p, <<"false">>)
        BY <1>2, <1>3, <2>2, <2>5
      <3>2. ParseFlag(s, p) = [at |-> p + 1, value |-> FALSE]
        BY <1>1, <2>3, <2>5
      <3> QED
        BY <3>1, <3>2
    <2> QED
      BY <2>1, <2>4, <2>5
  <1>5. ASSUME Bears(s, p, <<"true">>) PROVE ParseFlag(s, p) = [at |-> p + 1, value |-> TRUE]
    <2>1. ByteAt(s, p) = "true"
      BY <1>2, <1>3, <1>5 DEF ByteAt
    <2> QED
      BY <2>1 DEF ParseFlag
  <1>6. ASSUME Bears(s, p, <<"false">>) PROVE ParseFlag(s, p) = [at |-> p + 1, value |-> FALSE]
    <2>1. ByteAt(s, p) = "false"
      BY <1>2, <1>3, <1>6 DEF ByteAt
    <2> QED
      BY <1>1, <2>1 DEF ParseFlag
  <1>7. ASSUME NEW v \in BOOLEAN, Bears(s, p, <<IF v THEN "true" ELSE "false">>)
        PROVE  ParseFlag(s, p) = [at |-> p + 1, value |-> v]
    <2>1. CASE v = TRUE
      BY <1>5, <1>7, <2>1
    <2>2. CASE v = FALSE
      BY <1>6, <1>7, <2>2
    <2> QED
      BY <2>1, <2>2
  <1> QED
    BY <1>4, <1>7

(* A field that parse_audit_record takes is borne by the line as it would  *)
(* be written.                                                             *)
THEOREM ParsedField ==
    ASSUME NEW s \in Seq(Byte), NEW at \in Nat \ {0}, NEW f, Entry(f), ParseField(s, at, f).at # 0
    PROVE  \E v : /\ Fits(f, v) /\ Bears(s, at, Piece(f, v))
                  /\ ParseField(s, at, f) = [at |-> at + Len(Piece(f, v)), value |-> v]
  <1> DEFINE m == Marker(f.name)
             p == at + Len(m)
  <1>1. f.name \in Names /\ f.kept \in BOOLEAN /\ f.kind \in {"text", "number", "flag"}
    BY DEF Entry
  <1>2. m \in Seq(Byte) /\ Len(m) \in Nat \ {0}
    BY <1>1, MarkerIs
  <1>3. HasLiteral(s, at, m)
    <2>1. ~HasLiteral(s, at, m) => ParseField(s, at, f) = Failure
      BY ParseFieldIs
    <2> QED
      BY <2>1 DEF Failure
  <1>4. /\ f.kind = "text" => ParseField(s, at, f) = ParseString(s, p, f.kept)
        /\ f.kind = "number" => ParseField(s, at, f) = ParseNumber(s, p)
        /\ f.kind = "flag" => ParseField(s, at, f) = ParseFlag(s, p)
    BY <1>3, ParseFieldIs
  <1>5. Bears(s, at, m)
    BY <1>2, <1>3, BearsLiteral
  <1>6. p \in Nat \ {0} /\ p \in 1..(Len(s) + 1) /\ Len(s) \in Nat
    <2>1. at + Len(m) - 1 <= Len(s)
      BY <1>5 DEF Bears
    <2>2. Len(s) \in Nat
      BY LenProperties
    <2> HIDE DEF m
    <2> QED
      BY <1>2, <2>1, <2>2
  <1> HIDE DEF m
  <1>7. ASSUME NEW v, Fits(f, v), Bears(s, p, Rendered(f, v)),
               ParseField(s, at, f) = [at |-> p + Len(Rendered(f, v)), value |-> v]
        PROVE  \E x : /\ Fits(f, x) /\ Bears(s, at, Piece(f, x))
                      /\ ParseField(s, at, f) = [at |-> at + Len(Piece(f, x)), value |-> x]
    <2> DEFINE r == Rendered(f, v)
    <2>1. r \in Seq(Byte) /\ Len(r) \in Nat /\ Len(Piece(f, v)) = Len(m) + Len(r)
      BY <1>7, PieceIs DEF m
    <2>2. Bears(s, at, m \o r)
      <3> HIDE DEF r
      <3>1. Bears(s, at + Len(m), r)
        BY <1>7 DEF r
      <3> QED
        BY <1>2, <1>5, <1>6, <2>1, <3>1, BearsConcat
    <2>3. Piece(f, v) = m \o r
      BY DEF Piece, m
    <2> DEFINE n == Len(Piece(f, v))
    <2> HIDE DEF r, n
    <2>4. p + Len(r) = at + n
      BY <1>2, <2>1 DEF n
    <2>5. ParseField(s, at, f) = [at |-> at + n, value |-> v]
      BY <1>7, <2>4 DEF r
    <2> QED
      BY <1>7, <2>2, <2>3, <2>5 DEF n
  <1>8. CASE f.kind = "text"
    <2>1. ParseString(s, p, f.kept).at # 0
      BY <1>4, <1>8
    <2>2. PICK v \in Composed(Pieces) :
             /\ Bears(s, p, Quoted(v)) /\ Len(v) < Room(s, f.kept)
             /\ ParseString(s, p, f.kept) = [at |-> p + Len(v) + 2, value |-> v]
      <3> HIDE DEF p
      <3> QED
        BY <1>1, <1>6, <2>1, ParsedString
    <2>3. Rendered(f, v) = Quoted(v) /\ Len(v) \in Nat /\ Len(Quoted(v)) = Len(v) + 2
      <3>1. v \in Seq(Byte)
        BY PiecesText, ComposedGrows
      <3> QED
        BY <1>8, <3>1, RenderedIs, QuotedIs, LenProperties
    <2>4. Fits(f, v)
      BY <1>1, <1>8, <2>2 DEF Fits, Room
    <2>5. p + Len(v) + 2 = p + Len(Rendered(f, v))
      <3> HIDE DEF p
      <3> QED
        BY <1>6, <2>3
    <2> QED
      BY <1>4, <1>7, <1>8, <2>2, <2>3, <2>4, <2>5
  <1>9. CASE f.kind = "number"
    <2>1. ParseNumber(s, p).at # 0
      BY <1>4, <1>9
    <2>2. PICK v \in 0..MaxNumber :
             /\ Bears(s, p, Numeral(v))
             /\ ParseNumber(s, p) = [at |-> p + Len(Numeral(v)), value |-> v]
      <3> HIDE DEF p
      <3> QED
        BY <1>6, <2>1, ParsedNumber
    <2>3. Rendered(f, v) = Numeral(v)
      BY <1>9, RenderedIs
    <2>4. Fits(f, v)
      BY <1>1, <1>9, <2>2 DEF Fits
    <2> QED
      BY <1>4, <1>7, <1>9, <2>2, <2>3, <2>4
  <1>10. CASE f.kind = "flag"
    <2>1. ParseFlag(s, p).at # 0
      BY <1>4, <1>10
    <2>2. PICK v \in BOOLEAN :
             /\ Bears(s, p, <<IF v THEN "true" ELSE "false">>)
             /\ ParseFlag(s, p) = [at |-> p + 1, value |-> v]
      <3> HIDE DEF p
      <3> QED
        BY <1>6, <2>1, FlagIs
    <2>3. Rendered(f, v) = <<IF v THEN "true" ELSE "false">>
      BY <1>10, RenderedIs
    <2>4. Fits(f, v)
      BY <1>1, <1>10, <2>2 DEF Fits
    <2>5. Len(Rendered(f, v)) = 1
      BY <2>3
    <2> QED
      BY <1>4, <1>7, <1>10, <2>2, <2>3, <2>4, <2>5
  <1> QED
    BY <1>1, <1>8, <1>9, <1>10

(* Every field that was written is taken.                                  *)
THEOREM BorneField ==
    ASSUME NEW s \in Seq(Byte), NEW at \in Nat \ {0}, NEW f, NEW v, Entry(f), Fits(f, v),
           Bears(s, at, Piece(f, v)), ~DigitAt(s, at + Len(Piece(f, v)))
    PROVE  ParseField(s, at, f) = [at |-> at + Len(Piece(f, v)), value |-> v]
  <1> DEFINE m == Marker(f.name)
             p == at + Len(m)
             r == Rendered(f, v)
             n == Len(Piece(f, v))
  <1>1. f.name \in Names /\ f.kept \in BOOLEAN /\ f.kind \in {"text", "number", "flag"}
    BY DEF Entry
  <1>2. /\ m \in Seq(Byte) /\ Len(m) \in Nat \ {0} /\ r \in Seq(Byte) /\ Len(r) \in Nat \ {0}
        /\ n = Len(m) + Len(r) /\ Piece(f, v) = m \o r /\ Len(s) \in Nat
    BY PieceIs, LenProperties DEF Piece
  <1>3. Bears(s, at, m) /\ Bears(s, p, r)
    BY <1>2, BearsConcat
  <1>4. HasLiteral(s, at, m)
    BY <1>2, <1>3, BearsLiteral
  <1>5. /\ f.kind = "text" => ParseField(s, at, f) = ParseString(s, p, f.kept)
        /\ f.kind = "number" => ParseField(s, at, f) = ParseNumber(s, p)
        /\ f.kind = "flag" => ParseField(s, at, f) = ParseFlag(s, p)
    BY <1>4, ParseFieldIs
  <1>6. /\ f.kind = "text" => r = Quoted(v)
        /\ f.kind = "number" => r = Numeral(v)
        /\ f.kind = "flag" => r = <<IF v THEN "true" ELSE "false">>
    BY RenderedIs
  <1> HIDE DEF m, n
  <1>7. p \in Nat \ {0} /\ at + n = p + Len(r) /\ p + Len(r) - 1 <= Len(s)
    <2>1. p + Len(r) - 1 <= Len(s)
      BY <1>3 DEF Bears
    <2> HIDE DEF r
    <2> QED
      BY <1>2, <2>1
  <1> HIDE DEF p
  <1>8. CASE f.kind = "text"
    <2>1. v \in Composed(Pieces) /\ v \in Seq(Byte) /\ Len(v) \in Nat
      <3>1. v \in Composed(Pieces)
        BY <1>8 DEF Fits
      <3> QED
        BY <3>1, PiecesText, ComposedGrows, LenProperties
    <2>2. Len(r) = Len(v) + 2
      BY <1>6, <1>8, <2>1, QuotedIs
    <2>3. Len(v) < Room(s, f.kept)
      <3>1. Len(v) < Len(s) + 1
        <4> HIDE DEF r
        <4> QED
          BY <1>2, <1>7, <2>1, <2>2
      <3> QED
        BY <1>8, <3>1 DEF Fits, Room
    <2>4. ParseString(s, p, f.kept) = [at |-> p + Len(v) + 2, value |-> v]
      BY <1>1, <1>3, <1>6, <1>7, <1>8, <2>1, <2>3, BorneString
    <2>5. p + Len(v) + 2 = at + n
      <3> HIDE DEF r
      <3> QED
        BY <1>2, <1>7, <2>1, <2>2
    <2> QED
      BY <1>5, <1>8, <2>4, <2>5 DEF n
  <1>9. CASE f.kind = "number"
    <2>1. v \in 0..MaxNumber
      BY <1>9 DEF Fits
    <2>2. Bears(s, p, Numeral(v)) /\ ~DigitAt(s, p + Len(Numeral(v)))
      <3>1. r = Numeral(v) /\ ~DigitAt(s, at + n)
        BY <1>6, <1>9 DEF n
      <3> HIDE DEF r
      <3> QED
        BY <1>3, <1>7, <3>1
    <2>3. ParseNumber(s, p) = [at |-> p + Len(Numeral(v)), value |-> v]
      BY <1>7, <2>1, <2>2, BorneNumber
    <2>4. p + Len(Numeral(v)) = at + n
      <3>1. r = Numeral(v)
        BY <1>6, <1>9
      <3> HIDE DEF r
      <3> QED
        BY <1>7, <3>1
    <2> QED
      BY <1>5, <1>9, <2>3, <2>4 DEF n
  <1>10. CASE f.kind = "flag"
    <2>1. v \in BOOLEAN
      BY <1>10 DEF Fits
    <2>2. r = <<IF v THEN "true" ELSE "false">>
      BY <1>6, <1>10
    <2>3. Len(r) = 1
      BY <2>2
    <2>4. ParseFlag(s, p) = [at |-> p + 1, value |-> v]
      BY <1>3, <1>7, <2>1, <2>2, FlagIs
    <2>5. p + 1 = at + n
      <3> HIDE DEF r
      <3> QED
        BY <1>7, <2>3
    <2> QED
      BY <1>5, <1>10, <2>4, <2>5 DEF n
  <1> QED
    BY <1>1, <1>8, <1>9, <1>10

-----------------------------------------------------------------------------
(* The line of a record, field by field.                                   *)

AllFit(values, N) == \A i \in 1..N : Fits(Schema[i], values[i])

(* The line up to each of its first N fields.                              *)
UpTo(values, N) ==
    CHOOSE g : g = [i \in 0..N |->
                      IF i = 0 THEN Opening
                      ELSE g[i - 1] \o <<Comma>> \o Named(Schema[i].name) \o Rendered(Schema[i], values[i])]

(* The first bytes of a line.                                              *)
LEMMA OpeningIs ==
    /\ Opening \in Seq(Byte) /\ Len(Opening) = 6
    /\ Opening[2] = Quote /\ Opening[3] = "schema" /\ Opening[4] = Quote
    /\ Opening[1] \notin Words \cup {Quote} /\ Opening[5] \notin Words \cup {Quote}
    /\ Opening[6] = "1"
  <1>1. "{" \in Byte /\ Quote \in Byte /\ "schema" \in Byte /\ ":" \in Byte /\ "1" \in Byte
    BY Alphabet DEF Words
  <1>2. "{" \notin Words \cup {Quote} /\ ":" \notin Words \cup {Quote}
    BY DEF Words, Quote
  <1>3. \A a, b, c, d, e, f \in Byte :
          LET w == <<a, b, c, d, e, f>>
          IN  /\ w \in Seq(Byte) /\ Len(w) = 6 /\ w[1] = a /\ w[2] = b /\ w[3] = c /\ w[4] = d
              /\ w[5] = e /\ w[6] = f
    OBVIOUS
  <1>4. LET w == <<"{", Quote, "schema", Quote, ":", "1">>
        IN  /\ w \in Seq(Byte) /\ Len(w) = 6 /\ w[1] = "{" /\ w[2] = Quote /\ w[3] = "schema"
            /\ w[4] = Quote /\ w[5] = ":" /\ w[6] = "1"
    BY <1>1, <1>3, Zenon
  <1> QED
    BY <1>2, <1>4, Zenon DEF Opening

(* The last bytes of a line.                                               *)
LEMMA ClosingIs ==
    /\ Closing \in Seq(Byte) /\ Len(Closing) = 2
    /\ Closing[1] \notin {Quote, Colon} /\ Closing[2] \notin {Quote, Colon}
    /\ Closing[1] = Brace
  <1>1. "}" \in Byte /\ "newline" \in Byte
    BY Alphabet DEF Controls
  <1>2. "}" \notin {Quote, ":"} /\ "newline" \notin {Quote, ":"}
    BY DEF Quote
  <1>3. \A a, b \in Byte :
          LET w == <<a, b>> IN w \in Seq(Byte) /\ Len(w) = 2 /\ w[1] = a /\ w[2] = b
    OBVIOUS
  <1>4. LET w == <<"}", "newline">>
        IN  w \in Seq(Byte) /\ Len(w) = 2 /\ w[1] = "}" /\ w[2] = "newline"
    BY <1>1, <1>3, Zenon
  <1> QED
    BY <1>2, <1>4, Zenon DEF Closing, Brace, Colon

(* The fields of the schema are entries.                                   *)
LEMMA EntryIs ==
    ASSUME NEW i \in 1..Len(Schema)
    PROVE  Entry(Schema[i])
  BY SchemaFields DEF Entry

(* One more field behind what is laid out.                                 *)
LEMMA Extended ==
    ASSUME NEW x \in Seq(Byte), NEW f, NEW v, Entry(f), Fits(f, v)
    PROVE  /\ x \o <<Comma>> \o Named(f.name) \o Rendered(f, v) = x \o Piece(f, v)
           /\ x \o Piece(f, v) \in Seq(Byte)
  <1> DEFINE c == <<Comma>>
             n == Named(f.name)
             r == Rendered(f, v)
  <1>1. c \in Seq(Byte)
    <2>1. Comma \in Byte
      BY Alphabet DEF Comma
    <2> QED
      BY <2>1, Single
  <1>2. n \in Seq(Byte)
    BY NamedIs DEF Entry
  <1>3. r \in Seq(Byte) /\ Piece(f, v) \in Seq(Byte)
    BY PieceIs
  <1>4. Piece(f, v) = (c \o n) \o r
    BY DEF Piece, Marker
  <1> HIDE DEF c, n, r
  <1>5. x \o c \in Seq(Byte) /\ c \o n \in Seq(Byte)
    BY <1>1, <1>2, ConcatProperties
  <1>6. (x \o c) \o n = x \o (c \o n)
    BY <1>1, <1>2, ConcatAssociative
  <1>7. (x \o (c \o n)) \o r = x \o ((c \o n) \o r)
    <2> DEFINE y == c \o n
    <2>1. y \in Seq(Byte)
      BY <1>5
    <2> HIDE DEF y
    <2>2. (x \o y) \o r = x \o (y \o r)
      BY <1>3, <2>1, ConcatAssociative
    <2> QED
      BY <2>2 DEF y
  <1>8. x \o <<Comma>> \o Named(f.name) \o Rendered(f, v) = ((x \o c) \o n) \o r
    BY Zenon DEF c, n, r, Comma
  <1>9. x \o Piece(f, v) \in Seq(Byte)
    BY <1>3, ConcatProperties
  <1> QED
    BY <1>4, <1>6, <1>7, <1>8, <1>9

(* A line grows field by field.                                            *)
LEMMA UpToAre ==
    ASSUME NEW values, NEW M \in Nat, M <= Len(Schema), AllFit(values, M)
    PROVE  /\ \A n \in 0..M : UpTo(values, M)[n] \in Seq(Byte)
           /\ UpTo(values, M)[0] = Opening
           /\ \A n \in 1..M : UpTo(values, M)[n] = UpTo(values, M)[n - 1] \o <<Comma>> \o Named(Schema[n].name) \o Rendered(Schema[n], values[n])
  <1> DEFINE N == M
             S == Seq(Byte)
             first == Opening
             X == UpTo(values, M)
             F == [n \in 1..N |-> [x \in S |-> x \o <<Comma>> \o Named(Schema[n].name) \o Rendered(Schema[n], values[n])]]
  <1>1. N \in Nat /\ first \in S
    BY OpeningIs, SchemaIs
  <1>2. ASSUME NEW n \in 1..N, NEW x \in S
        PROVE  x \o <<Comma>> \o Named(Schema[n].name) \o Rendered(Schema[n], values[n]) \in S
    <2>1. n \in 1..Len(Schema) /\ Fits(Schema[n], values[n])
      BY SchemaIs DEF AllFit
    <2>2. Entry(Schema[n])
      BY <2>1, EntryIs
    <2> QED
      BY <2>1, <2>2, Extended
  <1>3. F \in [1..N -> [S -> S]]
    BY <1>2
  <1>4. PICK g : Follows(g, N, S, first, F)
    <2> HIDE DEF F, S, N, first
    <2> QED
      BY <1>1, <1>3, RecursionExists
  <1>5. \A n \in 1..N : g[n] = g[n - 1] \o <<Comma>> \o Named(Schema[n].name) \o Rendered(Schema[n], values[n])
    <2>1. \A n \in 1..N : n - 1 \in 0..N
      BY <1>1
    <2> HIDE DEF S, N, first
    <2> QED
      BY <1>4, <2>1 DEF Follows
  <1> HIDE DEF F
  <1>6. g = [n \in 0..N |-> IF n = 0 THEN first ELSE g[n - 1] \o <<Comma>> \o Named(Schema[n].name) \o Rendered(Schema[n], values[n])]
    <2>1. \A n \in 0..N : n # 0 => n \in 1..N
      BY <1>1
    <2> HIDE DEF S, N, first
    <2> QED
      BY <1>4, <1>5, <2>1 DEF Follows
  <1>7. X = [n \in 0..N |-> IF n = 0 THEN first ELSE X[n - 1] \o <<Comma>> \o Named(Schema[n].name) \o Rendered(Schema[n], values[n])]
    BY <1>6 DEF UpTo
  <1> HIDE DEF X, S, N, first
  <1>8. X[0] = first /\ \A n \in 1..N : X[n] = X[n - 1] \o <<Comma>> \o Named(Schema[n].name) \o Rendered(Schema[n], values[n])
    <2>1. 0 \in 0..N /\ \A n \in 1..N : n \in 0..N /\ n # 0
      BY <1>1
    <2> QED
      BY <1>7, <2>1
  <1>9. \A n \in 0..N : X[n] \in S
    <2> DEFINE T == {n \in 0..N : X[n] \in S}
    <2>1. 0 \in T
      BY <1>1, <1>8
    <2>2. ASSUME NEW n \in 0..(N - 1), n \in T PROVE n + 1 \in T
      <3>1. n + 1 \in 1..N /\ n + 1 \in 0..N /\ (n + 1) - 1 = n
        BY <1>1
      <3>2. X[n + 1] = X[n] \o <<Comma>> \o Named(Schema[(n + 1)].name) \o Rendered(Schema[(n + 1)], values[(n + 1)])
        BY <1>8, <3>1
      <3> QED
        BY <1>2, <2>2, <3>1, <3>2
    <2>3. \A n \in 0..N : n \in T
      <3> HIDE DEF T
      <3> QED
        BY <1>1, <2>1, <2>2, Counting
    <2> QED
      BY <2>3
  <1> QED
    BY <1>8, <1>9 DEF X, S, N, first

(* A line ends behind its last field.                                      *)
LEMMA LineIs ==
    ASSUME NEW values
    PROVE  Line(values) = UpTo(values, Len(Schema))[Len(Schema)] \o Closing
  BY DEF Line, UpTo, Comma

(* The same, with a field as one piece.                                    *)
LEMMA UpToGrows ==
    ASSUME NEW values, NEW M \in Nat, M <= Len(Schema), AllFit(values, M)
    PROVE  /\ UpTo(values, M)[0] = Opening
           /\ \A n \in 0..M : UpTo(values, M)[n] \in Seq(Byte) /\ Len(UpTo(values, M)[n]) \in Nat
           /\ \A n \in 1..M : UpTo(values, M)[n] = UpTo(values, M)[n - 1] \o Piece(Schema[n], values[n])
  <1> DEFINE X == UpTo(values, M)
  <1>1. /\ \A n \in 0..M : X[n] \in Seq(Byte)
        /\ X[0] = Opening
        /\ \A n \in 1..M : X[n] = X[n - 1] \o <<Comma>> \o Named(Schema[n].name) \o Rendered(Schema[n], values[n])
    BY UpToAre
  <1> HIDE DEF X
  <1>2. ASSUME NEW n \in 1..M PROVE X[n] = X[n - 1] \o Piece(Schema[n], values[n])
    <2>1. n \in 1..Len(Schema) /\ n - 1 \in 0..M /\ Fits(Schema[n], values[n])
      BY SchemaIs DEF AllFit
    <2>2. Entry(Schema[n]) /\ X[n - 1] \in Seq(Byte)
      BY <1>1, <2>1, EntryIs
    <2>3. X[n] = X[n - 1] \o <<Comma>> \o Named(Schema[n].name) \o Rendered(Schema[n], values[n])
      BY <1>1
    <2>4. X[n - 1] \o <<Comma>> \o Named(Schema[n].name) \o Rendered(Schema[n], values[n])
            = X[n - 1] \o Piece(Schema[n], values[n])
      BY <2>1, <2>2, Extended
    <2> QED
      BY <2>3, <2>4
  <1> QED
    BY <1>1, <1>2, LenProperties DEF X

(* What stands behind a field does not matter for what stands before it.   *)
LEMMA UpToAgree ==
    ASSUME NEW values, NEW others, NEW N \in Nat, NEW M \in Nat, N <= M, M <= Len(Schema),
           AllFit(values, N), AllFit(others, M), \A i \in 1..N : values[i] = others[i]
    PROVE  \A i \in 0..N : UpTo(values, N)[i] = UpTo(others, M)[i]
  <1> DEFINE X == UpTo(values, N)
             Y == UpTo(others, M)
  <1>1. /\ X[0] = Opening /\ Y[0] = Opening
        /\ \A n \in 1..N : X[n] = X[n - 1] \o Piece(Schema[n], values[n])
        /\ \A n \in 1..M : Y[n] = Y[n - 1] \o Piece(Schema[n], others[n])
    <2>1. N <= Len(Schema)
      BY SchemaIs
    <2> QED
      BY <2>1, UpToGrows
  <1> HIDE DEF X, Y
  <1> DEFINE T == {n \in 0..N : X[n] = Y[n]}
  <1>2. 0 \in T
    BY <1>1
  <1>3. ASSUME NEW n \in 0..(N - 1), n \in T PROVE n + 1 \in T
    <2>1. n + 1 \in 1..N /\ n + 1 \in 1..M /\ n + 1 \in 0..N /\ (n + 1) - 1 = n
      OBVIOUS
    <2>2. X[n + 1] = X[n] \o Piece(Schema[n + 1], values[n + 1])
      BY <1>1, <2>1
    <2>3. Y[n + 1] = Y[n] \o Piece(Schema[n + 1], others[n + 1])
      BY <1>1, <2>1
    <2>4. X[n] = Y[n]
      BY <1>3
    <2> QED
      BY <2>1, <2>2, <2>3, <2>4
  <1> HIDE DEF T
  <1>4. \A n \in 0..N : n \in T
    BY <1>2, <1>3, Counting
  <1> QED
    BY <1>4 DEF T, X, Y

(* A line that bears a record up to a field bears it up to each before.    *)
LEMMA UpToBorne ==
    ASSUME NEW s, Len(s) \in Nat, NEW values, NEW M \in Nat, M <= Len(Schema), AllFit(values, M)
    PROVE  /\ \A n \in 1..M :
                Bears(s, 1, UpTo(values, M)[n]) <=>
                  /\ Bears(s, 1, UpTo(values, M)[n - 1])
                  /\ Bears(s, 1 + Len(UpTo(values, M)[n - 1]), Piece(Schema[n], values[n]))
           /\ Bears(s, 1, UpTo(values, M)[M]) => \A n \in 0..M : Bears(s, 1, UpTo(values, M)[n])
  <1> DEFINE X == UpTo(values, M)
  <1>1. /\ \A n \in 0..M : X[n] \in Seq(Byte) /\ Len(X[n]) \in Nat
        /\ \A n \in 1..M : X[n] = X[n - 1] \o Piece(Schema[n], values[n])
    BY UpToGrows
  <1> HIDE DEF X
  <1>2. ASSUME NEW n \in 1..M
        PROVE  Bears(s, 1, X[n]) <=>
                 Bears(s, 1, X[n - 1]) /\ Bears(s, 1 + Len(X[n - 1]), Piece(Schema[n], values[n]))
    <2> DEFINE w == Piece(Schema[n], values[n])
    <2>1. n \in 1..Len(Schema) /\ n - 1 \in 0..M /\ Fits(Schema[n], values[n])
      BY SchemaIs DEF AllFit
    <2>2. w \in Seq(Byte)
      BY <2>1, EntryIs, PieceIs
    <2> HIDE DEF w
    <2>3. X[n - 1] \in Seq(Byte) /\ X[n] = X[n - 1] \o w
      BY <1>1, <2>1 DEF w
    <2>4. 1 \in Nat \ {0}
      OBVIOUS
    <2>5. Bears(s, 1, X[n - 1] \o w) <=> Bears(s, 1, X[n - 1]) /\ Bears(s, 1 + Len(X[n - 1]), w)
      BY <2>2, <2>3, <2>4, BearsConcat
    <2> QED
      BY <2>3, <2>5 DEF w
  <1>3. ASSUME Bears(s, 1, X[M]) PROVE \A n \in 0..M : Bears(s, 1, X[n])
    <2> DEFINE T == {k \in 0..M : Bears(s, 1, X[M - k])}
    <2>1. 0 \in T
      BY <1>3
    <2>2. ASSUME NEW k \in 0..(M - 1), k \in T PROVE k + 1 \in T
      <3>1. M - k \in 1..M /\ (M - k) - 1 = M - (k + 1) /\ k + 1 \in 0..M
        OBVIOUS
      <3>2. Bears(s, 1, X[M - k])
        BY <2>2
      <3>3. Bears(s, 1, X[M - (k + 1)])
        BY <1>2, <3>1, <3>2
      <3> QED
        BY <3>1, <3>3
    <2> HIDE DEF T
    <2>3. \A k \in 0..M : k \in T
      BY <2>1, <2>2, Counting
    <2> SUFFICES ASSUME NEW n \in 0..M PROVE Bears(s, 1, X[n])
      OBVIOUS
    <2>4. M - n \in 0..M /\ M - (M - n) = n
      OBVIOUS
    <2>5. M - n \in T
      BY <2>3, <2>4
    <2>6. Bears(s, 1, X[M - (M - n)])
      BY <2>5 DEF T
    <2> QED
      BY <2>4, <2>6
  <1> QED
    BY <1>2, <1>3 DEF X

-----------------------------------------------------------------------------
(* parse_audit_record.                                                     *)

Value == Seq(Byte) \cup Nat \cup BOOLEAN

FieldStates == [at : Nat, values : Seq(Value)]

(* A value that fits is a value.                                           *)
LEMMA FitsValue ==
    ASSUME NEW f, NEW v, Entry(f), Fits(f, v)
    PROVE  v \in Value /\ Len(Piece(f, v)) \in Nat
  <1>1. v \in Value
    <2>1. f.kind = "text" => v \in Seq(Byte)
      BY PiecesText, ComposedGrows DEF Fits
    <2>2. f.kind = "number" => v \in Nat
      BY DigitsAre DEF Fits
    <2> QED
      BY <2>1, <2>2 DEF Fits, Entry, Value
  <1>2. Len(Piece(f, v)) \in Nat
    BY PieceIs
  <1> QED
    BY <1>1, <1>2

(* A step of parse_audit_record keeps the type of its state.               *)
LEMMA ParseStepTyped ==
    ASSUME NEW s \in Seq(Byte), NEW st \in FieldStates, NEW f, Entry(f)
    PROVE  ParseStep(s, st, f) \in FieldStates
  <1> DEFINE parsed == ParseField(s, st.at, f)
  <1>1. st.at \in Nat /\ st.values \in Seq(Value) /\ st = [at |-> st.at, values |-> st.values]
    BY DEF FieldStates
  <1>2. CASE st.at = 0
    BY <1>2 DEF ParseStep
  <1>3. CASE st.at # 0 /\ parsed.at = 0
    <2>1. ParseStep(s, st, f) = [at |-> 0, values |-> st.values]
      BY <1>1, <1>3 DEF ParseStep
    <2> QED
      BY <1>1, <2>1 DEF FieldStates
  <1>4. CASE st.at # 0 /\ parsed.at # 0
    <2>1. ParseStep(s, st, f) = [at |-> parsed.at, values |-> Append(st.values, parsed.value)]
      BY <1>4 DEF ParseStep
    <2>2. st.at \in Nat \ {0}
      BY <1>1, <1>4
    <2>3. PICK v : Fits(f, v) /\ parsed = [at |-> st.at + Len(Piece(f, v)), value |-> v]
      BY <1>4, <2>2, ParsedField
    <2>4. v \in Value /\ Len(Piece(f, v)) \in Nat
      BY <2>3, FitsValue
    <2>5. parsed.at \in Nat /\ parsed.value \in Value
      BY <2>2, <2>3, <2>4
    <2>6. Append(st.values, parsed.value) \in Seq(Value)
      BY <1>1, <2>5, AppendProperties
    <2> HIDE DEF parsed
    <2> QED
      BY <2>1, <2>5, <2>6 DEF FieldStates
  <1> QED
    BY <1>2, <1>3, <1>4

(* Where parse_audit_record stands after so many fields.                   *)
FieldTurns(s) ==
    CHOOSE g : g = [i \in 0..Len(Schema) |->
                      IF i = 0 THEN [at |-> Len(Opening) + 1, values |-> <<>>]
                      ELSE ParseStep(s, g[i - 1], Schema[i])]

(* parse_audit_record, field by field.                                     *)
LEMMA FieldTurnsAre ==
    ASSUME NEW s \in Seq(Byte)
    PROVE  /\ \A n \in 0..Len(Schema) : FieldTurns(s)[n] \in FieldStates
           /\ FieldTurns(s)[0] = [at |-> Len(Opening) + 1, values |-> <<>>]
           /\ \A n \in 1..Len(Schema) : FieldTurns(s)[n] = ParseStep(s, FieldTurns(s)[n - 1], Schema[n])
  <1> DEFINE N == Len(Schema)
             S == FieldStates
             first == [at |-> Len(Opening) + 1, values |-> <<>>]
             X == FieldTurns(s)
             F == [n \in 1..N |-> [x \in S |-> ParseStep(s, x, Schema[n])]]
  <1>1. N \in Nat /\ first \in S
    <2>1. Len(Opening) + 1 \in Nat /\ <<>> \in Seq(Value)
      BY OpeningIs, EmptySeq
    <2>2. N \in Nat
      BY SchemaIs
    <2> QED
      BY <2>1, <2>2 DEF FieldStates
  <1>2. ASSUME NEW n \in 1..N, NEW x \in S PROVE ParseStep(s, x, Schema[n]) \in S
    BY EntryIs, ParseStepTyped
  <1>3. F \in [1..N -> [S -> S]]
    BY <1>2
  <1>4. PICK g : Follows(g, N, S, first, F)
    <2> HIDE DEF F, S, N, first
    <2> QED
      BY <1>1, <1>3, RecursionExists
  <1>5. \A n \in 1..N : g[n] = ParseStep(s, g[n - 1], Schema[n])
    <2>1. \A n \in 1..N : n - 1 \in 0..N
      BY <1>1
    <2> HIDE DEF S, N, first
    <2> QED
      BY <1>4, <2>1 DEF Follows
  <1> HIDE DEF F
  <1>6. g = [n \in 0..N |-> IF n = 0 THEN first ELSE ParseStep(s, g[n - 1], Schema[n])]
    <2>1. \A n \in 0..N : n # 0 => n \in 1..N
      BY <1>1
    <2> HIDE DEF S, N, first
    <2> QED
      BY <1>4, <1>5, <2>1 DEF Follows
  <1>7. X = [n \in 0..N |-> IF n = 0 THEN first ELSE ParseStep(s, X[n - 1], Schema[n])]
    BY <1>6 DEF FieldTurns
  <1> HIDE DEF X, S, N, first
  <1>8. X[0] = first /\ \A n \in 1..N : X[n] = ParseStep(s, X[n - 1], Schema[n])
    <2>1. 0 \in 0..N /\ \A n \in 1..N : n \in 0..N /\ n # 0
      BY <1>1
    <2> QED
      BY <1>7, <2>1
  <1>9. \A n \in 0..N : X[n] \in S
    <2> DEFINE T == {n \in 0..N : X[n] \in S}
    <2>1. 0 \in T
      BY <1>1, <1>8
    <2>2. ASSUME NEW n \in 0..(N - 1), n \in T PROVE n + 1 \in T
      <3>1. n + 1 \in 1..N /\ n + 1 \in 0..N /\ (n + 1) - 1 = n
        BY <1>1
      <3>2. X[n + 1] = ParseStep(s, X[n], Schema[(n + 1)])
        BY <1>8, <3>1
      <3> QED
        BY <1>2, <2>2, <3>1, <3>2
    <2>3. \A n \in 0..N : n \in T
      <3> HIDE DEF T
      <3> QED
        BY <1>1, <2>1, <2>2, Counting
    <2> QED
      BY <2>3
  <1> QED
    BY <1>8, <1>9 DEF X, S, N, first

(* What it has read behind the last field.                                 *)
LEMMA ParseFieldsIs == \A s : ParseFields(s) = FieldTurns(s)[Len(Schema)]
  BY DEF ParseFields, FieldTurns

(* A line is what it begins with, and the rest.                            *)
LEMMA RestOf ==
    ASSUME NEW s \in Seq(Byte), NEW u \in Seq(Byte), Bears(s, 1, u)
    PROVE  s = u \o SubSeq(s, Len(u) + 1, Len(s))
  <1>1. Len(s) \in Nat /\ Len(u) \in Nat /\ Len(u) <= Len(s)
    BY LenProperties DEF Bears
  <1>2. Slice(s, 1, Len(u)) = u
    BY BearsLiteral
  <1>3. SubSeq(s, 1, Len(u)) = u
    <2>1. 1 + Len(u) - 1 = Len(u)
      BY <1>1
    <2> QED
      BY <1>2, <2>1 DEF Slice
  <1>4. SubSeq(s, 1, Len(u)) \o SubSeq(s, Len(u) + 1, Len(s)) = SubSeq(s, 1, Len(s))
    <2>1. 1 \in 1..(Len(s) + 1) /\ Len(u) \in (1 - 1)..Len(s) /\ Len(s) \in Len(u)..Len(s)
      BY <1>1
    <2> QED
      BY <2>1, ConcatAdjacentSubSeq
  <1>5. SubSeq(s, 1, Len(s)) = s
    BY SubSeqFull
  <1> QED
    BY <1>3, <1>4, <1>5

(* The rest of a concatenation.                                            *)
LEMMA RestOfJoined ==
    ASSUME NEW u \in Seq(Byte), NEW c \in Seq(Byte), Len(c) > 0
    PROVE  /\ SubSeq(u \o c, Len(u) + 1, Len(u \o c)) = c
           /\ Bears(u \o c, 1, u)
  <1>1. /\ u \o c \in Seq(Byte) /\ Len(u \o c) = Len(u) + Len(c)
        /\ Len(u) \in Nat /\ Len(c) \in Nat
        /\ \A i \in 1..Len(u) : (u \o c)[i] = u[i]
    BY Joined
  <1>2. SubSeq(u \o c, Len(u) + 1, Len(u) + Len(c))
          = SubSeq(c, (Len(u) + 1) - Len(u), (Len(u) + Len(c)) - Len(u))
    <2>1. /\ Len(u) + 1 \in (Len(u) + 1)..(Len(u) + Len(c))
          /\ Len(u) + Len(c) \in (Len(u) + 1)..(Len(u) + Len(c))
      BY <1>1
    <2> QED
      BY <2>1, SubSeqOfConcat2
  <1>3. (Len(u) + 1) - Len(u) = 1 /\ (Len(u) + Len(c)) - Len(u) = Len(c)
    BY <1>1
  <1>4. SubSeq(c, 1, Len(c)) = c
    BY SubSeqFull
  <1>5. Bears(u \o c, 1, u)
    <2> DEFINE x == u \o c
    <2> HIDE DEF x
    <2>1. Len(x) = Len(u) + Len(c) /\ \A i \in 1..Len(u) : x[i] = u[i]
      BY <1>1 DEF x
    <2>2. \A i \in 1..Len(u) : 1 + i - 1 = i
      BY <1>1
    <2>3. Bears(x, 1, u)
      BY <1>1, <2>1, <2>2 DEF Bears
    <2> QED
      BY <2>3 DEF x
  <1> QED
    BY <1>1, <1>2, <1>3, <1>4, <1>5

(* What has been read is what the line shows so far.                       *)
FieldsSound(s, st, i) ==
    st.at # 0 => /\ Len(st.values) = i /\ AllFit(st.values, i)
                 /\ st.at = Len(UpTo(st.values, i)[i]) + 1
                 /\ Bears(s, 1, UpTo(st.values, i)[i])

(* A step of parse_audit_record takes nothing the line does not show.      *)
LEMMA ParseStepSound ==
    ASSUME NEW s \in Seq(Byte), NEW st \in FieldStates, NEW i \in Nat, i + 1 <= Len(Schema),
           FieldsSound(s, st, i)
    PROVE  FieldsSound(s, ParseStep(s, st, Schema[i + 1]), i + 1)
  <1> DEFINE f == Schema[i + 1]
             parsed == ParseField(s, st.at, f)
  <1>1. st.at \in Nat /\ st.values \in Seq(Value) /\ st = [at |-> st.at, values |-> st.values]
    BY DEF FieldStates
  <1>2. Entry(f) /\ i + 1 \in 1..Len(Schema) /\ Len(Schema) \in Nat
    BY EntryIs, SchemaIs
  <1>3. CASE st.at = 0
    BY <1>3 DEF ParseStep, FieldsSound
  <1>4. CASE st.at # 0 /\ parsed.at = 0
    <2>1. ParseStep(s, st, f) = [at |-> 0, values |-> st.values]
      BY <1>1, <1>4 DEF ParseStep
    <2> QED
      BY <2>1 DEF FieldsSound
  <1>5. CASE st.at # 0 /\ parsed.at # 0
    <2> DEFINE V == st.values
               W == Append(V, parsed.value)
               u == UpTo(V, i)[i]
    <2>1. ParseStep(s, st, f) = [at |-> parsed.at, values |-> W]
      BY <1>5 DEF ParseStep
    <2>2. Len(V) = i /\ AllFit(V, i) /\ st.at = Len(u) + 1 /\ Bears(s, 1, u)
      BY <1>5 DEF FieldsSound
    <2>3. st.at \in Nat \ {0}
      BY <1>1, <1>5
    <2>4. PICK v : Fits(f, v) /\ Bears(s, st.at, Piece(f, v))
                   /\ parsed = [at |-> st.at + Len(Piece(f, v)), value |-> v]
      BY <1>2, <1>5, <2>3, ParsedField
    <2>5. parsed.value = v /\ parsed.at = st.at + Len(Piece(f, v))
      BY <2>4
    <2>6. v \in Value
      BY <1>2, <2>4, FitsValue
    <2> HIDE DEF parsed
    <2>7. /\ Len(W) = i + 1 /\ W[i + 1] = v /\ \A k \in 1..i : W[k] = V[k]
      BY <1>1, <2>2, <2>5, <2>6, AppendProperties
    <2> HIDE DEF W, V, f
    <2>8. AllFit(W, i + 1)
      <3> SUFFICES ASSUME NEW k \in 1..(i + 1) PROVE Fits(Schema[k], W[k])
        BY DEF AllFit
      <3>1. CASE k = i + 1
        BY <2>4, <2>7, <3>1 DEF f
      <3>2. CASE k # i + 1
        <4>1. k \in 1..i
          BY <3>2
        <4> QED
          BY <2>2, <2>7, <4>1 DEF AllFit
      <3> QED
        BY <3>1, <3>2
    <2>9. UpTo(W, i + 1)[i] = u
      <3>1. i <= i + 1 /\ i + 1 \in Nat /\ \A k \in 1..i : V[k] = W[k]
        BY <2>7
      <3>2. \A k \in 0..i : UpTo(V, i)[k] = UpTo(W, i + 1)[k]
        BY <2>2, <2>8, <3>1, UpToAgree
      <3> QED
        BY <3>2
    <2>10. UpTo(W, i + 1)[i + 1] = u \o Piece(f, v)
      <3>1. i + 1 \in 1..(i + 1) /\ i + 1 \in Nat /\ (i + 1) - 1 = i
        OBVIOUS
      <3> QED
        BY <2>7, <2>8, <2>9, <3>1, UpToGrows DEF f
    <2>11. u \in Seq(Byte) /\ Len(u) \in Nat
      <3>1. i \in 0..i /\ i <= Len(Schema)
        BY <1>2
      <3> QED
        BY <2>2, <3>1, UpToGrows
    <2> DEFINE w == Piece(f, v)
    <2>12. w \in Seq(Byte) /\ Len(w) \in Nat
      BY <1>2, <2>4, PieceIs, LenProperties
    <2> HIDE DEF u, w
    <2>13. Len(u \o w) = Len(u) + Len(w)
      BY <2>11, <2>12, Joined
    <2>14. Bears(s, 1, u \o w)
      <3>1. 1 \in Nat \ {0} /\ Len(s) \in Nat /\ 1 + Len(u) = st.at
        BY <2>2, <2>11, LenProperties
      <3>2. Bears(s, 1 + Len(u), w)
        BY <2>4, <3>1 DEF w
      <3> QED
        BY <2>2, <2>11, <2>12, <3>1, <3>2, BearsConcat
    <2>15. parsed.at = Len(u \o w) + 1
      <3>1. parsed.at = (Len(u) + 1) + Len(w)
        BY <2>2, <2>5 DEF w
      <3> DEFINE a == Len(u)
                 b == Len(w)
                 c == Len(u \o w)
      <3>2. a \in Nat /\ b \in Nat /\ c = a + b
        BY <2>11, <2>12, <2>13
      <3>3. parsed.at = (a + 1) + b
        BY <3>1
      <3> HIDE DEF a, b, c
      <3>4. parsed.at = c + 1
        BY <3>2, <3>3
      <3> QED
        BY <3>4 DEF c
    <2> DEFINE y == u \o w
    <2> HIDE DEF y
    <2>16. UpTo(W, i + 1)[i + 1] = y /\ Bears(s, 1, y) /\ parsed.at = Len(y) + 1
      BY <2>10, <2>14, <2>15 DEF y, w
    <2> QED
      BY <2>1, <2>7, <2>8, <2>16 DEF FieldsSound, W, f
  <1> QED
    BY <1>3, <1>4, <1>5

(* What parse_audit_record accepts is the line of the record it reads.     *)
THEOREM ParsedLine ==
    ASSUME NEW s \in Seq(Byte), Parse(s) # Refused
    PROVE  /\ Parse(s) \in Seq(Value) /\ Len(Parse(s)) = Len(Schema)
           /\ AllFit(Parse(s), Len(Schema)) /\ Line(Parse(s)) = s
  <1> DEFINE N == Len(Schema)
             X == FieldTurns(s)
             last == X[N]
             V == last.values
  <1>1. N = 7
    BY SchemaIs
  <1>2. /\ HasLiteral(s, 1, Opening) /\ last.at # 0 /\ SubSeq(s, last.at, Len(s)) = Closing
        /\ Parse(s) = V
    <2>1. ParseFields(s) = last
      BY ParseFieldsIs
    <2> QED
      BY <2>1 DEF Parse, Refused
  <1>3. Bears(s, 1, Opening)
    <2>1. 1 \in Nat \ {0}
      OBVIOUS
    <2> QED
      BY <1>2, <2>1, OpeningIs, BearsLiteral
  <1>4. /\ \A n \in 0..N : X[n] \in FieldStates
        /\ X[0] = [at |-> Len(Opening) + 1, values |-> <<>>]
        /\ \A n \in 1..N : X[n] = ParseStep(s, X[n - 1], Schema[n])
    BY FieldTurnsAre
  <1> HIDE DEF X
  <1> DEFINE T == {n \in 0..N : FieldsSound(s, X[n], n)}
  <1>5. 0 \in T
    <2> DEFINE e == <<>>
    <2>1. Len(e) = 0
      OBVIOUS
    <2> HIDE DEF e
    <2>2. X[0] = [at |-> Len(Opening) + 1, values |-> e]
      BY <1>4 DEF e
    <2>3. AllFit(e, 0)
      BY DEF AllFit
    <2>4. UpTo(e, 0)[0] = Opening
      <3>1. 0 \in Nat /\ 0 <= Len(Schema)
        BY <1>1
      <3> QED
        BY <2>3, <3>1, UpToGrows
    <2>5. FieldsSound(s, X[0], 0)
      BY <1>3, <2>1, <2>2, <2>3, <2>4 DEF FieldsSound
    <2> QED
      BY <1>1, <2>5
  <1>6. ASSUME NEW n \in 0..(N - 1), n \in T PROVE n + 1 \in T
    <2>1. n + 1 \in 1..N /\ n + 1 \in 0..N /\ (n + 1) - 1 = n /\ n \in 0..N /\ n \in Nat /\ n + 1 <= N
      BY <1>1
    <2>2. X[n + 1] = ParseStep(s, X[n], Schema[n + 1]) /\ X[n] \in FieldStates
      BY <1>4, <2>1
    <2>3. FieldsSound(s, X[n], n)
      BY <1>6
    <2>4. FieldsSound(s, X[n + 1], n + 1)
      BY <2>1, <2>2, <2>3, ParseStepSound
    <2> QED
      BY <2>1, <2>4
  <1>7. N \in T
    <2>1. N \in Nat /\ N \in 0..N
      BY <1>1
    <2> HIDE DEF T, N
    <2> QED
      BY <1>5, <1>6, <2>1, Counting
  <1>8. /\ Len(V) = N /\ AllFit(V, N) /\ last.at = Len(UpTo(V, N)[N]) + 1
        /\ Bears(s, 1, UpTo(V, N)[N])
    BY <1>2, <1>7 DEF FieldsSound
  <1>9. V \in Seq(Value)
    <2>1. last \in FieldStates
      BY <1>1, <1>4
    <2> HIDE DEF last
    <2> QED
      BY <2>1 DEF FieldStates
  <1> DEFINE u == UpTo(V, N)[N]
  <1>10. u \in Seq(Byte)
    <2>1. N \in Nat /\ N \in 0..N /\ N <= Len(Schema)
      BY <1>1
    <2> HIDE DEF N, V
    <2> QED
      BY <1>8, <2>1, UpToGrows
  <1>11. Line(V) = u \o Closing
    BY LineIs
  <1> HIDE DEF V, u, last
  <1>12. s = u \o SubSeq(s, Len(u) + 1, Len(s))
    BY <1>8, <1>10, RestOf DEF u
  <1>13. SubSeq(s, Len(u) + 1, Len(s)) = Closing
    BY <1>2, <1>8 DEF u
  <1> QED
    BY <1>2, <1>8, <1>9, <1>11, <1>12, <1>13

ValueEnds == {Comma, Brace}

(* The bytes that end a field stand in no number, flag or escape.          *)
LEMMA EndsAre ==
    /\ ValueEnds \subseteq Byte /\ ValueEnds \cap DigitSet = {} /\ ValueEnds \cap {"true", "false"} = {}
    /\ ValueEnds \cap {Quote, Slash} = {}
  <1>1. ValueEnds \subseteq Marks
    BY DEF ValueEnds, Comma, Brace, Marks
  <1>2. Marks \cap Letters = {} /\ Marks \cap Words = {} /\ DigitSet \subseteq Letters /\ Marks \subseteq Byte
    BY Alphabet, DigitsAre DEF DigitSet, Byte
  <1>3. {"true", "false"} \subseteq Words
    BY DEF Words
  <1>4. ValueEnds \cap {Quote, Slash} = {}
    BY DEF ValueEnds, Comma, Brace, Quote, Slash
  <1> QED
    BY <1>1, <1>2, <1>3, <1>4

(* A field begins with a comma.                                            *)
LEMMA PieceBegins ==
    ASSUME NEW f, NEW v, Entry(f), Fits(f, v)
    PROVE  Piece(f, v)[1] = Comma /\ Len(Piece(f, v)) \in Nat \ {0}
  <1> DEFINE m == Marker(f.name)
             r == Rendered(f, v)
  <1>1. m \in Seq(Byte) /\ r \in Seq(Byte) /\ Len(m) \in Nat \ {0} /\ Len(r) \in Nat \ {0}
    BY PieceIs
  <1>2. m[1] = Comma
    BY MarkerIs DEF Entry
  <1> HIDE DEF m, r
  <1>3. /\ Len(m \o r) = Len(m) + Len(r)
        /\ \A i \in 1..Len(m) : (m \o r)[i] = m[i]
    BY <1>1, Joined
  <1>4. 1 \in 1..Len(m)
    BY <1>1
  <1>5. (m \o r)[1] = Comma
    BY <1>2, <1>3, <1>4
  <1>6. Len(m \o r) \in Nat \ {0}
    BY <1>1, <1>3
  <1> QED
    BY <1>5, <1>6 DEF Piece, m, r

(* The parts of a line of a record.                                        *)
LEMMA LineShape ==
    ASSUME NEW V, AllFit(V, Len(Schema))
    PROVE  LET N == Len(Schema)
               U == UpTo(V, N)
               s == Line(V)
           IN  /\ s \in Seq(Byte) /\ Len(s) \in Nat /\ Len(s) = Len(U[N]) + 2
               /\ s = U[N] \o Closing
               /\ \A n \in 0..N : /\ U[n] \in Seq(Byte) /\ Len(U[n]) \in Nat
                                  /\ Bears(s, 1, U[n]) /\ Len(U[n]) <= Len(s)
               /\ \A n \in 1..N : /\ U[n] = U[n - 1] \o Piece(Schema[n], V[n])
                                  /\ Len(U[n]) = Len(U[n - 1]) + Len(Piece(Schema[n], V[n]))
                                  /\ Bears(s, Len(U[n - 1]) + 1, Piece(Schema[n], V[n]))
                                  /\ Len(U[n]) + 1 <= Len(s) /\ s[Len(U[n]) + 1] \in ValueEnds
  <1> DEFINE N == Len(Schema)
             U == UpTo(V, N)
             s == Line(V)
  <1>1. N = 7 /\ N \in Nat /\ N <= Len(Schema)
    BY SchemaIs
  <1>2. /\ U[0] = Opening
        /\ \A n \in 0..N : U[n] \in Seq(Byte) /\ Len(U[n]) \in Nat
        /\ \A n \in 1..N : U[n] = U[n - 1] \o Piece(Schema[n], V[n])
    <2> HIDE DEF N
    <2> QED
      BY <1>1, UpToGrows DEF N
  <1>3. s = U[N] \o Closing
    BY LineIs
  <1> HIDE DEF U, s
  <1>4. N \in 0..N
    BY <1>1
  <1>5. U[N] \in Seq(Byte) /\ Len(U[N]) \in Nat
    BY <1>2, <1>4
  <1> DEFINE u == U[N]
  <1>6. s \in Seq(Byte) /\ Len(s) = Len(u) + 2 /\ Bears(s, 1, u) /\ s[Len(u) + 1] = Closing[1]
    <2>1. u \in Seq(Byte)
      BY <1>5
    <2> HIDE DEF u
    <2>2. /\ u \o Closing \in Seq(Byte) /\ Len(u \o Closing) = Len(u) + Len(Closing)
          /\ \A i \in 1..Len(Closing) : (u \o Closing)[Len(u) + i] = Closing[i]
      <3>1. Closing \in Seq(Byte)
        BY ClosingIs
      <3> QED
        BY <2>1, <3>1, Joined
    <2>3. Len(Closing) > 0 /\ 1 \in 1..Len(Closing) /\ Len(Closing) = 2
      BY ClosingIs
    <2>4. Bears(u \o Closing, 1, u)
      BY <2>1, <2>3, ClosingIs, RestOfJoined
    <2>5. s = u \o Closing
      BY <1>3 DEF u
    <2> DEFINE c == Closing
    <2> HIDE DEF c
    <2>6. (u \o c)[Len(u) + 1] = c[1]
      BY <2>2, <2>3 DEF c
    <2> QED
      BY <2>2, <2>3, <2>4, <2>5, <2>6 DEF c
  <1>7. Len(s) \in Nat
    BY <1>6, LenProperties
  <1>8. \A n \in 0..N : Bears(s, 1, U[n])
    <2>1. Bears(s, 1, U[N])
      BY <1>6
    <2> HIDE DEF N
    <2> QED
      BY <1>1, <1>7, <2>1, UpToBorne DEF N, U
  <1>9. \A n \in 0..N : Len(U[n]) <= Len(s)
    <2> SUFFICES ASSUME NEW n \in 0..N PROVE Len(U[n]) <= Len(s)
      OBVIOUS
    <2>1. 1 + Len(U[n]) - 1 <= Len(s) /\ Len(U[n]) \in Nat
      BY <1>2, <1>8 DEF Bears
    <2> QED
      BY <1>7, <2>1
  <1>10. ASSUME NEW n \in 1..N
         PROVE  /\ Len(U[n]) = Len(U[n - 1]) + Len(Piece(Schema[n], V[n]))
                /\ Bears(s, Len(U[n - 1]) + 1, Piece(Schema[n], V[n]))
                /\ Piece(Schema[n], V[n])[1] = Comma /\ Len(Piece(Schema[n], V[n])) \in Nat \ {0}
    <2>1. n - 1 \in 0..N /\ n \in 1..Len(Schema) /\ n \in 0..N
      BY <1>1
    <2>2. Entry(Schema[n]) /\ Fits(Schema[n], V[n])
      BY <2>1, EntryIs DEF AllFit
    <2>3. /\ Piece(Schema[n], V[n]) \in Seq(Byte) /\ Piece(Schema[n], V[n])[1] = Comma
          /\ Len(Piece(Schema[n], V[n])) \in Nat \ {0}
      BY <2>2, PieceIs, PieceBegins
    <2> DEFINE w == Piece(Schema[n], V[n])
               x == U[n - 1]
    <2>4. w \in Seq(Byte) /\ x \in Seq(Byte) /\ U[n] = x \o w /\ Len(x) \in Nat
      BY <1>2, <2>1, <2>3
    <2>5. Bears(s, 1, x \o w)
      BY <1>8, <2>1, <2>4
    <2> HIDE DEF w, x
    <2>6. Len(x \o w) = Len(x) + Len(w)
      BY <2>4, Joined
    <2>7. 1 \in Nat \ {0} /\ 1 + Len(x) = Len(x) + 1
      BY <2>4
    <2>8. Bears(s, 1 + Len(x), w)
      BY <1>7, <2>4, <2>5, <2>7, BearsConcat
    <2> QED
      BY <2>3, <2>4, <2>6, <2>7, <2>8 DEF w, x
  <1>11. ASSUME NEW n \in 1..N PROVE Len(U[n]) + 1 <= Len(s) /\ s[Len(U[n]) + 1] \in ValueEnds
    <2>1. CASE n = N
      <3>1. Len(U[n]) + 1 <= Len(s)
        <4>1. Len(U[n]) + 2 = Len(s) /\ Len(U[n]) \in Nat
          BY <1>5, <1>6, <2>1
        <4> QED
          BY <4>1
      <3>2. s[Len(U[n]) + 1] = Brace
        BY <1>6, <2>1, ClosingIs
      <3> QED
        BY <3>1, <3>2 DEF ValueEnds
    <2>2. CASE n # N
      <3>1. n + 1 \in 1..N /\ (n + 1) - 1 = n /\ n \in 0..N
        BY <1>1, <2>2
      <3> DEFINE w == Piece(Schema[n + 1], V[n + 1])
                 p == Len(U[n]) + 1
      <3>2. Bears(s, p, w) /\ w[1] = Comma /\ Len(w) \in Nat \ {0}
        BY <1>10, <3>1
      <3>3. p \in Nat
        BY <1>2, <3>1
      <3> HIDE DEF w, p
      <3>4. 1 \in 1..Len(w) /\ p + 1 - 1 = p
        BY <3>2, <3>3
      <3>5. s[p] = Comma
        BY <3>2, <3>4 DEF Bears
      <3>6. p + Len(w) - 1 <= Len(s)
        BY <3>2 DEF Bears
      <3>7. p <= Len(s)
        BY <1>7, <3>2, <3>3, <3>6
      <3> QED
        BY <3>5, <3>7 DEF ValueEnds, p
    <2> QED
      BY <2>1, <2>2
  <1> QED
    BY <1>2, <1>3, <1>6, <1>7, <1>8, <1>9, <1>10, <1>11 DEF U, s, u

(* A record that is written is read back as it was.                        *)
THEOREM WrittenLine ==
    ASSUME NEW V \in Seq(Value), Len(V) = Len(Schema), AllFit(V, Len(Schema))
    PROVE  Parse(Line(V)) = V
  <1> DEFINE N == Len(Schema)
             U == UpTo(V, N)
             s == Line(V)
             X == FieldTurns(s)
  <1>1. N = 7 /\ N \in Nat
    BY SchemaIs
  <1>2. /\ s \in Seq(Byte) /\ Len(s) \in Nat
        /\ s = U[N] \o Closing
        /\ \A n \in 0..N : U[n] \in Seq(Byte) /\ Len(U[n]) \in Nat /\ Bears(s, 1, U[n])
        /\ \A n \in 1..N : /\ Len(U[n]) = Len(U[n - 1]) + Len(Piece(Schema[n], V[n]))
                           /\ Bears(s, Len(U[n - 1]) + 1, Piece(Schema[n], V[n]))
                           /\ Len(U[n]) + 1 <= Len(s) /\ s[Len(U[n]) + 1] \in ValueEnds
    BY LineShape
  <1>3. U[0] = Opening
    <2>1. N <= Len(Schema)
      BY <1>1
    <2> HIDE DEF N
    <2> QED
      BY <1>1, <2>1, UpToGrows DEF N
  <1>4. /\ X[0] = [at |-> Len(Opening) + 1, values |-> <<>>]
        /\ \A n \in 1..N : X[n] = ParseStep(s, X[n - 1], Schema[n])
    BY <1>2, FieldTurnsAre
  <1>5. Parse(s) = IF HasLiteral(s, 1, Opening) /\ X[N].at # 0 /\ SubSeq(s, X[N].at, Len(s)) = Closing
                   THEN X[N].values ELSE Refused
    BY ParseFieldsIs DEF Parse
  <1> HIDE DEF X, U, s
  <1> DEFINE Good(n) == X[n] = [at |-> Len(U[n]) + 1, values |-> SubSeq(V, 1, n)]
             T == {n \in 0..N : Good(n)}
  <1>6. 0 \in T
    <2>1. SubSeq(V, 1, 0) = <<>>
      BY SubSeqEmpty
    <2>2. Good(0)
      BY <1>3, <1>4, <2>1
    <2> HIDE DEF N
    <2> QED
      BY <1>1, <2>2
  <1>7. ASSUME NEW n \in 0..(N - 1), n \in T PROVE n + 1 \in T
    <2> DEFINE f == Schema[n + 1]
               v == V[n + 1]
               w == Piece(f, v)
               at == Len(U[n]) + 1
               W == SubSeq(V, 1, n)
    <2>1. n + 1 \in 1..N /\ n + 1 \in 0..N /\ n \in 0..N /\ (n + 1) - 1 = n
      BY <1>1
    <2>2. Good(n)
      BY <1>7
    <2>3. Entry(f) /\ Fits(f, v)
      BY <2>1, EntryIs DEF AllFit
    <2>4. /\ Bears(s, at, w) /\ Len(U[n + 1]) = Len(U[n]) + Len(w)
          /\ Len(U[n + 1]) + 1 <= Len(s) /\ s[Len(U[n + 1]) + 1] \in ValueEnds
          /\ Len(U[n]) \in Nat /\ Len(U[n + 1]) \in Nat
      BY <1>2, <2>1
    <2>5. Len(w) \in Nat
      BY <2>3, FitsValue
    <2> HIDE DEF w
    <2>6. at \in Nat \ {0} /\ at + Len(w) = Len(U[n + 1]) + 1 /\ at + Len(w) \in Nat \ {0}
      BY <2>4, <2>5
    <2>7. ~DigitAt(s, at + Len(w))
      <3>1. s[at + Len(w)] \notin DigitSet
        BY <2>4, <2>6, EndsAre
      <3> HIDE DEF at
      <3> QED
        BY <1>2, <2>6, <3>1, DigitAtIs
    <2>8. ParseField(s, at, f) = [at |-> at + Len(w), value |-> v]
      <3> HIDE DEF at
      <3> QED
        <4> HIDE DEF f, v, at
        <4>1. Bears(s, at, Piece(f, v)) /\ ~DigitAt(s, at + Len(Piece(f, v)))
          BY <2>4, <2>7 DEF w
        <4>2. ParseField(s, at, f) = [at |-> at + Len(Piece(f, v)), value |-> v]
          <5>1. s \in Seq(Byte) /\ at \in Nat \ {0} /\ Entry(f) /\ Fits(f, v)
            BY <1>2, <2>3, <2>6
          <5> QED
            BY <4>1, <5>1, BorneField
        <4> QED
          BY <4>2 DEF w
    <2>9. Append(W, v) = SubSeq(V, 1, n + 1)
      <3>1. n + 1 \in 1..Len(V) /\ 1 \in 1..Len(V) /\ n + 1 \in 1..Len(V)
        BY <1>1, <2>1
      <3> QED
        BY <3>1, SubSeqRecursiveSecond, <2>1
    <2> HIDE DEF at, f, v
    <2>10. X[n] = [at |-> at, values |-> W]
      BY <2>2 DEF at
    <2> HIDE DEF W
    <2>11. ParseStep(s, X[n], f) = [at |-> at + Len(w), values |-> Append(W, v)]
      <3> DEFINE st == X[n]
                 q == at + Len(w)
      <3>1. st = [at |-> at, values |-> W] /\ at # 0 /\ q # 0
        BY <2>6, <2>10
      <3>2. ParseField(s, at, f) = [at |-> q, value |-> v]
        BY <2>8
      <3> HIDE DEF st, q
      <3>3. st.at = at /\ st.values = W
        BY <3>1
      <3>4. ParseField(s, st.at, f).at = q /\ ParseField(s, st.at, f).value = v
        BY <3>2, <3>3
      <3>5. ParseStep(s, st, f) = [at |-> q, values |-> Append(W, v)]
        BY <3>1, <3>3, <3>4 DEF ParseStep
      <3> QED
        BY <3>5 DEF st, q
    <2>12. X[n + 1] = ParseStep(s, X[n], f)
      BY <1>4, <2>1 DEF f
    <2>13. Good(n + 1)
      BY <2>6, <2>9, <2>11, <2>12
    <2> QED
      BY <2>1, <2>13
  <1>8. Good(N)
    <2>1. N \in 0..N
      BY <1>1
    <2> HIDE DEF N, T
    <2>2. N \in T
      BY <1>1, <1>6, <1>7, <2>1, Counting
    <2> QED
      BY <2>2 DEF T
  <1>9. SubSeq(V, 1, N) = V
    BY SubSeqFull
  <1>10. HasLiteral(s, 1, Opening)
    <2>1. Bears(s, 1, Opening) /\ 1 \in Nat \ {0}
      BY <1>1, <1>2, <1>3
    <2> QED
      BY <1>2, <2>1, OpeningIs, BearsLiteral
  <1> DEFINE u == U[N]
  <1>11. u \in Seq(Byte) /\ Len(u) \in Nat /\ s = u \o Closing
    BY <1>1, <1>2
  <1>12. X[N] = [at |-> Len(u) + 1, values |-> V]
    BY <1>8, <1>9
  <1> HIDE DEF u
  <1>13. SubSeq(s, Len(u) + 1, Len(s)) = Closing
    <2>1. Len(Closing) > 0
      BY ClosingIs
    <2> QED
      BY <1>11, <2>1, ClosingIs, RestOfJoined
  <1>14. X[N].at = Len(u) + 1 /\ X[N].values = V /\ Len(u) + 1 # 0
    BY <1>11, <1>12
  <1> QED
    BY <1>5, <1>10, <1>13, <1>14 DEF s

-----------------------------------------------------------------------------
(* Where names end in a line.                                              *)

NameEnds(s, q) ==
    q \in 2..(Len(s) - 1) /\ s[q] = Quote /\ s[q + 1] = Colon /\ s[q - 1] \in Words

(* The bytes that tell a name from what surrounds it.                      *)
LEMMA Distinct ==
    /\ Quote \notin Words /\ Slash \notin Words /\ Comma \notin Words /\ Colon \notin Words
    /\ Quote # Slash /\ Quote # Comma /\ Quote # Colon /\ Quote # Brace /\ Comma # Colon /\ Brace # Colon
    /\ Quote \notin DigitSet /\ Quote \notin {"true", "false"} /\ Quote \notin Inner
  <1>1. /\ Quote # Slash /\ Quote # Comma /\ Quote # Colon /\ Quote # Brace
        /\ Comma # Colon /\ Brace # Colon
    BY DEF Quote, Slash, Comma, Colon, Brace
  <1>2. {Quote, Slash, Comma, Colon} \subseteq Marks
    BY DEF Marks, Comma, Colon
  <1>3. Marks \cap Words = {} /\ Marks \cap Letters = {} /\ DigitSet \subseteq Letters
    BY Alphabet, DigitsAre DEF DigitSet
  <1>4. {"true", "false"} \subseteq Words
    BY DEF Words
  <1>5. Quote \notin Inner
    BY DEF Inner
  <1> QED
    BY <1>1, <1>2, <1>3, <1>4, <1>5

(* In a text of pieces a reverse solidus stands before every quotation     *)
(* mark.                                                                   *)
LEMMA PiecesQuotes ==
    ASSUME NEW v \in Composed(Pieces), NEW j \in 1..Len(v), v[j] = Quote
    PROVE  j - 1 \in 1..Len(v) /\ v[j - 1] = Slash
  <1> DEFINE Good(u) == \A i \in 1..Len(u) : u[i] = Quote => i - 1 \in 1..Len(u) /\ u[i - 1] = Slash
             T == {u \in Seq(Byte) : Good(u)}
  <1>1. <<>> \in T
    BY EmptySeq
  <1>2. ASSUME NEW u \in Composed(Pieces), NEW w \in Pieces, u \in T PROVE u \o w \in T
    <2> DEFINE x == u \o w
    <2>1. u \in Seq(Byte) /\ w \in Seq(Byte) /\ Good(u)
      BY <1>2, PieceKinds
    <2>2. /\ x \in Seq(Byte) /\ Len(x) = Len(u) + Len(w) /\ Len(u) \in Nat /\ Len(w) \in Nat
          /\ \A i \in 1..Len(u) : x[i] = u[i]
          /\ \A i \in 1..Len(w) : x[Len(u) + i] = w[i]
      BY <2>1, Joined
    <2> HIDE DEF x
    <2>3. ASSUME NEW i \in 1..Len(w), w[i] = Quote PROVE i = 2 /\ w[1] = Slash
      <3>1. CASE w \in Seq(Inner)
        <4>1. w[i] \in Inner
          BY <3>1, ElementOfSeq
        <4> QED
          BY <2>3, <4>1, Distinct
      <3>2. CASE \E y \in {Slash, Quote} : w = <<Slash, y>>
        <4>1. PICK y \in {Slash, Quote} : w = <<Slash, y>>
          BY <3>2
        <4>2. Len(w) = 2 /\ w[1] = Slash
          BY <4>1
        <4>3. i \in {1, 2}
          BY <4>2
        <4>4. i # 1
          BY <2>3, <4>2, Distinct
        <4> QED
          BY <4>2, <4>3, <4>4
      <3> QED
        BY <3>1, <3>2, PieceKinds
    <2>4. ASSUME NEW i \in 1..Len(x), x[i] = Quote PROVE i - 1 \in 1..Len(x) /\ x[i - 1] = Slash
      <3>1. CASE i <= Len(u)
        <4>1. i \in 1..Len(u)
          BY <2>2, <3>1
        <4>2. i - 1 \in 1..Len(u) /\ u[i - 1] = Slash
          BY <2>1, <2>2, <2>4, <4>1
        <4> QED
          BY <2>2, <4>2
      <3>2. CASE i > Len(u)
        <4> DEFINE h == i - Len(u)
        <4>1. h \in 1..Len(w) /\ Len(u) + h = i
          BY <2>2, <3>2
        <4> HIDE DEF h
        <4>2. w[h] = Quote
          BY <2>2, <2>4, <4>1
        <4>3. h = 2 /\ w[1] = Slash
          BY <2>3, <4>1, <4>2
        <4>4. i - 1 = Len(u) + 1 /\ 1 \in 1..Len(w) /\ i - 1 \in 1..Len(x)
          BY <2>2, <4>1, <4>3
        <4> QED
          BY <2>2, <4>3, <4>4
      <3> QED
        BY <2>2, <3>1, <3>2
    <2> QED
      BY <2>2, <2>4 DEF x
  <1> HIDE DEF T
  <1>3. v \in T
    BY <1>1, <1>2, PiecesText, ComposedInduction
  <1> QED
    BY <1>3 DEF T

(* The bytes of a marker, one by one.                                      *)
LEMMA MarkerBytes ==
    ASSUME NEW name \in Names
    PROVE  /\ Len(Marker(name)) = Len(name) + 4 /\ Len(name) \in 1..2
           /\ Marker(name)[1] = Comma /\ Marker(name)[2] = Quote
           /\ Marker(name)[Len(name) + 3] = Quote /\ Marker(name)[Len(name) + 4] = Colon
           /\ \A k \in 1..Len(name) : Marker(name)[k + 2] = name[k] /\ name[k] \in Words
  <1> DEFINE k0 == Len(name)
             m == Marker(name)
             x == Named(name)
  <1>1. /\ Len(m) = k0 + 4 /\ m[1] = Comma
        /\ \A k \in 1..(k0 + 3) : m[k + 1] = x[k]
    BY MarkerIs
  <1>2. /\ x[1] = Quote /\ x[k0 + 2] = Quote /\ x[k0 + 3] = Colon
        /\ \A k \in 1..k0 : x[k + 1] = name[k]
    BY NamedIs DEF Colon
  <1>3. k0 \in 1..2 /\ name \in Seq(Words)
    BY NamesAre
  <1>4. \A k \in 1..k0 : name[k] \in Words
    BY <1>3, ElementOfSeq
  <1> HIDE DEF k0, m, x
  <1>5. m[2] = Quote
    <2>1. 1 \in 1..(k0 + 3) /\ 1 + 1 = 2
      BY <1>3
    <2> QED
      BY <1>1, <1>2, <2>1
  <1>6. m[k0 + 3] = Quote /\ m[k0 + 4] = Colon
    <2>1. k0 + 2 \in 1..(k0 + 3) /\ (k0 + 2) + 1 = k0 + 3 /\ k0 + 3 \in 1..(k0 + 3) /\ (k0 + 3) + 1 = k0 + 4
      BY <1>3
    <2> QED
      BY <1>1, <1>2, <2>1
  <1>7. ASSUME NEW k \in 1..k0 PROVE m[k + 2] = name[k]
    <2>1. k + 1 \in 1..(k0 + 3) /\ (k + 1) + 1 = k + 2
      BY <1>3
    <2>2. m[(k + 1) + 1] = x[k + 1]
      BY <1>1, <2>1
    <2> QED
      BY <1>2, <2>1, <2>2
  <1> QED
    BY <1>1, <1>2, <1>3, <1>4, <1>5, <1>6, <1>7 DEF k0, m, x

(* The bytes of a text between quotation marks.                            *)
LEMMA QuotedBytes ==
    ASSUME NEW v \in Seq(Byte)
    PROVE  /\ Quoted(v) \in Seq(Byte) /\ Len(Quoted(v)) = Len(v) + 2 /\ Len(v) \in Nat
           /\ Quoted(v)[1] = Quote /\ Quoted(v)[Len(v) + 2] = Quote
           /\ \A k \in 1..Len(v) : Quoted(v)[k + 1] = v[k]
  <1> DEFINE r == Quoted(v)
  <1>1. r \in Seq(Byte) /\ Len(r) = Len(v) + 2 /\ Len(v) \in Nat
    BY QuotedIs, LenProperties
  <1>2. Bears(r, 1, r)
    BY <1>1, BearsSelf
  <1>3. /\ r[1] = Quote /\ Bears(r, 1 + 1, v) /\ r[1 + 1 + Len(v)] = Quote
    <2>1. r \in Seq(Byte) /\ 1 \in Nat \ {0} /\ Bears(r, 1, Quoted(v))
      BY <1>1, <1>2
    <2> HIDE DEF r
    <2> QED
      BY <2>1, QuotedBorne
  <1> HIDE DEF r
  <1>4. ASSUME NEW k \in 1..Len(v) PROVE r[k + 1] = v[k]
    <2>1. r[(1 + 1) + k - 1] = v[k] /\ (1 + 1) + k - 1 = k + 1
      BY <1>1, <1>3 DEF Bears
    <2> QED
      BY <2>1
  <1>5. 1 + 1 + Len(v) = Len(v) + 2
    BY <1>1
  <1> QED
    BY <1>1, <1>3, <1>4, <1>5 DEF r

(* A quotation mark in a value begins it, ends it, or is escaped.          *)
LEMMA RenderedQuotes ==
    ASSUME NEW f, NEW v, Entry(f), Fits(f, v), NEW j \in 1..Len(Rendered(f, v)),
           Rendered(f, v)[j] = Quote
    PROVE  \/ j = 1 \/ j = Len(Rendered(f, v))
           \/ j - 1 \in 1..Len(Rendered(f, v)) /\ Rendered(f, v)[j - 1] = Slash
  <1> DEFINE r == Rendered(f, v)
  <1>1. CASE f.kind = "text"
    <2>1. v \in Composed(Pieces) /\ v \in Seq(Byte) /\ r = Quoted(v)
      BY <1>1, RenderedIs, PiecesText, ComposedGrows DEF Fits
    <2>2. /\ Len(r) = Len(v) + 2 /\ Len(v) \in Nat
          /\ \A k \in 1..Len(v) : r[k + 1] = v[k]
      BY <2>1, QuotedBytes
    <2>3. r[j] = Quote /\ j \in 1..Len(r)
      OBVIOUS
    <2> HIDE DEF r
    <2>4. SUFFICES ASSUME j # 1, j # Len(r) PROVE j - 1 \in 1..Len(r) /\ r[j - 1] = Slash
      BY DEF r
    <2>5. j - 1 \in 1..Len(v) /\ (j - 1) + 1 = j /\ j - 1 \in 1..Len(r)
      BY <2>2, <2>3, <2>4
    <2>6. v[j - 1] = Quote
      BY <2>2, <2>3, <2>5
    <2>7. (j - 1) - 1 \in 1..Len(v) /\ v[(j - 1) - 1] = Slash
      BY <2>1, <2>5, <2>6, PiecesQuotes
    <2>8. ((j - 1) - 1) + 1 = j - 1
      BY <2>5
    <2> QED
      BY <2>2, <2>5, <2>7, <2>8
  <1>2. CASE f.kind = "number"
    <2>1. v \in Nat /\ r = Numeral(v)
      BY <1>2, RenderedIs, DigitsAre DEF Fits
    <2>2. r[j] \in DigitSet
      BY <2>1, NumeralShape
    <2> QED
      BY <2>2, Distinct
  <1>3. CASE f.kind = "flag"
    <2>1. r = <<IF v THEN "true" ELSE "false">> /\ v \in BOOLEAN
      BY <1>3, RenderedIs DEF Fits
    <2>2. r = <<"true">> \/ r = <<"false">>
      BY <2>1
    <2>3. r[j] \in {"true", "false"}
      BY <2>2
    <2> QED
      BY <2>3, Distinct
  <1> QED
    BY <1>1, <1>2, <1>3 DEF Entry

(* One name ends in a field: its own.                                      *)
LEMMA PieceNameEnds ==
    ASSUME NEW s \in Seq(Byte), NEW p \in Nat, NEW f, NEW v, Entry(f), Fits(f, v),
           Bears(s, p + 1, Piece(f, v)), p + Len(Piece(f, v)) + 1 <= Len(s),
           s[p + Len(Piece(f, v)) + 1] \in ValueEnds,
           NEW q \in (p + 1)..(p + Len(Piece(f, v))), NameEnds(s, q)
    PROVE  q = p + Len(f.name) + 3
  <1> DEFINE name == f.name
             k0 == Len(name)
             M == Marker(name)
             r == Rendered(f, v)
             m == Len(M)
             n == Len(r)
             L == Len(s)
  <1>1. /\ M \in Seq(Byte) /\ r \in Seq(Byte) /\ Len(Piece(f, v)) = m + n
        /\ m \in Nat \ {0} /\ n \in Nat \ {0} /\ L \in Nat
    BY PieceIs, LenProperties
  <1>2. /\ m = k0 + 4 /\ k0 \in 1..2 /\ M[1] = Comma /\ M[2] = Quote /\ M[k0 + 3] = Quote
        /\ M[k0 + 4] = Colon /\ \A k \in 1..k0 : M[k + 2] = name[k] /\ name[k] \in Words
    BY MarkerBytes DEF Entry
  <1>3. Bears(s, p + 1, M) /\ Bears(s, (p + 1) + m, r)
    <2>1. p + 1 \in Nat \ {0} /\ Bears(s, p + 1, M \o r)
      BY DEF Piece
    <2> HIDE DEF M, r
    <2> QED
      BY <1>1, <2>1, BearsConcat
  <1>4. /\ \A i \in 1..m : s[p + i] = M[i]
        /\ \A i \in 1..n : s[p + m + i] = r[i]
    <2> HIDE DEF M, r, m, n
    <2>1. \A i \in 1..Len(M) : s[(p + 1) + i - 1] = M[i]
      BY <1>3 DEF Bears
    <2>2. \A i \in 1..Len(r) : s[((p + 1) + m) + i - 1] = r[i]
      BY <1>3 DEF Bears
    <2>3. \A i \in 1..m : (p + 1) + i - 1 = p + i
      BY <1>1
    <2>4. \A i \in 1..n : ((p + 1) + m) + i - 1 = p + m + i
      BY <1>1
    <2> QED
      BY <2>1, <2>2, <2>3, <2>4 DEF m, n
  <1>5. s[q] = Quote /\ s[q + 1] = Colon /\ s[q - 1] \in Words
    BY DEF NameEnds
  <1>6. /\ p + (m + n) + 1 <= L /\ s[p + (m + n) + 1] \in ValueEnds /\ q \in (p + 1)..(p + (m + n))
    BY <1>1
  <1>7. \A j \in 1..n : r[j] = Quote => j = 1 \/ j = n \/ (j - 1 \in 1..n /\ r[j - 1] = Slash)
    BY RenderedQuotes
  <1> HIDE DEF M, r, m, n, L
  <1>8. CASE q <= p + m
    <2> DEFINE h == q - p
    <2>1. h \in 1..m /\ p + h = q /\ p + (h - 1) = q - 1
      BY <1>1, <1>6, <1>8
    <2> HIDE DEF h
    <2>2. M[h] = Quote
      BY <1>4, <1>5, <2>1
    <2>3. h # 1
      BY <1>2, <2>2, Distinct
    <2>4. h # 2
      <3>1. SUFFICES ASSUME h = 2 PROVE FALSE
        OBVIOUS
      <3>2. 1 \in 1..m /\ p + 1 = q - 1
        BY <1>1, <2>1, <3>1
      <3>3. s[q - 1] = Comma
        BY <1>2, <1>4, <3>2
      <3> QED
        BY <1>5, <3>3, Distinct
    <2>5. ASSUME h \in 3..(k0 + 2) PROVE FALSE
      <3>1. h - 2 \in 1..k0 /\ (h - 2) + 2 = h
        BY <1>2, <2>5
      <3>2. M[h] \in Words
        BY <1>2, <3>1
      <3> QED
        BY <2>2, <3>2, Distinct
    <2>6. h # k0 + 4
      BY <1>2, <2>2, Distinct
    <2>7. h = k0 + 3
      <3> HIDE DEF k0
      <3> QED
        BY <1>2, <2>1, <2>3, <2>4, <2>5, <2>6
    <2>8. q = p + k0 + 3
      <3> HIDE DEF k0
      <3> QED
        BY <1>2, <2>1, <2>7
    <2> QED
      BY <2>8
  <1>9. CASE q > p + m
    <2> DEFINE j == q - (p + m)
    <2>1. j \in 1..n /\ p + m + j = q
      BY <1>1, <1>6, <1>9
    <2>2. j - 1 \in 1..n => p + m + (j - 1) = q - 1
      BY <1>1, <2>1
    <2> HIDE DEF j
    <2>3. r[j] = Quote
      BY <1>4, <1>5, <2>1
    <2>4. j # 1
      <3>1. SUFFICES ASSUME j = 1 PROVE FALSE
        OBVIOUS
      <3>2. m \in 1..m /\ p + m = q - 1
        BY <1>1, <2>1, <3>1
      <3>3. s[q - 1] = Colon
        BY <1>2, <1>4, <3>2
      <3> QED
        BY <1>5, <3>3, Distinct
    <2>5. j # n
      <3>1. SUFFICES ASSUME j = n PROVE FALSE
        OBVIOUS
      <3>2. p + (m + n) + 1 = q + 1
        BY <1>1, <2>1, <3>1
      <3>3. Colon \in ValueEnds
        BY <1>5, <1>6, <3>2
      <3> QED
        BY <3>3, Distinct DEF ValueEnds
    <2>6. j - 1 \in 1..n /\ r[j - 1] = Slash
      BY <1>7, <2>1, <2>3, <2>4, <2>5
    <2>7. s[q - 1] = Slash
      BY <1>4, <2>2, <2>6
    <2> QED
      BY <1>5, <2>7, Distinct
  <1> QED
    BY <1>1, <1>6, <1>8, <1>9

(* The names that end in a line are those of its fields, and "schema".     *)
LEMMA LineNameEnds ==
    ASSUME NEW V, AllFit(V, Len(Schema)), NEW q, NameEnds(Line(V), q)
    PROVE  \/ q = 4 /\ Line(V)[3] = "schema"
           \/ \E n \in 1..Len(Schema) :
                q = Len(UpTo(V, Len(Schema))[n - 1]) + Len(Schema[n].name) + 3
  <1> DEFINE N == Len(Schema)
             U == UpTo(V, N)
             s == Line(V)
             P(n) == Len(U[n])
             L == Len(s)
  <1>1. /\ s \in Seq(Byte) /\ L \in Nat /\ L = P(N) + 2
        /\ s = U[N] \o Closing
        /\ \A n \in 0..N : U[n] \in Seq(Byte) /\ P(n) \in Nat /\ Bears(s, 1, U[n]) /\ P(n) <= L
        /\ \A n \in 1..N : /\ U[n] = U[n - 1] \o Piece(Schema[n], V[n])
                           /\ P(n) = P(n - 1) + Len(Piece(Schema[n], V[n]))
                           /\ Bears(s, P(n - 1) + 1, Piece(Schema[n], V[n]))
                           /\ P(n) + 1 <= L /\ s[P(n) + 1] \in ValueEnds
    BY LineShape
  <1>2. N \in Nat /\ N = 7
    BY SchemaIs
  <1>3. U[0] = Opening
    <2>1. N \in Nat /\ N <= Len(Schema) /\ AllFit(V, N)
      BY <1>2
    <2> HIDE DEF N
    <2> QED
      BY <2>1, UpToGrows
  <1>4. P(0) = 6 /\ \A i \in 1..6 : s[i] = Opening[i]
    <2>1. P(0) = 6
      BY <1>3, OpeningIs
    <2>2. Bears(s, 1, Opening)
      BY <1>1, <1>2, <1>3
    <2>3. \A i \in 1..6 : s[1 + i - 1] = Opening[i]
      BY <2>2, OpeningIs DEF Bears
    <2>4. \A i \in 1..6 : 1 + i - 1 = i
      OBVIOUS
    <2> QED
      BY <2>1, <2>3, <2>4
  <1>5. /\ q \in 2..(L - 1) /\ s[q] = Quote /\ s[q + 1] = Colon /\ s[q - 1] \in Words
    BY DEF NameEnds
  <1>6. L = P(N) + 2 /\ s[P(N) + 1] = Brace /\ P(N) \in Nat
    <2>1. U[N] \in Seq(Byte) /\ Closing \in Seq(Byte) /\ Len(Closing) = 2 /\ P(N) \in Nat
      BY <1>1, <1>2, ClosingIs
    <2> DEFINE u == U[N]
    <2>2. u \in Seq(Byte) /\ s = u \o Closing /\ 1 \in 1..Len(Closing)
      BY <1>1, <2>1
    <2> HIDE DEF u, s
    <2>3. (u \o Closing)[Len(u) + 1] = Closing[1]
      <3>1. u \in Seq(Byte) /\ Closing \in Seq(Byte) /\ 1 \in 1..Len(Closing)
        BY <2>1, <2>2
      <3> QED
        BY <3>1, Joined
    <2> QED
      BY <1>1, <2>1, <2>2, <2>3, ClosingIs DEF u
  <1>9. q \in Int
    BY <1>5
  <1> HIDE DEF U, L
  <1>7. CASE q <= 6
    <2>1. q \in {2, 3, 4, 5, 6}
      BY <1>1, <1>5, <1>7
    <2>2. q # 2
      <3>1. q = 2 => s[1] \in Words /\ s[1] = Opening[1]
        BY <1>4, <1>5
      <3> QED
        BY <3>1, OpeningIs
    <2>3. {"schema", "1"} \subseteq Words
      BY DEF Words
    <2>4. q # 3 /\ q # 6
      <3>1. s[3] \in Words /\ s[6] \in Words
        BY <1>4, <2>3, OpeningIs
      <3> QED
        BY <1>5, <3>1, Distinct
    <2>5. q # 5
      <3>1. s[5] # Quote
        BY <1>4, OpeningIs
      <3> QED
        BY <1>5, <3>1
    <2>6. s[3] = "schema"
      BY <1>4, OpeningIs
    <2> QED
      BY <2>1, <2>2, <2>4, <2>5, <2>6
  <1>8. CASE q > 6
    <2>1. q <= P(N)
      <3>1. SUFFICES ASSUME q > P(N) PROVE FALSE
        BY <1>1, <1>5, <1>6
      <3>2. q = P(N) + 1
        BY <1>1, <1>5, <1>6, <3>1
      <3> QED
        BY <1>5, <1>6, <3>2, Distinct
    <2> DEFINE T == {n \in 0..N : q <= P(n) => \E j \in 1..n : P(j - 1) < q /\ q <= P(j)}
    <2>2. 0 \in T
      <3>1. 0 \in 0..N /\ P(0) = 6
        BY <1>2, <1>4
      <3>2. ~(q <= P(0))
        BY <1>8, <1>9, <3>1
      <3> QED
        BY <3>1, <3>2
    <2>3. ASSUME NEW n \in 0..(N - 1), n \in T PROVE n + 1 \in T
      <3>1. n + 1 \in 0..N /\ n + 1 \in 1..(n + 1) /\ (n + 1) - 1 = n /\ n \in 0..N /\ \A j \in 1..n : j \in 1..(n + 1)
        BY <1>2
      <3>2. P(n) \in Nat /\ P(n + 1) \in Nat /\ q \in Nat
        BY <1>1, <1>5, <3>1
      <3>3. SUFFICES ASSUME q <= P(n + 1) PROVE \E j \in 1..(n + 1) : P(j - 1) < q /\ q <= P(j)
        BY <3>1
      <3>4. CASE q <= P(n)
        <4>1. PICK j \in 1..n : P(j - 1) < q /\ q <= P(j)
          BY <2>3, <3>4
        <4> QED
          BY <3>1, <4>1
      <3>5. CASE P(n) < q
        <4>1. P((n + 1) - 1) < q
          BY <3>1, <3>5
        <4> QED
          BY <3>1, <3>3, <4>1
      <3> QED
        BY <3>2, <3>4, <3>5
    <2>4. N \in T
      <3>1. N \in 0..N
        BY <1>2
      <3> HIDE DEF T, N
      <3>2. \A n \in 0..N : n \in T
        BY <1>2, <2>2, <2>3, Counting
      <3> QED
        BY <3>1, <3>2
    <2>5. PICK n \in 1..N : P(n - 1) < q /\ q <= P(n)
      BY <2>1, <2>4
    <2> DEFINE p == P(n - 1)
               f == Schema[n]
               v == V[n]
    <2>6. Entry(f) /\ Fits(f, v) /\ n - 1 \in 0..N /\ n \in 0..N
      BY <1>2, EntryIs DEF AllFit
    <2>7. /\ p \in Nat /\ P(n) \in Nat /\ P(n) = p + Len(Piece(f, v))
          /\ Bears(s, p + 1, Piece(f, v)) /\ P(n) + 1 <= L /\ s[P(n) + 1] \in ValueEnds
      BY <1>1, <2>6
    <2>8. p + Len(Piece(f, v)) + 1 <= Len(s) /\ s[p + Len(Piece(f, v)) + 1] \in ValueEnds
      BY <2>7 DEF L
    <2>9. q \in (p + 1)..(p + Len(Piece(f, v)))
      <3>1. p < q /\ q <= P(n) /\ q \in Int
        BY <1>1, <1>5, <2>5
      <3>2. q \in (p + 1)..P(n)
        <4> DEFINE z == P(n)
        <4>1. z \in Nat /\ p \in Nat /\ p < q /\ q <= z
          BY <2>7, <3>1
        <4> HIDE DEF z, p
        <4>2. q \in (p + 1)..z
          BY <3>1, <4>1
        <4> QED
          BY <4>2 DEF z
      <3> QED
        BY <2>7, <3>2
    <2> HIDE DEF p, f, v, s, N
    <2>10. q = p + Len(f.name) + 3
      BY <1>1, <2>6, <2>7, <2>8, <2>9, PieceNameEnds DEF s
    <2>11. q = Len(U[n - 1]) + Len(Schema[n].name) + 3
      BY <2>10 DEF p, f
    <2> QED
      BY <2>11 DEF U, N
  <1>10. q <= 6 \/ q > 6
    BY <1>9
  <1> QED
    BY <1>7, <1>8, <1>10, Zenon

(* No field is called "schema".                                            *)
LEMMA NoSchema ==
    ASSUME NEW i \in 1..Len(Schema), NEW k \in 1..Len(Schema[i].name)
    PROVE  Schema[i].name[k] # "schema"
  <1> DEFINE Good(n) == \A j \in 1..Len(n) : n[j] # "schema"
  <1>1. Good(<<"identifiant">>) /\ Good(<<"modele">>) /\ Good(<<"laboratoire">>)
        /\ Good(<<"taille">>) /\ Good(<<"detail">>)
    OBVIOUS
  <1>2. Good(<<"identifiant", "_apres">>) /\ Good(<<"taille", "_apres">>)
    OBVIOUS
  <1>3. i \in {1, 2, 3, 4, 5, 6, 7}
    BY SchemaIs
  <1> HIDE DEF Good
  <1>4. Good(Schema[i].name)
    BY <1>1, <1>2, <1>3, SchemaIs
  <1> QED
    BY <1>4 DEF Good

(* Where a field stands in a line.                                         *)
LEMMA FieldPlace ==
    ASSUME NEW V, AllFit(V, Len(Schema)), NEW i \in 1..Len(Schema)
    PROVE  LET s == Line(V)
               p == Len(UpTo(V, Len(Schema))[i - 1])
               name == Schema[i].name
               r == Rendered(Schema[i], V[i])
           IN  /\ s \in Seq(Byte) /\ p \in Nat /\ name \in Names
               /\ r \in Seq(Byte) /\ Len(r) \in Nat \ {0}
               /\ Bears(s, p + 1, Marker(name)) /\ Bears(s, p + 2, Named(name))
               /\ Bears(s, p + Len(name) + 5, r)
               /\ p + Len(name) + 5 + Len(r) <= Len(s)
               /\ s[p + Len(name) + 5 + Len(r)] \in ValueEnds
  <1> DEFINE N == Len(Schema)
             U == UpTo(V, N)
             s == Line(V)
             f == Schema[i]
             v == V[i]
             name == f.name
             k0 == Len(name)
             M == Marker(name)
             m == Len(M)
             r == Rendered(f, v)
             n == Len(r)
             p == Len(U[i - 1])
             L == Len(s)
             P == Piece(f, v)
  <1>1. i - 1 \in 0..N /\ i \in 0..N /\ N \in Nat
    BY SchemaIs
  <1>2. Entry(f) /\ Fits(f, v)
    BY EntryIs DEF AllFit
  <1>3. /\ s \in Seq(Byte) /\ L \in Nat
        /\ \A j \in 0..N : U[j] \in Seq(Byte) /\ Len(U[j]) \in Nat
        /\ \A j \in 1..N : /\ Len(U[j]) = Len(U[j - 1]) + Len(Piece(Schema[j], V[j]))
                           /\ Bears(s, Len(U[j - 1]) + 1, Piece(Schema[j], V[j]))
                           /\ Len(U[j]) + 1 <= L /\ s[Len(U[j]) + 1] \in ValueEnds
    BY LineShape
  <1>4. /\ p \in Nat /\ Len(U[i]) = p + Len(P) /\ Bears(s, p + 1, P)
        /\ Len(U[i]) + 1 <= L /\ s[Len(U[i]) + 1] \in ValueEnds
    BY <1>1, <1>3
  <1>5. /\ M \in Seq(Byte) /\ r \in Seq(Byte) /\ Len(P) = m + n
        /\ m \in Nat \ {0} /\ n \in Nat \ {0}
    BY <1>2, PieceIs
  <1>6. name \in Names
    BY <1>2 DEF Entry
  <1>7. m = k0 + 4 /\ k0 \in 1..2
    BY <1>6, MarkerBytes
  <1>8. \A k \in 1..(k0 + 3) : M[k + 1] = Named(name)[k]
    BY <1>6, MarkerIs
  <1>9. Len(Named(name)) = k0 + 3
    BY <1>6, NamedIs
  <1>10. P = M \o r
    BY DEF Piece
  <1> HIDE DEF U, s, f, v, name, M, r, p, P, L
  <1>11. Bears(s, p + 1, M) /\ Bears(s, (p + 1) + m, r)
    <2>1. p + 1 \in Nat \ {0} /\ Bears(s, p + 1, M \o r) /\ Len(s) \in Nat
      BY <1>3, <1>4, <1>10 DEF L
    <2> QED
      BY <1>5, <2>1, BearsConcat
  <1>12. Bears(s, p + 2, Named(name))
    <2>1. (p + 1) + Len(M) - 1 <= Len(s) /\ \A h \in 1..Len(M) : s[(p + 1) + h - 1] = M[h]
      BY <1>11 DEF Bears
    <2>2. \A h \in 1..(k0 + 3) : h + 1 \in 1..m /\ (p + 1) + (h + 1) - 1 = (p + 2) + h - 1
      BY <1>4, <1>7
    <2>3. \A h \in 1..(k0 + 3) : s[(p + 2) + h - 1] = Named(name)[h]
      BY <1>8, <2>1, <2>2
    <2>4. (p + 2) + (k0 + 3) - 1 <= Len(s)
      BY <1>3, <1>4, <1>7, <2>1 DEF L
    <2> QED
      BY <1>9, <2>3, <2>4 DEF Bears
  <1>13. (p + 1) + m = p + k0 + 5 /\ Len(U[i]) + 1 = p + k0 + 5 + n
    BY <1>4, <1>5, <1>7
  <1> HIDE DEF m, n, k0
  <1>14. Bears(s, p + k0 + 5, r) /\ p + k0 + 5 + n <= L /\ s[p + k0 + 5 + n] \in ValueEnds
    BY <1>4, <1>11, <1>13
  <1>15. /\ s \in Seq(Byte) /\ p \in Nat /\ name \in Names
         /\ r \in Seq(Byte) /\ n \in Nat \ {0}
         /\ Bears(s, p + 1, M) /\ Bears(s, p + 2, Named(name)) /\ Bears(s, p + k0 + 5, r)
         /\ p + k0 + 5 + n <= L /\ s[p + k0 + 5 + n] \in ValueEnds
    BY <1>3, <1>4, <1>5, <1>6, <1>11, <1>12, <1>14
  <1> QED
    BY <1>15, Zenon DEF N, U, s, f, v, name, r, p, L, m, n, k0, M

(* A name of the schema stands at one place of a line.                     *)
LEMMA OnePlace ==
    ASSUME NEW V, AllFit(V, Len(Schema)), NEW i \in 1..Len(Schema), NEW a \in Nat \ {0},
           Bears(Line(V), a, Named(Schema[i].name))
    PROVE  a = Len(UpTo(V, Len(Schema))[i - 1]) + 2
  <1> DEFINE N == Len(Schema)
             U == UpTo(V, N)
             s == Line(V)
             P(n) == Len(U[n - 1])
             name(n) == Schema[n].name
             x == name(i)
             k0 == Len(x)
             q == a + k0 + 1
  <1>1. /\ x \in Names /\ x \in Seq(Words) /\ k0 \in 1..2
    BY EntryIs, NamesAre DEF Entry
  <1>2. /\ Len(Named(x)) = k0 + 3 /\ Named(x)[1] = Quote /\ Named(x)[k0 + 2] = Quote
        /\ Named(x)[k0 + 3] = Colon /\ \A k \in 1..k0 : Named(x)[k + 1] = x[k]
    BY <1>1, NamedIs DEF Colon
  <1>3. /\ a + (k0 + 3) - 1 <= Len(s)
        /\ \A h \in 1..(k0 + 3) : s[a + h - 1] = Named(x)[h]
    BY <1>2 DEF Bears
  <1>4. /\ s \in Seq(Byte) /\ Len(s) \in Nat
    BY LineShape
  <1> HIDE DEF U, s, x, k0
  <1>5. s[a] = Quote /\ s[q] = Quote /\ s[q + 1] = Colon
    <2>1. 1 \in 1..(k0 + 3) /\ k0 + 2 \in 1..(k0 + 3) /\ k0 + 3 \in 1..(k0 + 3)
      BY <1>1
    <2>2. a + 1 - 1 = a /\ a + (k0 + 2) - 1 = q /\ a + (k0 + 3) - 1 = q + 1
      BY <1>1
    <2> HIDE DEF q
    <2> QED
      BY <1>2, <1>3, <2>1, <2>2
  <1>6. ASSUME NEW k \in 1..k0 PROVE s[a + k] = x[k] /\ x[k] \in Words
    <2>1. k + 1 \in 1..(k0 + 3) /\ a + (k + 1) - 1 = a + k
      BY <1>1
    <2>2. x[k] \in Words
      <3>1. x \in Seq(Words) /\ k \in 1..Len(x)
        BY <1>1 DEF k0
      <3> QED
        BY <3>1, ElementOfSeq
    <2> QED
      BY <1>2, <1>3, <2>1, <2>2
  <1>7. NameEnds(s, q)
    <2> DEFINE L == Len(s)
    <2>3. L \in Nat /\ a + (k0 + 3) - 1 <= L
      BY <1>3, <1>4
    <2> HIDE DEF L
    <2>4. k0 \in 1..k0 /\ a + k0 = q - 1 /\ q \in 2..(L - 1)
      BY <1>1, <2>3
    <2>1. k0 \in 1..k0 /\ a + k0 = q - 1 /\ q \in 2..(Len(s) - 1)
      BY <2>4 DEF L
    <2>2. s[q - 1] \in Words
      BY <1>6, <2>1
    <2> QED
      BY <1>5, <2>1, <2>2 DEF NameEnds
  <1>8. \/ q = 4 /\ s[3] = "schema"
        \/ \E n \in 1..N : q = P(n) + Len(name(n)) + 3
    BY <1>7, LineNameEnds DEF U, s
  <1>9. ~(q = 4 /\ s[3] = "schema")
    <2>1. SUFFICES ASSUME q = 4, s[3] = "schema" PROVE FALSE
      OBVIOUS
    <2>2. k0 \in 1..k0 /\ a + k0 = 3
      BY <1>1, <2>1
    <2>3. x[k0] = "schema"
      BY <1>6, <2>1, <2>2
    <2>4. k0 \in 1..Len(Schema[i].name) /\ x[k0] = Schema[i].name[k0]
      BY <2>2 DEF k0, x, name
    <2> QED
      BY <2>3, <2>4, NoSchema
  <1>10. PICK n \in 1..N : q = P(n) + Len(name(n)) + 3
    BY <1>8, <1>9
  <1> DEFINE y == name(n)
             kn == Len(y)
             p == P(n)
  <1>11. /\ y \in Names /\ y \in Seq(Words) /\ kn \in 1..2
    BY EntryIs, NamesAre DEF Entry
  <1>12. p \in Nat /\ Bears(s, p + 1, Marker(y))
    BY FieldPlace DEF s, U
  <1>13. /\ Len(Marker(y)) = kn + 4 /\ Marker(y)[1] = Comma /\ Marker(y)[2] = Quote
         /\ \A k \in 1..kn : Marker(y)[k + 2] = y[k] /\ y[k] \in Words
    BY <1>11, MarkerBytes
  <1>14. \A h \in 1..(kn + 4) : s[(p + 1) + h - 1] = Marker(y)[h]
    BY <1>12, <1>13 DEF Bears
  <1>15. a + k0 + 1 = p + kn + 3
    BY <1>10
  <1> HIDE DEF y, kn, p, q
  <1>16. s[p + 1] = Comma /\ \A k \in 1..kn : s[p + 2 + k] = y[k] /\ y[k] \in Words
    <2>1. 1 \in 1..(kn + 4) /\ (p + 1) + 1 - 1 = p + 1
      BY <1>11, <1>12
    <2>2. \A k \in 1..kn : k + 2 \in 1..(kn + 4) /\ (p + 1) + (k + 2) - 1 = p + 2 + k
      BY <1>11, <1>12
    <2> QED
      BY <1>13, <1>14, <2>1, <2>2
  <1>17. CASE k0 = 1 /\ kn = 2
    <2>1. 1 \in 1..kn /\ p + 2 + 1 = a
      BY <1>12, <1>15, <1>17
    <2>2. s[a] \in Words
      BY <1>16, <2>1
    <2> QED
      BY <1>5, <2>2, Distinct
  <1>18. CASE k0 = 2 /\ kn = 1
    <2>1. p + 1 = a
      BY <1>12, <1>15, <1>18
    <2> QED
      BY <1>5, <1>16, <2>1, Distinct
  <1>19. CASE k0 = kn
    <2>1. a = p + 2 /\ \A k \in 1..k0 : a + k = p + 2 + k
      BY <1>1, <1>12, <1>15, <1>19
    <2>2. \A k \in 1..k0 : x[k] = y[k]
      BY <1>6, <1>16, <1>19, <2>1
    <2>3. x = y
      <3>1. Len(x) = Len(y)
        BY <1>19 DEF k0, kn
      <3>2. \A k \in 1..Len(x) : x[k] = y[k]
        BY <2>2 DEF k0
      <3> QED
        BY <1>1, <1>11, <3>1, <3>2, SeqEqual
    <2>4. i = n
      BY <2>3, SchemaNames DEF x, y
    <2> QED
      BY <2>1, <2>4 DEF p, U
  <1> QED
    BY <1>1, <1>11, <1>17, <1>18, <1>19

(* The least element of a set of numbers.                                  *)
LEMMA MinIs ==
    ASSUME NEW S, S \subseteq Nat, NEW m \in S, \A x \in S : m <= x
    PROVE  Min(S) = m
  <1> DEFINE y == CHOOSE y \in S : \A x \in S : y <= x
  <1>1. y \in S /\ \A x \in S : y <= x
    OBVIOUS
  <1>2. y <= m /\ m <= y /\ y \in Nat /\ m \in Nat
    BY <1>1
  <1>3. Min(S) = y
    BY DEF Min
  <1> HIDE DEF y
  <1>4. y = m
    BY <1>2
  <1> QED
    BY <1>3, <1>4

(* Behind the one place where something stands.                            *)
LEMMA BehindOne ==
    ASSUME NEW s \in Seq(Byte), NEW w \in Seq(Byte), NEW a \in Nat \ {0}, Len(w) \in Nat \ {0},
           Bears(s, a, w), \A b \in Nat \ {0} : Bears(s, b, w) => b = a
    PROVE  Behind(s, w) = a + Len(w)
  <1> DEFINE found == {at \in 1..Len(s) : HasLiteral(s, at, w)}
  <1>1. Len(s) \in Nat
    BY LenProperties
  <1>2. a \in 1..Len(s)
    <2>1. a + Len(w) - 1 <= Len(s)
      BY DEF Bears
    <2> DEFINE L == Len(s)
               n == Len(w)
    <2>2. L \in Nat /\ n \in Nat \ {0} /\ a + n - 1 <= L
      BY <1>1, <2>1
    <2> HIDE DEF L, n
    <2>3. a \in 1..L
      BY <2>2
    <2> QED
      BY <2>3 DEF L
  <1>3. a \in found
    BY <1>2, BearsLiteral
  <1>4. \A b \in found : b = a
    <2>1. ASSUME NEW b \in found PROVE b = a
      <3>1. b \in Nat \ {0}
        BY <1>1
      <3>2. Bears(s, b, w)
        BY <3>1, BearsLiteral
      <3> QED
        BY <3>1, <3>2
    <2> QED
      BY <2>1
  <1>5. found \subseteq Nat
    BY <1>1
  <1>6. Behind(s, w) = IF found = {} THEN 0 ELSE Min(found) + Len(w)
    BY DEF Behind
  <1> HIDE DEF found
  <1>7. Min(found) = a
    <2>1. \A x \in found : a <= x
      BY <1>4
    <2> QED
      BY <1>3, <1>5, <2>1, MinIs
  <1> QED
    BY <1>3, <1>6, <1>7

(* audit_context_hash finds the name of a field at the field itself.       *)
LEMMA BehindName ==
    ASSUME NEW V, AllFit(V, Len(Schema)), NEW i \in 1..Len(Schema)
    PROVE  LET name == Schema[i].name
               p == Len(UpTo(V, Len(Schema))[i - 1])
           IN  /\ Behind(Line(V), Named(name)) = p + Len(name) + 5
               /\ Schema[i].kind = "text" =>
                    Behind(Line(V), Named(name) \o <<Quote>>) = p + Len(name) + 6
  <1> DEFINE name == Schema[i].name
             p == Len(UpTo(V, Len(Schema))[i - 1])
             r == Rendered(Schema[i], V[i])
             s == Line(V)
             w == Named(name)
             z == <<Quote>>
  <1>1. /\ s \in Seq(Byte) /\ p \in Nat /\ name \in Names
        /\ r \in Seq(Byte) /\ Len(r) \in Nat \ {0}
        /\ Bears(s, p + 2, w) /\ Bears(s, p + Len(name) + 5, r)
    BY FieldPlace
  <1>2. /\ w \in Seq(Byte) /\ Len(w) = Len(name) + 3 /\ Len(name) \in 1..2
    BY <1>1, NamedIs, NamesAre
  <1>3. \A b \in Nat \ {0} : Bears(s, b, w) => b = p + 2
    BY OnePlace
  <1>4. z \in Seq(Byte) /\ Len(z) = 1 /\ z[1] = Quote
    BY Alphabet, Single
  <1>5. Schema[i].kind = "text" => r[1] = Quote
    <2>1. SUFFICES ASSUME Schema[i].kind = "text" PROVE r[1] = Quote
      OBVIOUS
    <2>2. Fits(Schema[i], V[i])
      BY DEF AllFit
    <2>3. V[i] \in Seq(Byte) /\ r = Quoted(V[i])
      BY <2>1, <2>2, RenderedIs, PiecesText, ComposedGrows DEF Fits
    <2> QED
      BY <2>3, QuotedBytes
  <1> HIDE DEF name, p, r, s, w, z
  <1>6. p + 2 \in Nat \ {0} /\ (p + 2) + Len(w) = p + Len(name) + 5 /\ Len(w) \in Nat \ {0}
    BY <1>1, <1>2
  <1>7. Behind(s, w) = p + Len(name) + 5
    <2>1. Behind(s, w) = (p + 2) + Len(w)
      BY <1>1, <1>2, <1>3, <1>6, BehindOne
    <2> QED
      BY <1>6, <2>1
  <1>8. ASSUME Schema[i].kind = "text" PROVE Behind(s, w \o z) = p + Len(name) + 6
    <2> DEFINE x == w \o z
    <2>1. x \in Seq(Byte) /\ Len(x) = Len(w) + 1
      <3>1. w \in Seq(Byte) /\ z \in Seq(Byte)
        BY <1>2, <1>4
      <3>2. (w \o z) \in Seq(Byte) /\ Len(w \o z) = Len(w) + Len(z)
        BY <3>1, Joined
      <3> QED
        BY <1>4, <3>2
    <2>2. \A b \in Nat \ {0} : Bears(s, b, w \o z) <=> Bears(s, b, w) /\ Bears(s, b + Len(w), z)
      <3>1. Len(s) \in Nat
        BY <1>1, LenProperties
      <3> QED
        BY <1>2, <1>4, <3>1, BearsConcat
    <2>3. Bears(s, (p + 2) + Len(w), z)
      <3>1. s[p + Len(name) + 5] = Quote /\ p + Len(name) + 5 <= Len(s)
        <4> DEFINE b == p + Len(name) + 5
        <4>1. b \in Nat
          BY <1>1, <1>2
        <4>2. b + Len(r) - 1 <= Len(s) /\ \A h \in 1..Len(r) : s[b + h - 1] = r[h]
          BY <1>1 DEF Bears
        <4> HIDE DEF b
        <4>3. Len(s) \in Nat /\ 1 \in 1..Len(r) /\ b + 1 - 1 = b
          BY <1>1, <4>1, LenProperties
        <4>4. s[b] = Quote
          BY <1>5, <1>8, <4>2, <4>3
        <4> DEFINE L == Len(s)
                   n == Len(r)
        <4>5. L \in Nat /\ n \in Nat \ {0} /\ b + n - 1 <= L
          BY <1>1, <4>2, <4>3
        <4> HIDE DEF L, n
        <4>6. b <= L
          BY <4>1, <4>5
        <4> QED
          BY <4>4, <4>6 DEF b, L
      <3>2. p + Len(name) + 5 \in Int
        BY <1>1, <1>2
      <3> DEFINE b == p + Len(name) + 5
      <3>3. b \in Int /\ s[b] = Quote /\ b <= Len(s) /\ Len(s) \in Nat
        BY <1>1, <3>1, <3>2, LenProperties
      <3> HIDE DEF b
      <3>4. b + 1 - 1 = b /\ \A h \in 1..1 : h = 1
        BY <3>3
      <3>5. Bears(s, b, z)
        BY <1>4, <3>3, <3>4 DEF Bears
      <3> QED
        BY <1>6, <3>5 DEF b
    <2>4. Bears(s, p + 2, x)
      BY <1>1, <1>6, <2>2, <2>3
    <2>5. \A b \in Nat \ {0} : Bears(s, b, x) => b = p + 2
      BY <1>3, <2>2
    <2> HIDE DEF x
    <2>6. Len(x) \in Nat \ {0}
      BY <1>2, <2>1
    <2>7. Behind(s, x) = (p + 2) + Len(x)
      BY <1>1, <1>6, <2>1, <2>4, <2>5, <2>6, BehindOne
    <2>8. (p + 2) + Len(x) = p + Len(name) + 6
      BY <1>1, <1>2, <2>1
    <2> QED
      BY <2>7, <2>8 DEF x
  <1> QED
    BY <1>7, <1>8, Zenon DEF name, p, s, w, z

(* json_scalar_field, with names for its bytes.                            *)
LEMMA SearchScalarIs ==
    ASSUME NEW s, NEW name
    PROVE  SearchScalar(s, name)
             = LET at == Behind(s, Named(name))
                   ends == {e \in at..Len(s) : s[e] \in ValueEnds}
                   end == IF ends = {} THEN Len(s) + 1 ELSE Min(ends)
               IN  IF at = 0 \/ end = at THEN Failure
                   ELSE [at |-> at, value |-> Slice(s, at, end - at)]
  BY Zenon DEF SearchScalar, ValueEnds, Comma, Brace

(* The bytes of a number or of a flag end no field.                        *)
LEMMA ScalarBytes ==
    ASSUME NEW f, NEW v, Entry(f), Fits(f, v), f.kind # "text"
    PROVE  \A j \in 1..Len(Rendered(f, v)) : Rendered(f, v)[j] \notin ValueEnds
  <1> DEFINE r == Rendered(f, v)
  <1>1. CASE f.kind = "number"
    <2>1. v \in Nat /\ r = Numeral(v)
      BY <1>1, RenderedIs, DigitsAre DEF Fits
    <2>2. \A j \in 1..Len(r) : r[j] \in DigitSet
      BY <2>1, NumeralShape
    <2> QED
      BY <2>2, EndsAre
  <1>2. CASE f.kind = "flag"
    <2>1. r = <<IF v THEN "true" ELSE "false">> /\ v \in BOOLEAN
      BY <1>2, RenderedIs DEF Fits
    <2>2. r = <<"true">> \/ r = <<"false">>
      BY <2>1
    <2>3. \A j \in 1..Len(r) : r[j] \in {"true", "false"}
      BY <2>2
    <2> QED
      BY <2>3, EndsAre
  <1> QED
    BY <1>1, <1>2 DEF Entry

(* json_scalar_field finds the numbers and the flags of a line.            *)
LEMMA SearchedScalar ==
    ASSUME NEW V, AllFit(V, Len(Schema)), NEW i \in 1..Len(Schema), Schema[i].kind # "text"
    PROVE  SearchScalar(Line(V), Schema[i].name).value = Rendered(Schema[i], V[i])
  <1> DEFINE name == Schema[i].name
             at == Len(UpTo(V, Len(Schema))[i - 1]) + Len(name) + 5
             r == Rendered(Schema[i], V[i])
             s == Line(V)
             n == Len(r)
             L == Len(s)
             ends == {e \in at..L : s[e] \in ValueEnds}
  <1>1. /\ s \in Seq(Byte) /\ at \in Nat \ {0}
        /\ r \in Seq(Byte) /\ n \in Nat \ {0}
        /\ Bears(s, at, r) /\ at + n <= L /\ s[at + n] \in ValueEnds
    <2>1. /\ s \in Seq(Byte) /\ Len(UpTo(V, Len(Schema))[i - 1]) \in Nat /\ name \in Names
          /\ r \in Seq(Byte) /\ n \in Nat \ {0}
          /\ Bears(s, at, r) /\ at + n <= L /\ s[at + n] \in ValueEnds
      BY FieldPlace
    <2>2. Len(name) \in 1..2
      BY <2>1, NamesAre
    <2> DEFINE p == Len(UpTo(V, Len(Schema))[i - 1])
               k0 == Len(name)
    <2>3. p \in Nat /\ k0 \in 1..2
      BY <2>1, <2>2
    <2> HIDE DEF p, k0
    <2>4. p + k0 + 5 \in Nat \ {0}
      BY <2>3
    <2>5. at \in Nat \ {0}
      BY <2>4 DEF p, k0
    <2> QED
      BY <2>1, <2>5
  <1>2. Behind(s, Named(name)) = at
    BY BehindName
  <1>3. \A j \in 1..n : r[j] \notin ValueEnds
    BY EntryIs, ScalarBytes DEF AllFit
  <1>4. L \in Nat
    BY <1>1, LenProperties
  <1>5. SearchScalar(s, name)
          = IF at = 0 \/ (IF ends = {} THEN L + 1 ELSE Min(ends)) = at THEN Failure
            ELSE [at |-> at, value |-> Slice(s, at, (IF ends = {} THEN L + 1 ELSE Min(ends)) - at)]
    BY <1>2, SearchScalarIs
  <1>6. Slice(s, at, n) = r
    BY <1>1, BearsLiteral
  <1>7. \A j \in 1..n : s[at + j - 1] = r[j]
    BY <1>1 DEF Bears
  <1> HIDE DEF name, at, r, s, n, L
  <1>8. at + n \in ends /\ ends \subseteq Nat
    BY <1>1, <1>4
  <1>9. \A e \in ends : at + n <= e
    <2>1. ASSUME NEW e \in ends, e < at + n PROVE FALSE
      <3> DEFINE j == e - at + 1
      <3>1. j \in 1..n /\ at + j - 1 = e
        BY <1>1, <1>4, <2>1
      <3> HIDE DEF j
      <3>2. s[e] = r[j]
        BY <1>7, <3>1
      <3> QED
        BY <1>3, <3>1, <3>2
    <2>2. \A e \in ends : e \in Nat
      BY <1>8
    <2> HIDE DEF ends
    <2> QED
      BY <1>1, <2>1, <2>2
  <1> HIDE DEF ends
  <1>10. Min(ends) = at + n
    BY <1>8, <1>9, MinIs
  <1>11. at # 0 /\ at + n # at /\ (at + n) - at = n /\ ends # {}
    BY <1>1, <1>8
  <1>12. SearchScalar(s, name) = [at |-> at, value |-> Slice(s, at, n)]
    BY <1>5, <1>10, <1>11
  <1>13. SearchScalar(s, name).value = r
    BY <1>6, <1>12
  <1> QED
    BY <1>13 DEF name, r, s

(* Where json_string_field stands after so many turns.                     *)
SearchTurns(s, p) ==
    CHOOSE g : g = [k \in 0..(Len(s) + 1 - p) |->
                      IF k = 0 THEN [at |-> p, value |-> <<>>, escaped |-> FALSE, closed |-> FALSE]
                      ELSE SearchTurn(s, g[k - 1])]

SearchStates == [at : Nat, value : Seq(Byte), escaped : BOOLEAN, closed : BOOLEAN]

(* A turn of json_string_field keeps the type of its state.                *)
LEMMA SearchTurnTyped ==
    ASSUME NEW s \in Seq(Byte), NEW st \in SearchStates
    PROVE  SearchTurn(s, st) \in SearchStates
  <1> DEFINE b == ByteAt(s, st.at)
  <1>1. /\ st.at \in Nat /\ st.value \in Seq(Byte) /\ st.escaped \in BOOLEAN /\ st.closed \in BOOLEAN
        /\ st = [at |-> st.at, value |-> st.value, escaped |-> st.escaped, closed |-> st.closed]
        /\ Len(s) \in Nat
    BY LenProperties DEF SearchStates
  <1>2. CASE st.closed \/ st.at = 0
    BY <1>2 DEF SearchTurn
  <1>3. CASE ~(st.closed \/ st.at = 0) /\ b = Quote /\ ~st.escaped
    <2>1. SearchTurn(s, st) = [at |-> st.at, value |-> st.value, escaped |-> st.escaped, closed |-> TRUE]
      BY <1>1, <1>3 DEF SearchTurn
    <2> QED
      BY <1>1, <2>1 DEF SearchStates
  <1>4. CASE ~(st.closed \/ st.at = 0) /\ ~(b = Quote /\ ~st.escaped) /\ (b = End \/ Len(st.value) + 1 >= 2 * FieldBytes)
    <2>1. SearchTurn(s, st) = [at |-> 0, value |-> st.value, escaped |-> st.escaped, closed |-> st.closed]
      BY <1>1, <1>4 DEF SearchTurn
    <2> QED
      BY <1>1, <2>1 DEF SearchStates
  <1>5. CASE ~(st.closed \/ st.at = 0) /\ ~(b = Quote /\ ~st.escaped) /\ ~(b = End \/ Len(st.value) + 1 >= 2 * FieldBytes)
    <2>1. SearchTurn(s, st) = [at |-> st.at + 1, value |-> Append(st.value, b),
                               escaped |-> (b = Slash /\ ~st.escaped), closed |-> FALSE]
      BY <1>1, <1>5 DEF SearchTurn
    <2>2. st.at \in 1..Len(s) /\ b = s[st.at]
      BY <1>1, <1>5 DEF ByteAt
    <2>3. b \in Byte
      BY <2>2, ElementOfSeq
    <2> HIDE DEF b
    <2>4. Append(st.value, b) \in Seq(Byte)
      BY <1>1, <2>3, AppendProperties
    <2> QED
      BY <1>1, <2>1, <2>4 DEF SearchStates
  <1> QED
    BY <1>2, <1>3, <1>4, <1>5

(* json_string_field, turn by turn.                                        *)
LEMMA SearchTurnsAre ==
    ASSUME NEW s \in Seq(Byte), NEW p \in 1..Len(s)
    PROVE  /\ \A n \in 0..(Len(s) + 1 - p) : SearchTurns(s, p)[n] \in SearchStates
           /\ SearchTurns(s, p)[0] = [at |-> p, value |-> <<>>, escaped |-> FALSE, closed |-> FALSE]
           /\ \A n \in 1..(Len(s) + 1 - p) : SearchTurns(s, p)[n] = SearchTurn(s, SearchTurns(s, p)[n - 1])
  <1> DEFINE N == (Len(s) + 1 - p)
             S == SearchStates
             first == [at |-> p, value |-> <<>>, escaped |-> FALSE, closed |-> FALSE]
             X == SearchTurns(s, p)
             F == [n \in 1..N |-> [x \in S |-> SearchTurn(s, x)]]
  <1>1. N \in Nat /\ first \in S
    <2>1. Len(s) \in Nat
      BY LenProperties
    <2>2. N \in Nat
      BY <2>1
    <2>3. <<>> \in Seq(Byte) /\ p \in Nat
      BY EmptySeq, <2>1
    <2> QED
      BY <2>2, <2>3 DEF SearchStates
  <1>2. ASSUME NEW n \in 1..N, NEW x \in S PROVE SearchTurn(s, x) \in S
    BY SearchTurnTyped
  <1>3. F \in [1..N -> [S -> S]]
    BY <1>2
  <1>4. PICK g : Follows(g, N, S, first, F)
    <2> HIDE DEF F, S, N, first
    <2> QED
      BY <1>1, <1>3, RecursionExists
  <1>5. \A n \in 1..N : g[n] = SearchTurn(s, g[n - 1])
    <2>1. \A n \in 1..N : n - 1 \in 0..N
      BY <1>1
    <2> HIDE DEF S, N, first
    <2> QED
      BY <1>4, <2>1 DEF Follows
  <1> HIDE DEF F
  <1>6. g = [n \in 0..N |-> IF n = 0 THEN first ELSE SearchTurn(s, g[n - 1])]
    <2>1. \A n \in 0..N : n # 0 => n \in 1..N
      BY <1>1
    <2> HIDE DEF S, N, first
    <2> QED
      BY <1>4, <1>5, <2>1 DEF Follows
  <1>7. X = [n \in 0..N |-> IF n = 0 THEN first ELSE SearchTurn(s, X[n - 1])]
    BY <1>6 DEF SearchTurns
  <1> HIDE DEF X, S, N, first
  <1>8. X[0] = first /\ \A n \in 1..N : X[n] = SearchTurn(s, X[n - 1])
    <2>1. 0 \in 0..N /\ \A n \in 1..N : n \in 0..N /\ n # 0
      BY <1>1
    <2> QED
      BY <1>7, <2>1
  <1>9. \A n \in 0..N : X[n] \in S
    <2> DEFINE T == {n \in 0..N : X[n] \in S}
    <2>1. 0 \in T
      BY <1>1, <1>8
    <2>2. ASSUME NEW n \in 0..(N - 1), n \in T PROVE n + 1 \in T
      <3>1. n + 1 \in 1..N /\ n + 1 \in 0..N /\ (n + 1) - 1 = n
        BY <1>1
      <3>2. X[n + 1] = SearchTurn(s, X[n])
        BY <1>8, <3>1
      <3> QED
        BY <1>2, <2>2, <3>1, <3>2
    <2>3. \A n \in 0..N : n \in T
      <3> HIDE DEF T
      <3> QED
        BY <1>1, <2>1, <2>2, Counting
    <2> QED
      BY <2>3
  <1> QED
    BY <1>8, <1>9 DEF X, S, N, first

(* json_string_field is the last of its turns.                             *)
LEMMA SearchedFromIs ==
    ASSUME NEW s, NEW p
    PROVE  SearchedFrom(s, p)
             = LET last == SearchTurns(s, p)[Len(s) + 1 - p]
               IN  IF last.closed THEN [at |-> last.at, value |-> last.value] ELSE Failure
  BY DEF SearchedFrom, SearchTurns

(* The search has passed the bytes u behind p.                             *)
Passed(s, p, u, e) ==
    SearchTurns(s, p)[Len(u)] = [at |-> p + Len(u), value |-> u, escaped |-> e, closed |-> FALSE]

Inside(s, p, u) == Bears(s, p, u) /\ p + Len(u) <= Len(s) /\ Len(u) < 2 * FieldBytes

(* A text that stands there stands there without its last byte.            *)
LEMMA InsideGrows ==
    ASSUME NEW s \in Seq(Byte), NEW p \in 1..Len(s), NEW u \in Seq(Byte), NEW b \in Byte,
           Inside(s, p, Append(u, b))
    PROVE  /\ Inside(s, p, u) /\ s[p + Len(u)] = b /\ Len(Append(u, b)) = Len(u) + 1
           /\ Len(u) \in Nat /\ Len(s) \in Nat /\ Len(u) + 1 < 2 * FieldBytes
           /\ p + Len(u) + 1 <= Len(s)
  <1> DEFINE x == Append(u, b)
             n == Len(u)
             L == Len(s)
  <1>1. /\ x \in Seq(Byte) /\ Len(x) = n + 1 /\ n \in Nat /\ L \in Nat
        /\ \A k \in 1..n : x[k] = u[k]
        /\ x[n + 1] = b
    BY AppendProperties, LenProperties
  <1>2. /\ \A k \in 1..Len(x) : s[p + k - 1] = x[k]
        /\ p + Len(x) <= L /\ Len(x) < 2 * FieldBytes
    BY DEF Inside, Bears
  <1>3. FieldBytes \in Nat
    BY DigitsAre
  <1> HIDE DEF x, n, L
  <1>4. /\ n + 1 < 2 * FieldBytes /\ p + n + 1 <= L /\ n < 2 * FieldBytes /\ p + n <= L
        /\ p + n - 1 <= L
    BY <1>1, <1>2, <1>3
  <1>5. s[p + n] = b
    <2>1. n + 1 \in 1..Len(x) /\ p + (n + 1) - 1 = p + n
      BY <1>1
    <2>2. s[p + (n + 1) - 1] = x[n + 1]
      BY <1>2, <2>1
    <2>3. s[p + (n + 1) - 1] = b
      BY <1>1, <2>2
    <2> QED
      BY <2>1, <2>3
  <1>6. \A k \in 1..n : s[p + k - 1] = u[k]
    <2> TAKE k \in 1..n
    <2>1. k \in 1..Len(x)
      BY <1>1
    <2>2. s[p + k - 1] = x[k]
      BY <1>2, <2>1
    <2>3. x[k] = u[k]
      BY <1>1
    <2> QED
      BY <2>2, <2>3
  <1>7. Inside(s, p, u)
    BY <1>4, <1>6 DEF Inside, Bears, n, L
  <1>8. /\ s[p + n] = b /\ Len(x) = n + 1 /\ n \in Nat /\ L \in Nat /\ n + 1 < 2 * FieldBytes
        /\ p + n + 1 <= L
    BY <1>1, <1>4, <1>5
  <1> QED
    BY <1>7, <1>8, Zenon DEF x, n, L

(* One more byte.                                                          *)
LEMMA PassedByte ==
    ASSUME NEW s \in Seq(Byte), NEW p \in 1..Len(s), NEW u \in Seq(Byte), NEW b \in Byte,
           NEW e \in BOOLEAN, Inside(s, p, Append(u, b)), Passed(s, p, u, e),
           ~(b = Quote /\ ~e)
    PROVE  Passed(s, p, Append(u, b), b = Slash /\ ~e)
  <1> DEFINE n == Len(u)
             L == Len(s)
             q == p + n
             X == SearchTurns(s, p)
             st == X[n]
             x == Append(u, b)
  <1>1. /\ s[q] = b /\ n \in Nat /\ L \in Nat /\ n + 1 < 2 * FieldBytes
        /\ q + 1 <= L /\ p \in Nat \ {0} /\ Len(x) = n + 1
    BY InsideGrows
  <1>2. st = [at |-> q, value |-> u, escaped |-> e, closed |-> FALSE]
    BY DEF Passed
  <1>3. X[n + 1] = SearchTurn(s, st)
    <2>1. \A k \in 1..(Len(s) + 1 - p) : X[k] = SearchTurn(s, X[k - 1])
      BY SearchTurnsAre
    <2> HIDE DEF X, n, L
    <2>2. n + 1 \in 1..(L + 1 - p) /\ (n + 1) - 1 = n
      BY <1>1
    <2>3. n + 1 \in 1..(Len(s) + 1 - p)
      BY <2>2 DEF L
    <2> QED
      BY <2>1, <2>2, <2>3
  <1>4. q \in Nat \ {0} /\ q <= L
    <2> HIDE DEF n, L
    <2> QED
      BY <1>1
  <1> HIDE DEF q
  <1>5. ByteAt(s, q) = b /\ b # End
    BY <1>1, <1>4, Alphabet DEF ByteAt
  <1>6. ~(n + 1 >= 2 * FieldBytes)
    <2>1. FieldBytes \in Nat
      BY DigitsAre
    <2> HIDE DEF n
    <2> QED
      BY <1>1, <2>1
  <1>7. st.at = q /\ st.value = u /\ st.escaped = e /\ st.closed = FALSE
    BY <1>2
  <1> HIDE DEF st, X
  <1>8. SearchTurn(s, st) = [at |-> q + 1, value |-> Append(u, b), escaped |-> (b = Slash /\ ~e), closed |-> FALSE]
    BY <1>4, <1>5, <1>6, <1>7 DEF SearchTurn
  <1>9. q + 1 = p + Len(x)
    <2> HIDE DEF n, x, L
    <2> QED
      BY <1>1 DEF q
  <1>10. X[Len(x)] = [at |-> p + Len(x), value |-> x, escaped |-> (b = Slash /\ ~e), closed |-> FALSE]
    BY <1>1, <1>3, <1>8, <1>9
  <1> QED
    BY <1>10 DEF Passed, X

(* A text of pieces is passed.                                             *)
LEMMA PassedWord ==
    ASSUME NEW s \in Seq(Byte), NEW p \in 1..Len(s), NEW u \in Seq(Byte), NEW w \in Seq(Inner),
           Inside(s, p, u) => Passed(s, p, u, FALSE)
    PROVE  Inside(s, p, u \o w) => Passed(s, p, u \o w, FALSE)
  <1> DEFINE T == {y \in Seq(Inner) : Inside(s, p, u \o y) => Passed(s, p, u \o y, FALSE)}
  <1>1. <<>> \in T
    <2>1. u \o <<>> = u
      BY ConcatEmptySeq
    <2> QED
      BY <2>1, EmptySeq
  <1>2. ASSUME NEW y \in Seq(Inner), NEW b \in Inner, y \in T PROVE Append(y, b) \in T
    <2>1. y \in Seq(Byte) /\ b \in Byte /\ Append(y, b) \in Seq(Inner)
      BY Alphabet, SeqMonotonic, AppendProperties
    <2>2. u \o Append(y, b) = Append(u \o y, b)
      BY <2>1, ConcatAppend
    <2>3. u \o y \in Seq(Byte)
      BY <2>1, Joined
    <2>4. SUFFICES ASSUME Inside(s, p, Append(u \o y, b)) PROVE Passed(s, p, Append(u \o y, b), FALSE)
      BY <2>1, <2>2
    <2> DEFINE x == u \o y
    <2>5. Inside(s, p, x) => Passed(s, p, x, FALSE)
      BY <1>2
    <2>6. x \in Seq(Byte) /\ Inside(s, p, Append(x, b))
      BY <2>3, <2>4
    <2> HIDE DEF x
    <2>7. Inside(s, p, x)
      BY <2>1, <2>6, InsideGrows
    <2>8. b # Quote /\ b # Slash /\ FALSE \in BOOLEAN
      BY DEF Inner
    <2>9. Passed(s, p, Append(x, b), b = Slash /\ ~FALSE)
      BY <2>1, <2>5, <2>6, <2>7, <2>8, PassedByte
    <2>10. (b = Slash /\ ~FALSE) = FALSE
      BY <2>8
    <2>11. Passed(s, p, Append(x, b), FALSE)
      BY <2>9, <2>10
    <2> QED
      BY <2>11 DEF x
  <1> HIDE DEF T
  <1>3. w \in T
    BY <1>1, <1>2, SeqInduction
  <1> QED
    BY <1>3 DEF T

(* An escape is passed: its second byte ends nothing.                      *)
LEMMA PassedMark ==
    ASSUME NEW s \in Seq(Byte), NEW p \in 1..Len(s), NEW u \in Seq(Byte), NEW b \in {Slash, Quote},
           Inside(s, p, u) => Passed(s, p, u, FALSE)
    PROVE  Inside(s, p, u \o <<Slash, b>>) => Passed(s, p, u \o <<Slash, b>>, FALSE)
  <1> DEFINE x == Append(u, Slash)
  <1>1. Slash \in Byte /\ b \in Byte /\ Slash # Quote
    BY Alphabet
  <1>2. u \o <<Slash, b>> = Append(x, b) /\ x \in Seq(Byte)
    BY <1>1, ConcatPair, AppendProperties
  <1> SUFFICES ASSUME Inside(s, p, Append(x, b)) PROVE Passed(s, p, Append(x, b), FALSE)
    BY <1>2
  <1>3. Inside(s, p, x)
    <2> HIDE DEF x
    <2> QED
      BY <1>1, <1>2, InsideGrows
  <1>4. Inside(s, p, u)
    BY <1>1, <1>3, InsideGrows
  <1>5. Passed(s, p, x, Slash = Slash /\ ~FALSE)
    BY <1>1, <1>3, <1>4, PassedByte
  <1> HIDE DEF x
  <1>6. Passed(s, p, x, TRUE)
    <2>1. (Slash = Slash /\ ~FALSE) = TRUE
      OBVIOUS
    <2> QED
      BY <1>5, <2>1
  <1>7. Passed(s, p, Append(x, b), b = Slash /\ ~TRUE)
    BY <1>1, <1>2, <1>6, PassedByte
  <1>8. (b = Slash /\ ~TRUE) = FALSE
    OBVIOUS
  <1> QED
    BY <1>7, <1>8

(* A text of pieces is passed.                                             *)
LEMMA PassedText ==
    ASSUME NEW s \in Seq(Byte), NEW p \in 1..Len(s), NEW v \in Composed(Pieces), Inside(s, p, v)
    PROVE  Passed(s, p, v, FALSE)
  <1> DEFINE T == {u \in Seq(Byte) : Inside(s, p, u) => Passed(s, p, u, FALSE)}
  <1>1. <<>> \in T
    <2>1. SearchTurns(s, p)[0] = [at |-> p, value |-> <<>>, escaped |-> FALSE, closed |-> FALSE]
      BY SearchTurnsAre
    <2>2. Len(<<>>) = 0 /\ p + 0 = p /\ <<>> \in Seq(Byte)
      BY EmptySeq
    <2> DEFINE z == <<>>
    <2>3. /\ SearchTurns(s, p)[0] = [at |-> p, value |-> z, escaped |-> FALSE, closed |-> FALSE]
          /\ Len(z) = 0 /\ z \in Seq(Byte)
      BY <2>1, <2>2
    <2> HIDE DEF z
    <2>4. Passed(s, p, z, FALSE)
      BY <2>2, <2>3 DEF Passed
    <2> QED
      BY <2>3, <2>4 DEF z
  <1>2. ASSUME NEW u \in Composed(Pieces), NEW w \in Pieces, u \in T PROVE u \o w \in T
    <2>1. u \in Seq(Byte) /\ w \in Seq(Byte)
      BY <1>2, PieceKinds
    <2>2. u \o w \in Seq(Byte)
      BY <2>1, Joined
    <2>3. Inside(s, p, u) => Passed(s, p, u, FALSE)
      BY <1>2
    <2>4. Inside(s, p, u \o w) => Passed(s, p, u \o w, FALSE)
      <3>1. CASE w \in Seq(Inner)
        BY <2>1, <2>3, <3>1, PassedWord
      <3>2. CASE \E y \in {Slash, Quote} : w = <<Slash, y>>
        BY <2>1, <2>3, <3>2, PassedMark
      <3> QED
        BY <3>1, <3>2, PieceKinds
    <2> QED
      BY <2>2, <2>4
  <1> HIDE DEF T
  <1>3. v \in T
    BY <1>1, <1>2, PiecesText, ComposedInduction
  <1> QED
    BY <1>3 DEF T

(* json_string_field finds the text that stands before a quotation mark.   *)
THEOREM SearchedText ==
    ASSUME NEW s \in Seq(Byte), NEW p \in 1..Len(s), NEW v \in Composed(Pieces), Inside(s, p, v),
           s[p + Len(v)] = Quote
    PROVE  SearchedFrom(s, p) = [at |-> p + Len(v), value |-> v]
  <1> DEFINE N == Len(s) + 1 - p
             X == SearchTurns(s, p)
             n == Len(v)
             q == p + n
             done == [at |-> q, value |-> v, escaped |-> FALSE, closed |-> TRUE]
             L == Len(s)
  <1>1. v \in Seq(Byte) /\ n \in Nat /\ L \in Nat /\ p + n <= L /\ p \in 1..L
    BY PiecesText, ComposedGrows, LenProperties DEF Inside
  <1>2. X[n] = [at |-> q, value |-> v, escaped |-> FALSE, closed |-> FALSE]
    BY PassedText DEF Passed
  <1>3. \A k \in 1..N : X[k] = SearchTurn(s, X[k - 1])
    BY SearchTurnsAre
  <1>4. N = L + 1 - p /\ s[q] = Quote
    OBVIOUS
  <1>5. SearchedFrom(s, p) = IF X[N].closed THEN [at |-> X[N].at, value |-> X[N].value] ELSE Failure
    BY SearchedFromIs
  <1>6. done.closed = TRUE /\ done.at = q /\ done.value = v
    OBVIOUS
  <1>7. ByteAt(s, q) = Quote
    <2>1. q <= L
      <3> HIDE DEF n, L
      <3> QED
        BY <1>1
    <2> QED
      BY <1>4, <2>1 DEF ByteAt
  <1>8. q # 0
    <2> HIDE DEF n, L
    <2> QED
      BY <1>1
  <1>9. SearchTurn(s, X[n]) = done
    <2> DEFINE st == X[n]
    <2>1. st = [at |-> q, value |-> v, escaped |-> FALSE, closed |-> FALSE]
      BY <1>2
    <2>2. st.at = q /\ st.value = v /\ st.escaped = FALSE /\ st.closed = FALSE
      BY <2>1
    <2> HIDE DEF st, q
    <2>4. /\ st = [at |-> st.at, value |-> st.value, escaped |-> st.escaped, closed |-> st.closed]
          /\ st.escaped \in BOOLEAN /\ st.closed \in BOOLEAN
      BY <2>1, <2>2
    <2>6. SearchTurn(s, st) = [at |-> st.at, value |-> st.value, escaped |-> st.escaped, closed |-> TRUE]
      BY <1>7, <1>8, <2>2, <2>4 DEF SearchTurn
    <2>5. SearchTurn(s, st) = done
      <3>1. SearchTurn(s, st) = [at |-> q, value |-> v, escaped |-> st.escaped, closed |-> TRUE]
        BY <2>2, <2>6
      <3>2. st.escaped = FALSE
        BY <2>2
      <3> QED
        BY <3>1, <3>2, Zenon
    <2> QED
      BY <2>5 DEF st
  <1>10. SearchTurn(s, done) = done
    <2> HIDE DEF done
    <2> QED
      BY <1>6 DEF SearchTurn
  <1> HIDE DEF N, X, n, q, L, done
  <1>11. N \in Nat /\ n + 1 \in 1..N /\ (n + 1) - 1 = n
    BY <1>1, <1>4
  <1>12. X[n + 1] = done
    BY <1>3, <1>9, <1>11
  <1>13. \A k \in 0..N : k >= n + 1 => X[k] = done
    <2> DEFINE T == {k \in 0..N : k >= n + 1 => X[k] = done}
    <2>1. 0 \in T
      BY <1>1, <1>11
    <2>2. ASSUME NEW k \in 0..(N - 1), k \in T PROVE k + 1 \in T
      <3>1. k + 1 \in 1..N /\ k + 1 \in 0..N /\ (k + 1) - 1 = k
        BY <1>11
      <3>2. X[k + 1] = SearchTurn(s, X[k])
        BY <1>3, <3>1
      <3>3. CASE k >= n + 1
        BY <1>10, <2>2, <3>1, <3>2, <3>3
      <3>4. CASE ~(k >= n + 1)
        <4>1. k + 1 >= n + 1 => k + 1 = n + 1
          BY <1>1, <3>4
        <4> QED
          BY <1>12, <3>1, <4>1
      <3> QED
        BY <3>3, <3>4
    <2> HIDE DEF T
    <2>3. \A k \in 0..N : k \in T
      BY <1>11, <2>1, <2>2, Counting
    <2> QED
      BY <2>3 DEF T
  <1>14. X[N] = done
    BY <1>1, <1>11, <1>13
  <1>15. SearchedFrom(s, p) = [at |-> q, value |-> v]
    BY <1>5, <1>6, <1>14
  <1> QED
    BY <1>15 DEF q, n

(* json_string_field finds the texts of a line that its array can hold.    *)
LEMMA SearchedString ==
    ASSUME NEW V, AllFit(V, Len(Schema)), NEW i \in 1..Len(Schema), Schema[i].kind = "text",
           Len(V[i]) < 2 * FieldBytes
    PROVE  SearchText(Line(V), Schema[i].name).value = V[i]
  <1> DEFINE name == Schema[i].name
             p == Len(UpTo(V, Len(Schema))[i - 1])
             at == p + Len(name) + 6
             r == Rendered(Schema[i], V[i])
             s == Line(V)
             v == V[i]
             n == Len(v)
             L == Len(s)
  <1>1. /\ s \in Seq(Byte) /\ p \in Nat /\ name \in Names
        /\ r \in Seq(Byte) /\ Bears(s, p + Len(name) + 5, r)
        /\ p + Len(name) + 5 + Len(r) <= L
    BY FieldPlace
  <1>2. Len(name) \in 1..2 /\ L \in Nat
    BY <1>1, NamesAre, LenProperties
  <1>3. v \in Composed(Pieces) /\ v \in Seq(Byte) /\ r = Quoted(v) /\ n \in Nat
    <2>1. Fits(Schema[i], V[i])
      BY DEF AllFit
    <2> QED
      BY <2>1, RenderedIs, PiecesText, ComposedGrows, LenProperties DEF Fits
  <1>4. Behind(s, Named(name) \o <<Quote>>) = at
    BY BehindName
  <1>5. n < 2 * FieldBytes
    OBVIOUS
  <1> DEFINE q == p + Len(name) + 5
             k0 == Len(name)
  <1>6. SearchText(s, name) = IF at = 0 THEN Failure ELSE SearchedFrom(s, at)
    BY <1>4 DEF SearchText
  <1>7. Bears(s, q, Quoted(v)) /\ q + Len(Quoted(v)) <= L
    BY <1>1, <1>3
  <1> HIDE DEF name, r, s, v, k0
  <1>8. q \in Nat \ {0} /\ q + 1 = at
    <2>1. k0 \in 1..2
      BY <1>2 DEF k0
    <2> HIDE DEF p
    <2>2. p + k0 + 5 \in Nat \ {0} /\ (p + k0 + 5) + 1 = p + k0 + 6
      BY <1>1, <2>1
    <2> QED
      BY <2>2 DEF k0
  <1> HIDE DEF q, at, p
  <1>9. /\ Len(Quoted(v)) = n + 2
        /\ q + 1 + n <= L /\ Bears(s, q + 1, v) /\ s[q + 1 + n] = Quote
    BY <1>1, <1>3, <1>7, <1>8, QuotedBorne
  <1> HIDE DEF n, L
  <1>10. at \in 1..L /\ at + n <= L /\ at # 0 /\ q + 1 + n = at + n
    BY <1>2, <1>3, <1>8, <1>9
  <1>11. Inside(s, at, v)
    BY <1>5, <1>8, <1>9, <1>10 DEF Inside, n, L
  <1>12. at \in 1..Len(s) /\ s[at + Len(v)] = Quote
    BY <1>9, <1>10 DEF n, L
  <1>13. SearchedFrom(s, at) = [at |-> at + Len(v), value |-> v]
    BY <1>1, <1>3, <1>11, <1>12, SearchedText
  <1>14. SearchText(s, name).value = v
    BY <1>6, <1>10, <1>13
  <1> QED
    BY <1>14 DEF s, name, v

(* The context hashed is that of the record that the line lays out.        *)
THEOREM SearchedContext ==
    ASSUME NEW V, AllFit(V, Len(Schema)),
           \A i \in 1..Len(Schema) : Schema[i].kind = "text" /\ Schema[i].context => Len(V[i]) < 2 * FieldBytes
    PROVE  ContextOf(Line(V)) = ContextExpected(V)
  <1> DEFINE D == {k \in 1..Len(Schema) : Schema[k].context}
             s == Line(V)
  <1>1. ASSUME NEW i \in D
        PROVE  Searched(s, Schema[i]).value = IF Schema[i].kind = "text" THEN V[i] ELSE Rendered(Schema[i], V[i])
    <2>1. i \in 1..Len(Schema) /\ Schema[i].context
      BY <1>1
    <2>2. CASE Schema[i].kind = "text"
      <3>1. Len(V[i]) < 2 * FieldBytes
        BY <2>1, <2>2
      <3>2. SearchText(s, Schema[i].name).value = V[i]
        BY <2>1, <2>2, <3>1, SearchedString
      <3> QED
        BY <2>2, <3>2 DEF Searched
    <2>3. CASE Schema[i].kind # "text"
      <3>1. SearchScalar(s, Schema[i].name).value = Rendered(Schema[i], V[i])
        BY <2>1, <2>3, SearchedScalar
      <3> QED
        BY <2>3, <3>1 DEF Searched
    <2> QED
      BY <2>2, <2>3
  <1> HIDE DEF s
  <1>2. [i \in D |-> Searched(s, Schema[i]).value]
          = [i \in D |-> IF Schema[i].kind = "text" THEN V[i] ELSE Rendered(Schema[i], V[i])]
    <2> HIDE DEF D
    <2> QED
      BY <1>1
  <1> QED
    BY <1>2, Zenon DEF ContextOf, ContextExpected, D, s

-----------------------------------------------------------------------------
(* What the reader of a journal always finds.                              *)

(* Texts are fields of the schema.                                         *)
LEMMA TextOf ==
    ASSUME NEW i \in Texts
    PROVE  i \in 1..Len(Schema) /\ Schema[i].kind = "text"
  BY DEF Texts

(* What is escaped is a record that can be laid out.                       *)
LEMMA EscapedFit ==
    ASSUME \A i \in Texts : fields[i] \in Seq(Byte) /\ Bounded(fields[i]),
           \A i \in 1..Len(Schema) : /\ Schema[i].kind = "number" => fields[i] \in 0..MaxNumber
                                     /\ Schema[i].kind = "flag" => fields[i] \in BOOLEAN
    PROVE  /\ EscapedFields \in Seq(Value) /\ Len(EscapedFields) = Len(Schema)
           /\ AllFit(EscapedFields, Len(Schema))
           /\ \A i \in Texts : /\ Len(EscapedFields[i]) < 2 * FieldBytes
                               /\ Unescaped(EscapedFields[i]) = fields[i]
  <1> DEFINE N == Len(Schema)
             E == EscapedFields
  <1>1. N \in Nat
    BY SchemaIs
  <1>2. E = [i \in 1..N |-> IF i \in Texts THEN Escaped(fields[i], 2 * FieldBytes) ELSE fields[i]]
    BY DEF EscapedFields
  <1> HIDE DEF E
  <1>3. ASSUME NEW i \in Texts
        PROVE  /\ E[i] \in Composed(Pieces) /\ Len(E[i]) < 2 * FieldBytes /\ Unescaped(E[i]) = fields[i]
    <2> DEFINE t == fields[i]
               size == 2 * FieldBytes
               e == Escaped(t, size)
    <2>1. t \in Seq(Byte) /\ Len(t) < FieldBytes /\ Safe(t) /\ Len(t) \in Nat
      BY LenProperties DEF Bounded
    <2>2. size \in Nat /\ FieldBytes \in Nat /\ t \in Composed(SafeWords)
      BY <2>1, DigitsAre, SafeMeansCharacters
    <2>3. E[i] = e
      BY <1>2, TextOf
    <2> HIDE DEF t
    <2>4. 2 * Len(t) < size
      BY <2>1, <2>2
    <2> HIDE DEF size
    <2>5. e \in Composed(Pieces) /\ Len(e) <= 2 * Len(t) /\ Read(e) = [text |-> t, escaped |-> FALSE]
      BY <2>2, <2>4, EscapedReads
    <2>6. Len(e) \in Nat
      BY <2>5, PiecesText, ComposedGrows, LenProperties
    <2> HIDE DEF e
    <2>7. Len(e) < size
      BY <2>1, <2>2, <2>4, <2>5, <2>6
    <2>8. Unescaped(e) = t
      BY <2>5, UnescapedIsRead
    <2> QED
      BY <2>3, <2>5, <2>7, <2>8 DEF size, t
  <1>4. ASSUME NEW i \in 1..N PROVE Fits(Schema[i], E[i])
    <2>1. CASE i \in Texts
      <3>1. Schema[i].kind = "text"
        BY <2>1, TextOf
      <3> QED
        BY <1>3, <2>1, <3>1 DEF Fits
    <2>2. CASE i \notin Texts
      <3>1. Schema[i].kind # "text"
        BY <2>2 DEF Texts
      <3>2. E[i] = fields[i]
        BY <1>2, <2>2
      <3> QED
        BY <3>1, <3>2 DEF Fits
    <2> QED
      BY <2>1, <2>2
  <1>5. \A i \in 1..N : E[i] \in Value
    BY <1>4, EntryIs, FitsValue
  <1>6. DOMAIN E = 1..N /\ E = [i \in 1..N |-> E[i]]
    BY <1>2
  <1>7. E \in Seq(Value) /\ Len(E) = N
    <2> HIDE DEF N
    <2> QED
      BY <1>1, <1>5, <1>6
  <1> QED
    BY <1>3, <1>4, <1>7 DEF E, AllFit

(* Whatever line is accepted is the one spelling of its record.            *)
THEOREM AcceptedIsCanonical ==
    ASSUME NEW s \in Seq(Byte), Parse(s) # Refused
    PROVE  LET read == Parse(s)
           IN  /\ Line(read) = s
               /\ \A i \in Texts : /\ Safe(Unescaped(read[i]))
                                    /\ Escaped(Unescaped(read[i]), Len(read[i]) + 2) = read[i]
               /\ \/ ContextOf(s) = ContextExpected(read)
                  \/ \E i \in Texts : Len(read[i]) >= 2 * FieldBytes
  <1> DEFINE V == Parse(s)
  <1>1. V \in Seq(Value) /\ Len(V) = Len(Schema) /\ AllFit(V, Len(Schema)) /\ Line(V) = s
    BY ParsedLine
  <1> HIDE DEF V
  <1>2. ASSUME NEW i \in Texts
        PROVE  /\ V[i] \in Seq(Byte) /\ Len(V[i]) \in Nat /\ Safe(Unescaped(V[i]))
               /\ Escaped(Unescaped(V[i]), Len(V[i]) + 2) = V[i]
    <2> DEFINE v == V[i]
               size == Len(v) + 2
    <2>1. v \in Composed(Pieces)
      BY <1>1, TextOf DEF AllFit, Fits
    <2>2. v \in Seq(Byte) /\ Len(v) \in Nat
      BY <2>1, PiecesText, ComposedGrows, LenProperties
    <2> HIDE DEF v
    <2>3. size \in Nat /\ Len(v) < size
      BY <2>2
    <2> HIDE DEF size
    <2>4. Read(v).text \in Composed(SafeWords) /\ Escaped(Read(v).text, size) = v
      BY <2>1, <2>3, ReadEscapes
    <2>5. Read(v).text \in Seq(Byte)
      BY <2>4, PiecesText, ComposedGrows
    <2>6. Safe(Read(v).text)
      BY <2>4, <2>5, SafeMeansCharacters
    <2>7. Unescaped(v) = Read(v).text
      BY UnescapedIsRead
    <2> QED
      BY <2>2, <2>4, <2>6, <2>7 DEF v, size
  <1>3. ASSUME ~\E i \in Texts : Len(V[i]) >= 2 * FieldBytes
        PROVE  ContextOf(Line(V)) = ContextExpected(V)
    <2>1. ASSUME NEW i \in 1..Len(Schema), Schema[i].kind = "text"
          PROVE  Len(V[i]) < 2 * FieldBytes
      <3>1. i \in Texts
        BY <2>1 DEF Texts
      <3>2. Len(V[i]) \in Nat /\ ~(Len(V[i]) >= 2 * FieldBytes) /\ FieldBytes \in Nat
        BY <1>2, <1>3, <3>1, DigitsAre
      <3> QED
        BY <3>2
    <2> QED
      BY <1>1, <2>1, SearchedContext
  <1> QED
    BY <1>1, <1>2, <1>3 DEF V

(* What Compose, WriteLine and DamageLine keep up.                         *)
TextInv ==
    /\ DOMAIN fields = 1..Len(Schema)
    /\ \A i \in 1..Len(Schema) : /\ Schema[i].kind = "text" => fields[i] \in Seq(Byte)
                                 /\ Schema[i].kind = "number" => fields[i] \in 0..MaxNumber
                                 /\ Schema[i].kind = "flag" => fields[i] \in BOOLEAN
    /\ line \in Seq(Byte) /\ damaged \in BOOLEAN
    /\ line # <<>> /\ ~damaged =>
         line = Line(EscapedFields) /\ \A i \in Texts : Bounded(fields[i])

(* TextInv is enough for both properties.                                  *)
LEMMA TextInvReads == TextInv => WrittenReadsBack /\ OnlyCanonical
  <1> SUFFICES ASSUME TextInv PROVE WrittenReadsBack /\ OnlyCanonical
    OBVIOUS
  <1>1. OnlyCanonical
    <2>1. SUFFICES ASSUME Parse(line) # Refused
                   PROVE  LET read == Parse(line)
                          IN  /\ Line(read) = line
                              /\ \A i \in Texts : /\ Safe(Unescaped(read[i]))
                                                   /\ Escaped(Unescaped(read[i]), Len(read[i]) + 2) = read[i]
                              /\ \/ ContextOf(line) = ContextExpected(read)
                                 \/ \E i \in Texts : Len(read[i]) >= 2 * FieldBytes
      BY Zenon DEF OnlyCanonical
    <2>2. line \in Seq(Byte)
      BY DEF TextInv
    <2> QED
      BY <2>1, <2>2, AcceptedIsCanonical
  <1>2. WrittenReadsBack
    <2>1. SUFFICES ASSUME line # <<>>, ~damaged
                   PROVE  /\ Parse(line) = EscapedFields
                          /\ \A i \in Texts : Unescaped(Parse(line)[i]) = fields[i]
                          /\ ContextOf(line) = ContextExpected(EscapedFields)
      BY DEF WrittenReadsBack
    <2>2. line = Line(EscapedFields) /\ \A i \in Texts : Bounded(fields[i])
      BY <2>1 DEF TextInv
    <2>3. /\ \A i \in Texts : fields[i] \in Seq(Byte)
          /\ \A i \in 1..Len(Schema) : /\ Schema[i].kind = "number" => fields[i] \in 0..MaxNumber
                                       /\ Schema[i].kind = "flag" => fields[i] \in BOOLEAN
      BY TextOf DEF TextInv
    <2>4. /\ EscapedFields \in Seq(Value) /\ Len(EscapedFields) = Len(Schema)
          /\ AllFit(EscapedFields, Len(Schema))
          /\ \A i \in Texts : /\ Len(EscapedFields[i]) < 2 * FieldBytes
                              /\ Unescaped(EscapedFields[i]) = fields[i]
      BY <2>2, <2>3, EscapedFit
    <2> DEFINE E == EscapedFields
    <2> HIDE DEF E
    <2>5. /\ E \in Seq(Value) /\ Len(E) = Len(Schema) /\ AllFit(E, Len(Schema))
          /\ \A i \in Texts : Len(E[i]) < 2 * FieldBytes /\ Unescaped(E[i]) = fields[i]
          /\ line = Line(E)
      BY <2>2, <2>4 DEF E
    <2>6. Parse(line) = E
      BY <2>5, WrittenLine
    <2>7. ContextOf(line) = ContextExpected(E)
      <3>1. \A i \in 1..Len(Schema) : Schema[i].kind = "text" /\ Schema[i].context => Len(E[i]) < 2 * FieldBytes
        BY <2>5 DEF Texts
      <3> QED
        BY <2>5, <3>1, SearchedContext
    <2> QED
      BY <2>5, <2>6, <2>7 DEF E
  <1> QED
    BY <1>1, <1>2

(* TextInv holds when nothing is composed yet.                             *)
LEMMA TextStarts == TextInit => TextInv
  <1> SUFFICES ASSUME TextInit PROVE TextInv
    OBVIOUS
  <1>1. PICK n \in {0, MaxNumber} : fields = <<<<>>, <<>>, n, <<>>, n = 0, MaxNumber - n, <<>>>>
    BY DEF TextInit
  <1> DEFINE b == n = 0
             m == MaxNumber - n
             e == <<>>
  <1>2. n \in 0..MaxNumber /\ m \in 0..MaxNumber /\ b \in BOOLEAN /\ e \in Seq(Byte)
    BY DigitsAre, EmptySeq
  <1>3. fields = <<e, e, n, e, b, m, e>>
    BY <1>1
  <1> HIDE DEF b, m, e
  <1>4. /\ DOMAIN fields = 1..7 /\ fields[1] = e /\ fields[2] = e /\ fields[3] = n /\ fields[4] = e
        /\ fields[5] = b /\ fields[6] = m /\ fields[7] = e
    BY <1>3
  <1>5. DOMAIN fields = 1..Len(Schema)
    BY <1>4, SchemaIs
  <1>6. ASSUME NEW i \in 1..Len(Schema)
        PROVE  /\ Schema[i].kind = "text" => fields[i] \in Seq(Byte)
               /\ Schema[i].kind = "number" => fields[i] \in 0..MaxNumber
               /\ Schema[i].kind = "flag" => fields[i] \in BOOLEAN
    <2>1. i \in {1, 2, 3, 4, 5, 6, 7}
      BY SchemaIs
    <2>2. CASE i \in {1, 2, 4, 7}
      <3>1. Schema[i].kind = "text" /\ fields[i] = e
        BY <1>4, <2>2, SchemaIs
      <3> QED
        BY <1>2, <3>1
    <2>3. CASE i \in {3, 6}
      <3>1. Schema[i].kind = "number" /\ fields[i] \in {n, m}
        BY <1>4, <2>3, SchemaIs
      <3> QED
        BY <1>2, <3>1
    <2>4. CASE i = 5
      <3>1. Schema[i].kind = "flag" /\ fields[i] = b
        BY <1>4, <2>4, SchemaIs
      <3> QED
        BY <1>2, <3>1
    <2> QED
      BY <2>1, <2>2, <2>3, <2>4
  <1>7. line = <<>> /\ line \in Seq(Byte) /\ damaged \in BOOLEAN
    BY EmptySeq DEF TextInit
  <1> QED
    BY <1>5, <1>6, <1>7 DEF TextInv

(* A damaged line is still a sequence of bytes.                            *)
LEMMA DamagedText ==
    ASSUME NEW s \in Seq(Byte), NEW at \in 1..Len(s), NEW b \in Byte
    PROVE  /\ RemoveAt(s, at) \in Seq(Byte) /\ InsertAt(s, at, b) \in Seq(Byte)
           /\ ReplaceAt(s, at, b) \in Seq(Byte)
  <1>1. Len(s) \in Nat /\ \A i \in 1..Len(s) : s[i] \in Byte
    BY LenProperties
  <1>2. \A m, n \in Int : 1 <= m /\ n <= Len(s) => SubSeq(s, m, n) \in Seq(Byte)
    <2>1. ASSUME NEW m \in Int, NEW n \in Int, 1 <= m, n <= Len(s) PROVE SubSeq(s, m, n) \in Seq(Byte)
      <3>1. \A i \in m..n : s[i] \in Byte
        BY <1>1, <2>1
      <3> QED
        BY <3>1, SubSeqProperties
    <2> QED
      BY <2>1
  <1>3. /\ SubSeq(s, 1, at - 1) \in Seq(Byte) /\ SubSeq(s, at + 1, Len(s)) \in Seq(Byte)
        /\ SubSeq(s, at, Len(s)) \in Seq(Byte)
    <2>1. at - 1 \in Int /\ at + 1 \in Int /\ at \in Int /\ Len(s) \in Int /\ at - 1 <= Len(s) /\ 1 <= at
          /\ 1 <= at + 1
      BY <1>1
    <2> QED
      BY <1>2, <2>1
  <1>4. RemoveAt(s, at) \in Seq(Byte)
    BY <1>3, ConcatProperties DEF RemoveAt
  <1>5. InsertAt(s, at, b) \in Seq(Byte)
    <2> DEFINE u == SubSeq(s, 1, at - 1)
               w == SubSeq(s, at, Len(s))
               z == <<b>>
    <2>1. u \in Seq(Byte) /\ w \in Seq(Byte) /\ z \in Seq(Byte)
      BY <1>3, Single
    <2>2. InsertAt(s, at, b) = u \o z \o w
      BY DEF InsertAt
    <2> HIDE DEF u, w, z
    <2>3. u \o z \in Seq(Byte)
      BY <2>1, Joined
    <2>4. (u \o z) \o w \in Seq(Byte)
      BY <2>1, <2>3, Joined
    <2> QED
      BY <2>2, <2>4
  <1>6. ReplaceAt(s, at, b) \in Seq(Byte)
    BY ExceptSeq DEF ReplaceAt
  <1> QED
    BY <1>4, <1>5, <1>6

(* One more character of a text.                                           *)
LEMMA TextComposed == TextInv /\ Compose => TextInv'
  <1> SUFFICES ASSUME TextInv, Compose PROVE TextInv'
    OBVIOUS
  <1>1. PICK i \in Texts, c \in Characters : fields' = [fields EXCEPT ![i] = @ \o c]
    BY DEF Compose
  <1>2. /\ line' = <<>> /\ damaged' = damaged
    BY DEF Compose
  <1>3. /\ DOMAIN fields' = 1..Len(Schema) /\ i \in 1..Len(Schema) /\ Schema[i].kind = "text"
        /\ fields'[i] = fields[i] \o c
        /\ \A j \in 1..Len(Schema) : j # i => fields'[j] = fields[j]
    BY <1>1, TextOf DEF TextInv
  <1>4. fields'[i] \in Seq(Byte)
    <2>1. fields[i] \in Seq(Byte) /\ c \in Seq(Byte)
      BY <1>3, TextAssumption DEF TextInv
    <2> QED
      BY <1>3, <2>1, Joined
  <1>5. ASSUME NEW j \in 1..Len(Schema)
        PROVE  /\ Schema[j].kind = "text" => fields'[j] \in Seq(Byte)
               /\ Schema[j].kind = "number" => fields'[j] \in 0..MaxNumber
               /\ Schema[j].kind = "flag" => fields'[j] \in BOOLEAN
    <2>1. CASE j = i
      BY <1>3, <1>4, <2>1
    <2>2. CASE j # i
      <3>1. fields'[j] = fields[j]
        BY <1>3, <2>2
      <3> QED
        BY <3>1 DEF TextInv
    <2> QED
      BY <2>1, <2>2
  <1>6. line' \in Seq(Byte) /\ damaged' \in BOOLEAN
    BY <1>2, EmptySeq DEF TextInv
  <1> QED
    BY <1>2, <1>3, <1>5, <1>6 DEF TextInv

(* A line is written.                                                      *)
LEMMA TextWritten == TextInv /\ WriteLine => TextInv'
  <1> SUFFICES ASSUME TextInv, WriteLine PROVE TextInv'
    OBVIOUS
  <1>1. /\ \A i \in Texts : Bounded(fields[i])
        /\ line' = Line(EscapedFields) /\ fields' = fields /\ damaged' = damaged
    BY DEF WriteLine
  <1>2. EscapedFields' = EscapedFields
    BY <1>1 DEF EscapedFields
  <1>3. line' \in Seq(Byte)
    <2>1. AllFit(EscapedFields, Len(Schema))
      BY <1>1, TextOf, EscapedFit DEF TextInv
    <2> QED
      BY <1>1, <2>1, LineShape
  <1> QED
    BY <1>1, <1>2, <1>3 DEF TextInv

(* A line is damaged.                                                      *)
LEMMA TextDamaged == TextInv /\ DamageLine => TextInv'
  <1> SUFFICES ASSUME TextInv, DamageLine PROVE TextInv'
    OBVIOUS
  <1>1. damaged' = TRUE /\ fields' = fields
    BY DEF DamageLine
  <1>2. line \in Seq(Byte)
    BY DEF TextInv
  <1>3. PICK at \in 1..Len(line) :
          \/ line' = RemoveAt(line, at)
          \/ \E byte \in EditBytes : line' \in {InsertAt(line, at, byte), ReplaceAt(line, at, byte)}
    BY DEF DamageLine
  <1>4. line' \in Seq(Byte)
    <2>1. Quote \in Byte /\ EditBytes \subseteq Byte
      BY Alphabet, TextAssumption
    <2>2. CASE line' = RemoveAt(line, at)
      BY <1>2, <2>1, <2>2, DamagedText
    <2>3. CASE \E byte \in EditBytes : line' \in {InsertAt(line, at, byte), ReplaceAt(line, at, byte)}
      BY <1>2, <2>1, <2>3, DamagedText
    <2> QED
      BY <1>3, <2>2, <2>3
  <1> QED
    BY <1>1, <1>4 DEF TextInv

(* TextInv holds in every state of a reader.                               *)
THEOREM TextInvariant == ReaderSpec => []TextInv
  <1>1. ReaderInit => TextInv
    BY TextStarts DEF ReaderInit
  <1>2. TextInv /\ [ReaderNext]_<<scanVars, textVars>> => TextInv'
    <2> SUFFICES ASSUME TextInv, [ReaderNext]_<<scanVars, textVars>> PROVE TextInv'
      OBVIOUS
    <2>1. CASE UNCHANGED textVars
      BY <2>1 DEF textVars, TextInv, EscapedFields
    <2>2. CASE Compose
      BY <2>2, TextComposed
    <2>3. CASE WriteLine
      BY <2>3, TextWritten
    <2>4. CASE DamageLine
      BY <2>4, TextDamaged
    <2> QED
      BY <2>1, <2>2, <2>3, <2>4 DEF ReaderNext, TextNext
  <1> QED
    BY <1>1, <1>2, PTL DEF ReaderSpec

(* Whatever job dfx_write_audit takes, of any length, with any UTF-8,      *)
(* numbers up to any UINT64_MAX and arrays of any size: parse_audit_record *)
(* reads the line back field by field, json_escape lost nothing, and       *)
(* audit_context_hash finds by name what the parser read.                  *)
THEOREM WrittenAlwaysReadsBack == ReaderSpec => []WrittenReadsBack
  BY TextInvariant, TextInvReads, PTL

(* A line is accepted only if it is the one spelling of what was read: no  *)
(* damage, in whatever byte, makes a second spelling of a record or a      *)
(* context hashed that is not the record's.                                *)
THEOREM AlwaysCanonical == ReaderSpec => []OnlyCanonical
  BY TextInvariant, TextInvReads, PTL
=============================================================================
