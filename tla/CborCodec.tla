------------------------------ MODULE CborCodec ------------------------------
(***************************************************************************)
(* The deterministic-CBOR profile of src/internal/cborlite and the field   *)
(* rules of src/internal/dataplane/common.go that every document of the    *)
(* semantic data plane is written, read and validated with.                *)
(*                                                                         *)
(* A document on the wire is a sequence of tokens, one for each CBOR item; *)
(* `width` is the number of bytes that follow the initial byte of its      *)
(* head.  A text is a word of a small vocabulary whose byte length, order  *)
(* and lexical classes are constants; a digest is a natural number, zero   *)
(* being Digest{}.  What Marshal writes and what Unmarshal reads are two   *)
(* layouts of the same document, translated apart from the two functions,  *)
(* and Write and Read interpret them.                                      *)
(***************************************************************************)
EXTENDS Integers, Sequences, FiniteSets, TLC

CONSTANTS
  Lexicon,   \* the words that are compared, in the order of their bytes
  Special    \* [word -> [size, forms]] for the words that are not ordinary

MaxDocumentTokens == 400     \* stands for MaxDocumentBytes, 4 << 20
MaxIdentifier == 512
MaxLocator == 16 * 1024
MaxLexical == 256 * 1024
MaxShortText == 255

(***************************************************************************)
(* Words.  An ordinary word has eight bytes and no lexical class.          *)
(***************************************************************************)
Size(w) == IF w \in DOMAIN Special THEN Special[w].size ELSE 8
Form(w) == IF w \in DOMAIN Special THEN Special[w].forms ELSE {}
Place == [w \in {Lexicon[i] : i \in DOMAIN Lexicon} |-> CHOOSE i \in DOMAIN Lexicon : Lexicon[i] = w]
Precedes(v, w) == Place[v] < Place[w]
ValidUTF8(w) == "malformed" \notin Form(w)

Absent == [present |-> FALSE, value |-> ""]
Present(w) == [present |-> TRUE, value |-> w]
NoDigest == [present |-> FALSE, value |-> 0]
SomeDigest(d) == [present |-> TRUE, value |-> d]
Nothing == [nil |-> TRUE]            \* a nil *TypedValue or *uint64
Just(v) == [just |-> v]

(***************************************************************************)
(* Field rules.                                                            *)
(***************************************************************************)
ValidText(w, max, empty) ==
  (empty \/ w # "") /\ Size(w) <= max /\ ValidUTF8(w) /\ "nul" \notin Form(w)
ValidIdentifier(w) == ValidText(w, MaxIdentifier, FALSE)
ValidUTCSecond(w) == Size(w) = 20 /\ "second" \in Form(w)
Optional(o, Rule(_)) == IF o.present THEN Rule(o.value) ELSE o.value = ""
ValidOptionalIdentifier(o) == Optional(o, ValidIdentifier)
ValidOptionalUTCSecond(o) == Optional(o, ValidUTCSecond)
ValidOptionalDigest(o) == o.present \/ o.value = 0
ValidCurrency(o) == Optional(o, LAMBDA w : Size(w) = 3 /\ "currency" \in Form(w))
ValidLanguage(o) == Optional(o, LAMBDA w : Size(w) \in 2..63 /\ "tag" \in Form(w))
StrictlySorted(s, Before(_, _)) == \A i \in 1..(Len(s) - 1) : Before(s[i], s[i + 1])
SortedUniqueText(s, max) ==
  /\ Len(s) <= max
  /\ \A i \in DOMAIN s : ValidIdentifier(s[i])
  /\ StrictlySorted(s, Precedes)
Less(a, b) == a < b
SortedUniqueDigests(s, max, min) == Len(s) \in min..max /\ StrictlySorted(s, Less)

\* The lexical form each type of TypedValue asks for; text asks for none.
LexicalForm(v) ==
  CASE v.type \in {"boolean", "integer", "decimal", "date", "duration", "uri"} -> v.type \in Form(v.lexical)
    [] v.type = "datetime" -> ValidUTCSecond(v.lexical)
    [] v.type = "identifier" -> ValidIdentifier(v.lexical)
    [] v.type = "text" -> TRUE
TypedTypes == {"boolean", "integer", "decimal", "text", "date", "datetime", "duration", "uri", "identifier"}
ValidTyped(v) ==
  /\ v.type \in TypedTypes
  /\ ValidText(v.lexical, MaxLexical, FALSE)
  /\ ValidOptionalIdentifier(v.unit) /\ ValidCurrency(v.currency)
  /\ LexicalForm(v)

\* The order of the encodings of two typed values: a shorter text first, nil after any text.
TextBefore(v, w) == IF Size(v) # Size(w) THEN Size(v) < Size(w) ELSE Precedes(v, w)
OptionalBefore(o, p) == o.present /\ (p.present => TextBefore(o.value, p.value))
TypedBefore(a, b) ==
  IF a.type # b.type THEN TextBefore(a.type, b.type)
  ELSE IF a.lexical # b.lexical THEN TextBefore(a.lexical, b.lexical)
  ELSE IF a.unit # b.unit THEN OptionalBefore(a.unit, b.unit)
  ELSE OptionalBefore(a.currency, b.currency) /\ a.currency # b.currency

(***************************************************************************)
(* Layouts.  An item names a field, how it is carried, the bounds the      *)
(* reader puts on it and, for a group or a list of groups, the array count *)
(* and the fields inside.                                                  *)
(***************************************************************************)
Item(kind, name) == [kind |-> kind, name |-> name, min |-> 0, max |-> 0, count |-> 0, fields |-> <<>>]
Text(name, max) == [Item("text", name) EXCEPT !.max = max]
OptText(name, max) == [Item("optional text", name) EXCEPT !.max = max]
SetOf(kind, name, min, max) == [Item(kind, name) EXCEPT !.min = min, !.max = max]
TextList(name, max, limit) == [Item("text list", name) EXCEPT !.max = max, !.fields = <<Text("", limit)>>]
Group(name, count, fields) == [Item("group", name) EXCEPT !.count = count, !.fields = fields]
OptGroup(name, count, fields) == [Item("optional group", name) EXCEPT !.count = count, !.fields = fields]
Each(name, min, max, count, fields) ==
  [Item("each", name) EXCEPT !.min = min, !.max = max, !.count = count, !.fields = fields]
Listed(name, count, fields) == Each(name, 0, 0, count, fields)      \* as written, unbounded
Extensions == Item("extensions", "")

(***************************************************************************)
(* Tokens and the encoder.                                                 *)
(***************************************************************************)
HeadWidth(n) == IF n < 24 THEN 0 ELSE IF n <= 255 THEN 1 ELSE IF n <= 65535 THEN 2 ELSE 4
ArrayOf(n) == [array |-> n, width |-> HeadWidth(n)]
UintOf(n) == [uint |-> n, width |-> HeadWidth(n)]
TextOf(w) == [text |-> w, width |-> HeadWidth(Size(w))]
BytesOf(d, n) == [bytes |-> d, size |-> n, width |-> HeadWidth(n)]
Nil == [nil |-> TRUE]
DigestOf(d) == BytesOf(d, 32)

OptionalTextTokens(o) == IF o.present THEN <<TextOf(o.value)>> ELSE <<Nil>>
OptionalDigestTokens(o) == IF o.present THEN <<DigestOf(o.value)>> ELSE <<Nil>>
TextSetTokens(s) == <<ArrayOf(Len(s))>> \o [i \in DOMAIN s |-> TextOf(s[i])]
DigestSetTokens(s) == <<ArrayOf(Len(s))>> \o [i \in DOMAIN s |-> DigestOf(s[i])]
TypedTokens(v) ==
  <<ArrayOf(4), TextOf(v.type), TextOf(v.lexical)>>
    \o OptionalTextTokens(v.unit) \o OptionalTextTokens(v.currency)

RECURSIVE TypedListTokens(_)
TypedListTokens(s) == IF s = <<>> THEN <<>> ELSE TypedTokens(Head(s)) \o TypedListTokens(Tail(s))

RECURSIVE Write(_, _), WriteItem(_, _), WriteEach(_, _, _)
Write(fields, doc) ==
  IF fields = <<>> THEN <<>> ELSE WriteItem(Head(fields), doc) \o Write(Tail(fields), doc)
WriteEach(item, list, i) ==
  IF i > Len(list) THEN <<>>
  ELSE <<ArrayOf(item.count)>> \o Write(item.fields, list[i]) \o WriteEach(item, list, i + 1)
WriteItem(item, doc) ==
  IF item.kind = "extensions" THEN <<ArrayOf(0)>>
  ELSE LET v == doc[item.name] IN
    CASE item.kind = "text" -> <<TextOf(v)>>
      [] item.kind = "optional text" -> OptionalTextTokens(v)
      [] item.kind = "uint" -> <<UintOf(v)>>
      [] item.kind = "bool" -> <<UintOf(IF v THEN 1 ELSE 0)>>
      [] item.kind = "optional uint" -> IF v = Nothing THEN <<Nil>> ELSE <<UintOf(v.just)>>
      [] item.kind = "digest" -> <<DigestOf(v)>>
      [] item.kind = "optional digest" -> OptionalDigestTokens(v)
      [] item.kind \in {"text set", "text list"} -> TextSetTokens(v)
      [] item.kind = "digest set" -> DigestSetTokens(v)
      [] item.kind = "typed" -> TypedTokens(v)
      [] item.kind = "typed list" -> <<ArrayOf(Len(v))>> \o TypedListTokens(v)
      [] item.kind = "optional typed" -> IF v = Nothing THEN <<Nil>> ELSE TypedTokens(v.just)
      [] item.kind = "group" -> <<ArrayOf(item.count)>> \o Write(item.fields, v)
      [] item.kind = "optional group" ->
           IF v = Nothing THEN <<Nil>> ELSE <<ArrayOf(item.count)>> \o Write(item.fields, v.just)
      [] item.kind = "each" -> <<ArrayOf(Len(v))>> \o WriteEach(item, v, 1)

(***************************************************************************)
(* The decoder.  Each operator looks at the token at position `at` and     *)
(* answers the value and the next position, or a refusal.                  *)
(***************************************************************************)
Refused == [ok |-> FALSE]
Got(value, at) == [ok |-> TRUE, value |-> value, at |-> at]
Here(tokens, at, major) == at <= Len(tokens) /\ major \in DOMAIN tokens[at]
\* Mutant of CanonicalHead: a length may be carried in more bytes than it needs.
CanonicalHeadAny(t, n) == TRUE
CanonicalHead(t, n) == t.width = HeadWidth(n)
TryNil(tokens, at) == Here(tokens, at, "nil")

ReadArray(tokens, at, counts) ==
  IF Here(tokens, at, "array") /\ CanonicalHead(tokens[at], tokens[at].array) /\ tokens[at].array \in counts
  THEN Got(tokens[at].array, at + 1) ELSE Refused
ReadUint(tokens, at) ==
  IF Here(tokens, at, "uint") /\ CanonicalHead(tokens[at], tokens[at].uint)
  THEN Got(tokens[at].uint, at + 1) ELSE Refused
ReadText(tokens, at, max) ==
  IF /\ Here(tokens, at, "text")
     /\ CanonicalHead(tokens[at], Size(tokens[at].text))
     /\ Size(tokens[at].text) <= max
     /\ ValidUTF8(tokens[at].text)
  THEN Got(tokens[at].text, at + 1) ELSE Refused
ReadDigest(tokens, at) ==
  IF Here(tokens, at, "bytes") /\ CanonicalHead(tokens[at], tokens[at].size) /\ tokens[at].size = 32
  THEN Got(tokens[at].bytes, at + 1) ELSE Refused

\* What is read after r; one answer turned into another; nil answered by `none`, anything else by a reader.
AndThen(r, Rest(_)) == IF r.ok THEN Rest(r) ELSE Refused
Mapped(r, F(_)) == AndThen(r, LAMBDA got : Got(F(got.value), got.at))
Checked(r, Rule(_)) == IF r.ok /\ Rule(r.value) THEN r ELSE Refused
OrNil(tokens, at, none, r) == IF TryNil(tokens, at) THEN Got(none, at + 1) ELSE r
ReadOptionalText(tokens, at, max) == OrNil(tokens, at, Absent, Mapped(ReadText(tokens, at, max), Present))
\* Mutant of ReadOptionalDigest: presence is taken from the value, so that a
\* present digest of zero bytes comes back as none.
ReadOptionalDigestByValue(tokens, at) ==
  OrNil(tokens, at, NoDigest, Mapped(ReadDigest(tokens, at), LAMBDA d : IF d = 0 THEN NoDigest ELSE SomeDigest(d)))
ReadOptionalDigest(tokens, at) == OrNil(tokens, at, NoDigest, Mapped(ReadDigest(tokens, at), SomeDigest))

TypedItems == <<Text("type", MaxIdentifier), Text("lexical", MaxLexical),
                OptText("unit", MaxIdentifier), OptText("currency", 3)>>
RECURSIVE ReadFields(_, _, _, _), ReadItem(_, _, _), ReadRun(_, _, _, _, _)
\* `left` more elements, each read as `item` is.
ReadRun(item, tokens, at, left, got) ==
  IF left = 0 THEN Got(got, at)
  ELSE AndThen(ReadItem(item, tokens, at),
               LAMBDA r : ReadRun(item, tokens, r.at, left - 1, Append(got, r.value)))
ReadMany(item, tokens, at, counts) ==
  AndThen(ReadArray(tokens, at, counts), LAMBDA n : ReadRun(item, tokens, n.at, n.value, <<>>))
ReadTextSet(tokens, at, min, max) ==
  Checked(ReadMany(Text("", MaxIdentifier), tokens, at, min..max), LAMBDA s : SortedUniqueText(s, max))
ReadDigestSet(tokens, at, min, max) ==
  Checked(ReadMany(Item("digest", ""), tokens, at, min..max), LAMBDA s : SortedUniqueDigests(s, max, min))
ReadGroup(tokens, at, count, fields) ==
  AndThen(ReadArray(tokens, at, {count}), LAMBDA n : ReadFields(fields, tokens, n.at, <<>>))
ReadTyped(tokens, at) == Checked(ReadGroup(tokens, at, 4, TypedItems), ValidTyped)
ReadItem(item, tokens, at) ==
  CASE item.kind = "text" -> ReadText(tokens, at, item.max)
    [] item.kind = "optional text" -> ReadOptionalText(tokens, at, item.max)
    [] item.kind = "uint" -> ReadUint(tokens, at)
    [] item.kind = "bool" -> Mapped(Checked(ReadUint(tokens, at), LAMBDA n : n <= 1), LAMBDA n : n = 1)
    [] item.kind = "optional uint" -> OrNil(tokens, at, Nothing, Mapped(ReadUint(tokens, at), Just))
    [] item.kind = "digest" -> ReadDigest(tokens, at)
    [] item.kind = "optional digest" -> ReadOptionalDigest(tokens, at)
    [] item.kind = "text set" -> ReadTextSet(tokens, at, item.min, item.max)
    [] item.kind = "text list" -> ReadMany(item.fields[1], tokens, at, item.min..item.max)
    [] item.kind = "digest set" -> ReadDigestSet(tokens, at, item.min, item.max)
    [] item.kind = "typed" -> ReadTyped(tokens, at)
    [] item.kind = "typed list" -> ReadMany(Item("typed", ""), tokens, at, item.min..item.max)
    [] item.kind = "optional typed" -> OrNil(tokens, at, Nothing, Mapped(ReadTyped(tokens, at), Just))
    [] item.kind = "group" -> ReadGroup(tokens, at, item.count, item.fields)
    [] item.kind = "optional group" ->
         OrNil(tokens, at, Nothing, Mapped(ReadGroup(tokens, at, item.count, item.fields), Just))
    [] item.kind = "each" ->
         ReadMany(Group("", item.count, item.fields), tokens, at, item.min..item.max)
ReadFields(fields, tokens, at, doc) ==
  IF fields = <<>> THEN Got(doc, at)
  ELSE IF Head(fields).kind = "extensions"
       THEN AndThen(ReadArray(tokens, at, {0}), LAMBDA n : ReadFields(Tail(fields), tokens, n.at, doc))
       ELSE AndThen(ReadItem(Head(fields), tokens, at),
                    LAMBDA r : ReadFields(Tail(fields), tokens, r.at, doc @@ (Head(fields).name :> r.value)))

(***************************************************************************)
(* Whole documents: the length is checked first, the top array names the   *)
(* number of fields, no byte may follow, and the document is validated.    *)
(***************************************************************************)
Bounded(tokens) == Len(tokens) \in 1..MaxDocumentTokens
Encoded(count, fields, doc) == <<ArrayOf(count)>> \o Write(fields, doc)
Decoded(tokens, count, fields, Valid(_)) ==
  IF ~Bounded(tokens) THEN Refused
  ELSE AndThen(ReadGroup(tokens, 1, count, fields),
               LAMBDA r : IF r.at = Len(tokens) + 1 /\ Valid(r.value) THEN [ok |-> TRUE, doc |-> r.value] ELSE Refused)
==============================================================================
