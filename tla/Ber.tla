--------------------------------- MODULE Ber ---------------------------------
(***************************************************************************)
(* The BER encoder and decoder of cdr/asn (ber_marshal.go,                 *)
(* ber_unmarshal.go).  Go's reflection is replaced by a description of the *)
(* type, and a value of a type is                                          *)
(*   "int", "enum"        an integer                                       *)
(*   "bool", "null"       a Boolean                                        *)
(*   "octets", "string"   a sequence of octets                             *)
(*   "bits"               [Bytes |-> octets, BitLength |-> number]         *)
(*   "struct"             for each field <<>>, nil, or <<value>>           *)
(*   "choice"             [Present |-> number of the field, Value]         *)
(*   "slice"              a sequence of values                             *)
(* The wrapper types with a field "Value" or "List" are the type they      *)
(* wrap.  OBJECT IDENTIFIER and open types, which the code refuses, and    *)
(* explicit tags, which no CDR type has, are left out.  The integers are   *)
(* those TLC has, 32 bits of the code's 64.                                *)
(***************************************************************************)
EXTENDS Integers, SequencesExt

TagBoolean == 1
TagInteger == 2
TagBitString == 3
TagOctetString == 4
TagNull == 5
TagEnumerated == 10
TagUTF8String == 12
TagSequence == 16
TagSet == 17
TagIA5String == 22
TagGraphicString == 25

ClassUniversal == 0
ClassContextSpecific == 2

-----------------------------------------------------------------------------
(* Types, and the parameters of a field's "ber:" tag. *)

NoTag == -1
Plain == [tagNumber |-> NoTag, set |-> FALSE, stringType |-> 0]

Integer == [kind |-> "int"]
EnumeratedType == [kind |-> "enum"]
Bool == [kind |-> "bool"]
NullType == [kind |-> "null"]
OctetStringType == [kind |-> "octets"]
BitStringType == [kind |-> "bits"]
StringType == [kind |-> "string"]
Struct(fields) == [kind |-> "struct", fields |-> fields]
Choice(fields) == [kind |-> "choice", fields |-> fields]
Slice(type) == [kind |-> "slice", type |-> type]

Field(n, type) == [type |-> type, params |-> [Plain EXCEPT !.tagNumber = n]]

-----------------------------------------------------------------------------
(* Encoding. *)

\* int64Encoder: two's complement, as short as it can be.
Int64(n) ==
    LET Octets[i \in Int] ==
            IF i \in -128 .. 127 THEN <<i % 256>> ELSE Append(Octets[i \div 256], i % 256)
    IN Octets[n]

Digits(n, base) ==
    LET D[i \in Nat] == IF i < base THEN <<i>> ELSE Append(D[i \div base], i % base)
    IN D[n]

\* The identifier octets: numbers above 30 in base 128, each octet but the
\* last with its top bit set.
Identifier(class, constructed, number) ==
    LET first == 64 * class + IF constructed THEN 32 ELSE 0
        digits == Digits(number, 128)
    IN IF number <= 30 THEN <<first + number>>
       ELSE <<first + 31>> \o
            [i \in DOMAIN digits |-> IF i < Len(digits) THEN digits[i] + 128 ELSE digits[i]]

LengthOctets(n) ==
    IF n <= 127 THEN <<n>>
    ELSE LET digits == Digits(n, 256) IN <<128 + Len(digits)>> \o digits

\* appendTagAndLen, and the contents after it.
TagLenValue(class, constructed, number, contents) ==
    Identifier(class, constructed, number) \o LengthOctets(Len(contents)) \o contents

UniversalTag(type, params) ==
    CASE type.kind = "bool" -> TagBoolean
      [] type.kind = "int" -> TagInteger
      [] type.kind = "enum" -> TagEnumerated
      [] type.kind = "bits" -> TagBitString
      [] type.kind = "octets" -> TagOctetString
      [] type.kind = "null" -> TagNull
      [] type.kind = "string" -> params.stringType
      [] OTHER -> IF params.set THEN TagSet ELSE TagSequence

Constructed(type) == type.kind \in {"struct", "choice", "slice"}

BitString(bits) == <<8 - (bits.BitLength % 8)>> \o bits.Bytes

\* The parameters that the elements of a slice are encoded with.
ElementParams(params) == [params EXCEPT !.tagNumber = NoTag]

\* What a value is made of: for each field of a structure, each element of a
\* slice and the alternative a choice has its value, its type and its
\* parameters; <<>> for a field that is absent.
Member(value, type, params) == <<[value |-> value, type |-> type, params |-> params]>>

Members(value, type, params) ==
    CASE type.kind = "struct" ->
           [i \in DOMAIN type.fields |->
              IF value[i] = <<>> THEN <<>>
              ELSE Member(value[i][1], type.fields[i].type, type.fields[i].params)]
      [] type.kind = "slice" ->
           [i \in DOMAIN value |-> Member(value[i], type.type, ElementParams(params))]
      [] type.kind = "choice" ->
           LET alternative == type.fields[value.Present]
           IN <<Member(value.Value, alternative.type, alternative.params)>>
      [] OTHER -> <<>>

\* The contents of a field, and the tag and the length before them.
Contents(value, type, parts) ==
    CASE type.kind = "bool" -> IF value THEN <<255>> ELSE <<0>>
      [] type.kind \in {"int", "enum"} -> Int64(value)
      [] type.kind = "bits" -> BitString(value)
      [] type.kind \in {"octets", "string"} -> value
      [] OTHER -> FlattenSeq(parts)

Tagged(type, params, contents) ==
    IF params.tagNumber # NoTag
    THEN TagLenValue(ClassContextSpecific, Constructed(type), params.tagNumber, contents)
    ELSE IF type.kind = "choice" THEN contents
    ELSE TagLenValue(ClassUniversal, Constructed(type), UniversalTag(type, params), contents)

\* makeField, for values it takes (see Outcome), with what it makes of the members.
MakeField(Made(_, _, _), value, type, params) ==
    LET members == Members(value, type, params)
    IN Tagged(type, params, Contents(value, type,
           [i \in DOMAIN members |->
              IF members[i] = <<>> THEN <<>>
              ELSE Made(members[i][1].value, members[i][1].type, members[i][1].params)]))

\* Bound: types have up to 7 levels, as CHFRecord does.
Marshal1(value, type, params) == MakeField(LAMBDA v, t, p : <<>>, value, type, params)
Marshal2(value, type, params) == MakeField(Marshal1, value, type, params)
Marshal3(value, type, params) == MakeField(Marshal2, value, type, params)
Marshal4(value, type, params) == MakeField(Marshal3, value, type, params)
Marshal5(value, type, params) == MakeField(Marshal4, value, type, params)
Marshal6(value, type, params) == MakeField(Marshal5, value, type, params)
Marshal(value, type, params) == MakeField(Marshal6, value, type, params)

\* What comes of encoding a value, of what comes of its members.  A CHOICE of
\* nothing is an error, and a panic where the CHOICE has a tag: the error is
\* printed and the missing value used.  A structure of absent fields has no
\* value to take the length of, which is a panic too.
OutcomeOfMembers(value, type, params, outcomes) ==
    LET first == IF \A i \in DOMAIN outcomes : outcomes[i] = "ok" THEN "ok"
                 ELSE SelectSeq(outcomes, LAMBDA o : o # "ok")[1]
    IN IF type.kind = "choice" /\ value.Present = 0 THEN "error"
       ELSE IF type.kind = "struct" /\ \A i \in DOMAIN value : value[i] = <<>> THEN "panic"
       ELSE IF type.kind = "choice" /\ params.tagNumber # NoTag /\ first = "error" THEN "panic"
       ELSE first

OutcomeOf(Inner(_, _, _), value, type, params) ==
    LET members == Members(value, type, params)
    IN OutcomeOfMembers(value, type, params,
           [i \in DOMAIN members |->
              IF members[i] = <<>> THEN "ok"
              ELSE Inner(members[i][1].value, members[i][1].type, members[i][1].params)])

Outcome1(value, type, params) == OutcomeOf(LAMBDA v, t, p : "ok", value, type, params)
Outcome2(value, type, params) == OutcomeOf(Outcome1, value, type, params)
Outcome3(value, type, params) == OutcomeOf(Outcome2, value, type, params)
Outcome4(value, type, params) == OutcomeOf(Outcome3, value, type, params)
Outcome5(value, type, params) == OutcomeOf(Outcome4, value, type, params)
Outcome6(value, type, params) == OutcomeOf(Outcome5, value, type, params)
Outcome(value, type, params) == OutcomeOf(Outcome6, value, type, params)

-----------------------------------------------------------------------------
(* Decoding.  A result is <<>>, an error or a panic, or <<value>>. *)

From(bytes, n) == SubSeq(bytes, n, Len(bytes))

\* parseInt64: no sign.
ParseInt64(bytes) ==
    LET N[k \in 0 .. Len(bytes)] == IF k = 0 THEN 0 ELSE 256 * N[k - 1] + bytes[k]
    IN N[Len(bytes)]

Base128(bytes) ==
    LET N[k \in 0 .. Len(bytes)] == IF k = 0 THEN 0 ELSE 128 * N[k - 1] + (bytes[k] % 128)
    IN N[Len(bytes)]

\* Where the tag number ends: in the first octet below 128 after the first, or
\* the last there is.
TagEnd(bytes) ==
    LET ends == {i \in 2 .. Len(bytes) : bytes[i] < 128 \/ i = Len(bytes)}
    IN IF bytes[1] % 32 = 31 /\ ends # {} THEN CHOOSE i \in ends : \A j \in ends : i <= j ELSE 1

TagNumberUpTo(bytes, end) ==
    IF end = 1 THEN bytes[1] % 32 ELSE Base128(SubSeq(bytes, 2, end))

\* The length is in the octet after the tag, or in as many octets after it as
\* that octet says.
LengthAfter(bytes, end, octet) ==
    LET n == IF octet <= 127 THEN 0 ELSE octet % 128
    IN IF n > 3 \/ end + 1 + n > Len(bytes) THEN <<>>
       ELSE <<[tagNumber |-> TagNumberUpTo(bytes, end),
               len |-> IF octet <= 127 THEN octet
                       ELSE ParseInt64(SubSeq(bytes, end + 2, end + 1 + n)),
               off |-> end + 1 + n]>>

TagAndLengthFrom(bytes, end) ==
    IF end >= Len(bytes) \/ end > 10 THEN <<>> ELSE LengthAfter(bytes, end, bytes[end + 1])

\* parseTagAndLength: the tag number, the length, and how many octets they take.
ParseTagAndLength(bytes) == IF bytes = <<>> THEN <<>> ELSE TagAndLengthFrom(bytes, TagEnd(bytes))

Fits(tal, bytes) == tal.off + tal.len <= Len(bytes)

\* The elements one after the other, each with its tag and length.
Element(bytes, tal) ==
    [tagNumber |-> tal.tagNumber, bytes |-> SubSeq(bytes, 1, tal.off + tal.len)]

\* An element and those after it, none if it or they cannot be told apart.
Before(element, rest) == IF rest = <<>> THEN <<>> ELSE << <<element>> \o rest[1] >>

NextElement(bytes, tal) ==
    IF tal = <<>> THEN <<>> ELSE IF Fits(tal[1], bytes) THEN <<Element(bytes, tal[1])>> ELSE <<>>

FirstElement(bytes) == NextElement(bytes, ParseTagAndLength(bytes))

Elements(bytes) ==
    LET element == [i \in 1 .. Len(bytes) |-> FirstElement(From(bytes, i))]
        ElementsFrom[i \in 1 .. Len(bytes) + 1] ==
            IF i = Len(bytes) + 1 THEN << <<>> >>
            ELSE IF element[i] = <<>> THEN <<>>
            ELSE Before(element[i][1], ElementsFrom[i + Len(element[i][1].bytes)])
    IN ElementsFrom[1]

\* The first field after one that has a tag; 0 when there is none.
FieldAfter(place, fields, tagNumber) ==
    LET fit == {i \in DOMAIN fields : i > place /\ fields[i].params.tagNumber = tagNumber}
    IN IF fit = {} THEN 0 ELSE CHOOSE i \in fit : \A j \in fit : i <= j

\* The field of each element.  In a SEQUENCE they come in the order of the
\* fields.
Places(elements, fields, set) ==
    LET Place(before, e) ==
            FieldAfter(IF set \/ before = <<>> THEN 0 ELSE Last(before), fields, e.tagNumber)
        Next[n \in 0 .. Len(elements)] ==
            IF n = 0 THEN <<>> ELSE Append(Next[n - 1], Place(Next[n - 1], elements[n]))
    IN Next[Len(elements)]

\* The octets that the members of a value are in, each with its type, its
\* parameters and its place among them; <<>> if the octets do not tell.
Piece(place, type, bytes, params) ==
    [place |-> place, type |-> type, bytes |-> bytes, params |-> params]

\* A CHOICE with a tag of its own takes the tag and length within it, and how
\* many octets those are for the place where the chosen value is.
ChosenPiece(fields, bytes, offset, place) ==
    IF place = 0 THEN <<>>
    ELSE << <<Piece(place, fields[place].type, From(bytes, offset + 1), fields[place].params)>> >>

EmbeddedPiece(type, bytes, inner) ==
    IF inner = <<>> THEN <<>>
    ELSE IF ~Fits(inner[1], bytes) THEN <<>>
    ELSE ChosenPiece(type.fields, bytes, inner[1].off,
                     FieldAfter(0, type.fields, inner[1].tagNumber))

ChoicePieces(type, bytes, params, tal) ==
    IF params.tagNumber = NoTag
    THEN ChosenPiece(type.fields, bytes, 0, FieldAfter(0, type.fields, tal.tagNumber))
    ELSE EmbeddedPiece(type, bytes, ParseTagAndLength(From(bytes, tal.off + 1)))

PlacedPieces(fields, elements, places) ==
    IF 0 \in ToSet(places) THEN <<>>
    ELSE <<[n \in DOMAIN places |->
              Piece(places[n], fields[places[n]].type, elements[n].bytes,
                    fields[places[n]].params)]>>

StructPieces(type, elements, params) ==
    IF elements = <<>> THEN <<>>
    ELSE PlacedPieces(type.fields, elements[1], Places(elements[1], type.fields, params.set))

SlicePieces(type, elements, params) ==
    IF elements = <<>> THEN <<>>
    ELSE <<[n \in DOMAIN elements[1] |-> Piece(n, type.type, elements[1][n].bytes, params)]>>

Pieces(type, bytes, params, tal) ==
    CASE type.kind = "choice" -> ChoicePieces(type, bytes, params, tal)
      [] type.kind = "struct" -> StructPieces(type, Elements(From(bytes, tal.off + 1)), params)
      [] type.kind = "slice" -> SlicePieces(type, Elements(From(bytes, tal.off + 1)), params)
      [] OTHER -> << <<>> >>

\* The value, of what its members are parsed to; <<>> if one of them could not
\* be.  A field that comes twice has the later value.
Composed(type, body, pieces, parsed) ==
    IF <<>> \in ToSet(parsed) THEN <<>>
    ELSE CASE type.kind \in {"int", "enum"} -> <<ParseInt64(body)>>
           [] type.kind = "bool" -> IF body = <<>> THEN <<>> ELSE <<body[1] # 0>>
           [] type.kind = "null" -> <<TRUE>>
           [] type.kind \in {"octets", "string"} -> <<body>>
           [] type.kind = "bits" ->
                IF body = <<>> THEN <<>>
                ELSE <<[Bytes |-> Tail(body), BitLength |-> 8 * (Len(body) - 1) - body[1]]>>
           [] type.kind = "choice" -> <<[Present |-> pieces[1].place, Value |-> parsed[1][1]]>>
           [] type.kind = "struct" ->
                <<[i \in DOMAIN type.fields |->
                     LET of == {n \in DOMAIN pieces : pieces[n].place = i}
                     IN IF of = {} THEN <<>> ELSE parsed[CHOOSE n \in of : \A k \in of : k <= n]]>>
           [] type.kind = "slice" -> <<[n \in DOMAIN parsed |-> parsed[n][1]]>>

ParseMembers(Parsed(_, _, _), type, body, pieces) ==
    IF pieces = <<>> THEN <<>>
    ELSE Composed(type, body, pieces[1],
                  [n \in DOMAIN pieces[1] |->
                     Parsed(pieces[1][n].type, pieces[1][n].bytes, pieces[1][n].params)])

ParseTagged(Parsed(_, _, _), type, bytes, params, tal) ==
    IF tal = <<>> THEN <<>>
    ELSE IF ~Fits(tal[1], bytes) THEN <<>>
    ELSE ParseMembers(Parsed, type, From(bytes, tal[1].off + 1), Pieces(type, bytes, params, tal[1]))

\* ParseField.
ParseFieldWith(Parsed(_, _, _), type, bytes, params) ==
    ParseTagged(Parsed, type, bytes, params, ParseTagAndLength(bytes))

ParseField1(type, bytes, params) == ParseFieldWith(LAMBDA t, b, p : <<>>, type, bytes, params)
ParseField2(type, bytes, params) == ParseFieldWith(ParseField1, type, bytes, params)
ParseField3(type, bytes, params) == ParseFieldWith(ParseField2, type, bytes, params)
ParseField4(type, bytes, params) == ParseFieldWith(ParseField3, type, bytes, params)
ParseField5(type, bytes, params) == ParseFieldWith(ParseField4, type, bytes, params)
ParseField6(type, bytes, params) == ParseFieldWith(ParseField5, type, bytes, params)
ParseField(type, bytes, params) == ParseFieldWith(ParseField6, type, bytes, params)
=============================================================================
