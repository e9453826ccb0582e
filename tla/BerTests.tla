------------------------------- MODULE BerTests -------------------------------
(***************************************************************************)
(* The cases of cdr/asn/ber_test.go, encoded and decoded by the operators  *)
(* of Ber: what says that these are the code's, type by type.              *)
(***************************************************************************)
EXTENDS Ber

X(n) == [i \in 1 .. n |-> 120]
UTF8 == [Plain EXCEPT !.stringType = TagUTF8String]

intStruct == Struct(<<Field(0, Integer)>>)
twoIntStruct == Struct(<<Field(0, Integer), Field(1, Integer)>>)
nestedStruct == Struct(<<Field(0, intStruct), Field(1, intStruct)>>)
choiceTest == Choice(<<Field(0, Integer), Field(1, BitStringType), Field(2, intStruct),
                       Field(32, Integer), Field(128, Integer)>>)
choiceInStruct == Struct(<<Field(0, Integer), Field(1, choiceTest)>>)
sliceInStruct == Struct(<<Field(0, Slice(Integer))>>)

S(n) == << <<n>> >>
Chosen(n, value) == [Present |-> n, Value |-> value]
OneBit == [Bytes |-> <<128>>, BitLength |-> 1]

Case(type, params, value, bytes) ==
    [type |-> type, params |-> params, value |-> value, bytes |-> bytes]

Cases == <<
    Case(Integer, Plain, 10, <<2, 1, 10>>),
    Case(Integer, Plain, 127, <<2, 1, 127>>),
    Case(Integer, Plain, 128, <<2, 2, 0, 128>>),
    Case(Bool, Plain, TRUE, <<1, 1, 255>>),
    Case(Bool, Plain, FALSE, <<1, 1, 0>>),
    Case(BitStringType, Plain, OneBit, <<3, 2, 7, 128>>),
    Case(BitStringType, Plain, [Bytes |-> <<129, 240>>, BitLength |-> 12], <<3, 3, 4, 129, 240>>),
    Case(OctetStringType, Plain, <<1, 2, 3>>, <<4, 3, 1, 2, 3>>),
    Case(StringType, UTF8, X(127), <<12, 127>> \o X(127)),
    Case(StringType, UTF8, X(128), <<12, 129, 128>> \o X(128)),
    Case(EnumeratedType, Plain, 128, <<10, 2, 0, 128>>),
    Case(twoIntStruct, Plain, << <<64>>, <<65>> >>, <<48, 6, 128, 1, 64, 129, 1, 65>>),
    Case(nestedStruct, Plain, << <<S(64)>>, <<S(65)>> >>,
         <<48, 10, 160, 3, 128, 1, 64, 161, 3, 128, 1, 65>>),
    Case(choiceTest, Plain, Chosen(2, OneBit), <<129, 2, 7, 128>>),
    Case(choiceTest, Plain, Chosen(3, S(64)), <<162, 3, 128, 1, 64>>),
    Case(choiceTest, Plain, Chosen(4, 0), <<159, 32, 1, 0>>),
    Case(choiceTest, Plain, Chosen(5, 0), <<159, 129, 0, 1, 0>>),
    Case(choiceInStruct, Plain, << <<1>>, <<Chosen(1, 0)>> >>,
         <<48, 8, 128, 1, 1, 161, 3, 128, 1, 0>>),
    Case(Slice(intStruct), Plain, <<S(1), S(2)>>, <<48, 10, 48, 3, 128, 1, 1, 48, 3, 128, 1, 2>>),
    Case(sliceInStruct, Plain, << << <<1, 2, 3>> >> >>,
         <<48, 11, 160, 9, 2, 1, 1, 2, 1, 2, 2, 1, 3>>),
    Case(Slice(Integer), Plain, <<>>, <<48, 0>>),
    Case(Slice(choiceTest), Plain, <<Chosen(1, 0), Chosen(3, S(64))>>,
         <<48, 8, 128, 1, 0, 162, 3, 128, 1, 64>>)>>

\* Each value is encoded as the test says, and decoded from that.
ASSUME BerTestsAssumption ==
    \A i \in DOMAIN Cases :
        LET c == Cases[i]
        IN /\ Outcome(c.value, c.type, c.params) = "ok"
           /\ Marshal(c.value, c.type, c.params) = c.bytes
           /\ ParseField(c.type, c.bytes, c.params) = <<c.value>>
=============================================================================
