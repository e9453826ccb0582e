------------------------------ MODULE MCCdrCodec ------------------------------
(***************************************************************************)
(* CdrCodec for TLC: requests that fill in different parts of a CDR, among *)
(* them each of its choices and both kinds of PLMN identity, and numbers   *)
(* and lengths on both sides of where their encoding gets longer.          *)
(***************************************************************************)
EXTENDS CdrCodec, BerTests

CONSTANTS Zones     \* the time zones, in seconds, that the CHF may be in

TextOf(n) == [i \in 1 .. n |-> 64 + (i % 60)]

McNfId == TextOf(36)

Container(total, up, down, units, number) ==
    [TotalVolume |-> total, UplinkVolume |-> up, DownlinkVolume |-> down,
     ServiceSpecificUnits |-> units, LocalSequenceNumber |-> number]

Usage(group, upf, containers) ==
    [RatingGroup |-> group, UPFID |-> upf, UsedUnitContainer |-> containers]

McUsages == {
    Usage(1, <<>>, <<Container(127, 128, 255, 256, 1)>>),
    Usage(129, TextOf(7), <<Container(0, 32767, 32768, 8388608, 2),
                          Container(2147483647, 65535, 65536, 0, 128)>>)}

Nf(functionality, name, v4, v6, fqdn, plmn) ==
    [NodeFunctionality |-> functionality, NFName |-> name, NFIPv4Address |-> v4,
     NFIPv6Address |-> v6, NFFqdn |-> fqdn, NFPLMNID |-> plmn]

McRequests == {
    [Supi |-> [type |-> "imsi", data |-> TextOf(15)], SessionId |-> TextOf(24), ChargingId |-> 200,
     NfConsumerIdentification |->
        Nf("SMF", TextOf(3), TextOf(9), <<>>, <<>>, Some([mcc |-> <<2, 0, 8>>, mnc |-> <<9, 3>>])),
     Pdu |-> Some([ChargingId |-> 200, PduSessionID |-> 5, Sst |-> 1, Sd |-> TextOf(6),
                   DnnId |-> TextOf(8)]),
     ServiceSpecificationInfo |-> <<>>, Registration |-> FALSE, MultipleUnitUsage |-> <<>>],
    [Supi |-> [type |-> "nai", data |-> TextOf(20)], SessionId |-> TextOf(3), ChargingId |-> 0,
     NfConsumerIdentification |->
        Nf("AMF", <<>>, <<>>, TextOf(20), TextOf(40), Some([mcc |-> <<3, 1, 0>>, mnc |-> <<4, 1, 5>>])),
     Pdu |-> Nil, ServiceSpecificationInfo |-> TextOf(130), Registration |-> TRUE,
     MultipleUnitUsage |-> <<Usage(2, <<>>, <<Container(1, 1, 0, 0, 1)>>)>>],
    [Supi |-> [type |-> "other", data |-> TextOf(4)], SessionId |-> <<>>, ChargingId |-> 65536,
     NfConsumerIdentification |-> Nf("AF", <<>>, <<>>, <<>>, <<>>, Nil),
     Pdu |-> Nil, ServiceSpecificationInfo |-> <<>>, Registration |-> FALSE,
     MultipleUnitUsage |-> <<>>]}

McTimes == {[year |-> 26, month |-> 12, day |-> 9, hour |-> 23, minute |-> 59, second |-> 8,
             zone |-> zone] : zone \in Zones}

OtherFile(high, low, ext, filter) ==
    [NoHeader EXCEPT
        !.HighReleaseIdentifier = high, !.HighVersionIdentifier = 21,
        !.LowReleaseIdentifier = low, !.LowVersionIdentifier = 10,
        !.HighReleaseIdentifierExtension = IF high = 7 THEN ext ELSE 0,
        !.LowReleaseIdentifierExtension = IF low = 7 THEN ext + 1 ELSE 0,
        !.FileOpeningTimestamp =
            [MonthLocal |-> 12, DateLocal |-> 21, HourLocal |-> 19, MinuteLocal |-> 45,
             SignOfTheLocalTimeDifferentialFromUtc |-> 1, HourDeviation |-> 13,
             MinuteDeviation |-> 43],
        !.TimestampWhenLastCdrWasAppendedToFIle =
            [MonthLocal |-> 3, DateLocal |-> 10, HourLocal |-> 12, MinuteLocal |-> 18,
             SignOfTheLocalTimeDifferentialFromUtc |-> 0, HourDeviation |-> 18,
             MinuteDeviation |-> 20],
        !.FileSequenceNumber = 70000, !.FileClosureTriggerReason = 131,
        !.IpAddressOfNodeThatGeneratedFile = TextOf(20), !.LostCdrIndicator = 4,
        !.LengthOfCdrRouteingFilter = filter, !.CDRRouteingFilter = TextOf(filter),
        !.LengthOfPrivateExtension = 5, !.PrivateExtension = TextOf(5)]

McFileHeaders == {
    [file |-> OtherFile(7, 7, 2, 4), cdr |-> [release |-> 7, version |-> 3, tsNumber |-> 20, extension |-> 4]],
    [file |-> OtherFile(7, 5, 2, 300), cdr |-> [release |-> 6, version |-> 31, tsNumber |-> 0, extension |-> 0]],
    [file |-> OtherFile(6, 7, 2, 0), cdr |-> [release |-> 7, version |-> 0, tsNumber |-> 23, extension |-> 9]]}
=============================================================================
