------------------------------- MODULE CdrFile -------------------------------
(***************************************************************************)
(* The CDR file format of cdr/cdrFile/cdrFile.go: a file header and, for   *)
(* each CDR, a header and its octets.  A file is a sequence of octets; the *)
(* code counts them from 0, At does too.  Encoding only prints a warning   *)
(* where a length field is wrong, and writes it as it is.                  *)
(***************************************************************************)
EXTENDS Integers, SequencesExt

\* The numbers below n, and those of 8, 16 and 32 bits.
Under(n) == {i \in Nat : i < n}
Byte == Under(256)
Number16 == Under(65536)
Number32 == {i \in Nat : i \div 65536 < 65536}

CdrHdrTimeStamp == [
    MonthLocal : Under(16), DateLocal : Under(32), HourLocal : Under(32), MinuteLocal : Under(64),
    SignOfTheLocalTimeDifferentialFromUtc : Under(2), HourDeviation : Under(32),
    MinuteDeviation : Under(64)]

CdrFileHeader == [
    FileLength : Number32, HeaderLength : Number32,
    HighReleaseIdentifier : Under(8), HighVersionIdentifier : Under(32),
    LowReleaseIdentifier : Under(8), LowVersionIdentifier : Under(32),
    FileOpeningTimestamp : CdrHdrTimeStamp,
    TimestampWhenLastCdrWasAppendedToFIle : CdrHdrTimeStamp,
    NumberOfCdrsInFile : Number32, FileSequenceNumber : Number32,
    FileClosureTriggerReason : Byte,
    IpAddressOfNodeThatGeneratedFile : [1 .. 20 -> Byte],
    LostCdrIndicator : Byte,
    LengthOfCdrRouteingFilter : Number16, CDRRouteingFilter : Seq(Byte),
    LengthOfPrivateExtension : Number16, PrivateExtension : Seq(Byte),
    HighReleaseIdentifierExtension : Byte, LowReleaseIdentifierExtension : Byte]

CdrHeader == [
    CdrLength : Number16, ReleaseIdentifier : Under(8), VersionIdentifier : Under(32),
    DataRecordFormat : Under(8), TsNumber : Under(32), ReleaseIdentifierExtension : Byte]

CDR == [Hdr : CdrHeader, CdrByte : Seq(Byte)]

\* A header that says of itself what it has: the lengths, which fit the 16 bits
\* they are added up in, and no extension but where the release identifier asks
\* for one.
HeaderFits(h) == 52 + h.LengthOfCdrRouteingFilter + h.LengthOfPrivateExtension < 65535

TrueHeader(h) ==
    /\ h \in CdrFileHeader
    /\ h.LengthOfCdrRouteingFilter = Len(h.CDRRouteingFilter)
    /\ h.LengthOfPrivateExtension = Len(h.PrivateExtension)
    /\ HeaderFits(h)
    /\ h.HighReleaseIdentifier # 7 => h.HighReleaseIdentifierExtension = 0
    /\ h.LowReleaseIdentifier # 7 => h.LowReleaseIdentifierExtension = 0

\* The big endian octets of a number of 16 or 32 bits.
Uint16(n) == <<(n \div 256) % 256, n % 256>>
Uint32(n) == Uint16(n \div 65536) \o Uint16(n)

\* A release identifier and a version identifier in one octet, and likewise a
\* data record format and a TS number.
Octet(high, low) == 32 * high + low

\* A time stamp in 32 bits, as four octets: month in bits 31 to 28, date 27 to
\* 23, hour 22 to 18, minute 17 to 12, sign 11, deviation 10 to 6 and 5 to 0.
TimeStamp(ts) ==
    <<16 * ts.MonthLocal + ts.DateLocal \div 2,
      128 * (ts.DateLocal % 2) + 4 * ts.HourLocal + ts.MinuteLocal \div 16,
      16 * (ts.MinuteLocal % 16) + 8 * ts.SignOfTheLocalTimeDifferentialFromUtc
        + ts.HourDeviation \div 4,
      64 * (ts.HourDeviation % 4) + ts.MinuteDeviation>>

\* CdrFileHeader.Encoding.
FileHeaderEncoding(h) ==
    Uint32(h.FileLength) \o Uint32(h.HeaderLength)
    \o <<Octet(h.HighReleaseIdentifier, h.HighVersionIdentifier),
         Octet(h.LowReleaseIdentifier, h.LowVersionIdentifier)>>
    \o TimeStamp(h.FileOpeningTimestamp)
    \o TimeStamp(h.TimestampWhenLastCdrWasAppendedToFIle)
    \o Uint32(h.NumberOfCdrsInFile) \o Uint32(h.FileSequenceNumber)
    \o <<h.FileClosureTriggerReason>>
    \o h.IpAddressOfNodeThatGeneratedFile
    \o <<h.LostCdrIndicator>>
    \o Uint16(h.LengthOfCdrRouteingFilter) \o h.CDRRouteingFilter
    \o Uint16(h.LengthOfPrivateExtension) \o h.PrivateExtension
    \o (IF h.HighReleaseIdentifier = 7 THEN <<h.HighReleaseIdentifierExtension>> ELSE <<>>)
    \o (IF h.LowReleaseIdentifier = 7 THEN <<h.LowReleaseIdentifierExtension>> ELSE <<>>)

\* CdrHeader.Encoding.
CdrHeaderEncoding(h) ==
    Uint16(h.CdrLength)
    \o <<Octet(h.ReleaseIdentifier, h.VersionIdentifier), Octet(h.DataRecordFormat, h.TsNumber)>>
    \o (IF h.ReleaseIdentifier = 7 THEN <<h.ReleaseIdentifierExtension>> ELSE <<>>)

\* CDRFile.Encoding.
Encoding(file) ==
    FileHeaderEncoding(file.Hdr)
    \o FlattenSeq([i \in DOMAIN file.CdrList |->
                     CdrHeaderEncoding(file.CdrList[i].Hdr) \o file.CdrList[i].CdrByte])

-----------------------------------------------------------------------------

At(data, i) == data[i + 1]
Octets(data, from, to) == SubSeq(data, from + 1, to)
Uint16At(data, i) == 256 * At(data, i) + At(data, i + 1)
Uint32At(data, i) == 65536 * Uint16At(data, i) + Uint16At(data, i + 2)

TimeStampAt(data, i) ==
    [MonthLocal |-> At(data, i) \div 16,
     DateLocal |-> 2 * (At(data, i) % 16) + At(data, i + 1) \div 128,
     HourLocal |-> (At(data, i + 1) \div 4) % 32,
     MinuteLocal |-> 16 * (At(data, i + 1) % 4) + At(data, i + 2) \div 16,
     SignOfTheLocalTimeDifferentialFromUtc |-> (At(data, i + 2) \div 8) % 2,
     HourDeviation |-> 4 * (At(data, i + 2) % 8) + At(data, i + 3) \div 64,
     MinuteDeviation |-> At(data, i + 3) % 64]

\* Where the routeing filter ends, and the private extension: xy and n, of 16
\* bits like the lengths they are added up from.
FilterEnd(data) == (50 + Uint16At(data, 48)) % 65536
ExtensionEnd(data) == (FilterEnd(data) + 2 + Uint16At(data, FilterEnd(data))) % 65536

\* Fault: both extensions are read from the same octet.
ReleaseExtensionsSame(data) ==
    LET n == ExtensionEnd(data)
    IN [high |-> IF At(data, 8) \div 32 = 7 THEN At(data, n) ELSE 0,
        low |-> IF At(data, 9) \div 32 = 7 THEN At(data, n) ELSE 0]

\* The extension of the low release identifier is read after that of the high
\* one, which may not be there.
ReleaseExtensions(data) ==
    LET n == ExtensionEnd(data)
    IN [high |-> IF At(data, 8) \div 32 = 7 THEN At(data, n) ELSE 0,
        low |-> IF At(data, 9) \div 32 = 7 THEN At(data, (n + 1) % 65536) ELSE 0]

FileHeaderAt(data) ==
    LET xy == FilterEnd(data)
        n == ExtensionEnd(data)
    IN [FileLength |-> Uint32At(data, 0),
        HeaderLength |-> Uint32At(data, 4),
        HighReleaseIdentifier |-> At(data, 8) \div 32,
        HighVersionIdentifier |-> At(data, 8) % 32,
        LowReleaseIdentifier |-> At(data, 9) \div 32,
        LowVersionIdentifier |-> At(data, 9) % 32,
        FileOpeningTimestamp |-> TimeStampAt(data, 10),
        TimestampWhenLastCdrWasAppendedToFIle |-> TimeStampAt(data, 14),
        NumberOfCdrsInFile |-> Uint32At(data, 18),
        FileSequenceNumber |-> Uint32At(data, 22),
        FileClosureTriggerReason |-> At(data, 26),
        IpAddressOfNodeThatGeneratedFile |-> Octets(data, 27, 47),
        LostCdrIndicator |-> At(data, 47),
        LengthOfCdrRouteingFilter |-> Uint16At(data, 48),
        CDRRouteingFilter |-> Octets(data, 50, xy),
        LengthOfPrivateExtension |-> Uint16At(data, xy),
        PrivateExtension |-> Octets(data, (xy + 2) % 65536, n),
        HighReleaseIdentifierExtension |-> ReleaseExtensions(data).high,
        LowReleaseIdentifierExtension |-> ReleaseExtensions(data).low]

\* Where the first CDR starts.
FirstCdr(data) ==
    ExtensionEnd(data) + (IF At(data, 8) \div 32 = 7 THEN 1 ELSE 0)
                       + (IF At(data, 9) \div 32 = 7 THEN 1 ELSE 0)

CdrHeaderLength(data, tail) == IF At(data, tail + 2) \div 32 = 7 THEN 5 ELSE 4

CdrAt(data, tail) ==
    LET length == Uint16At(data, tail)
        i == CdrHeaderLength(data, tail)
    IN [Hdr |-> [CdrLength |-> length,
                 ReleaseIdentifier |-> At(data, tail + 2) \div 32,
                 VersionIdentifier |-> At(data, tail + 2) % 32,
                 DataRecordFormat |-> At(data, tail + 3) \div 32,
                 TsNumber |-> At(data, tail + 3) % 32,
                 ReleaseIdentifierExtension |-> IF i = 5 THEN At(data, tail + 4) ELSE 0],
        CdrByte |-> Octets(data, tail + i, tail + i + length)]

\* Where each of n CDRs starts, one after the other: tail.
Starts(data, n) ==
    LET Start[k \in 1 .. n] ==
            IF k = 1 THEN FirstCdr(data)
            ELSE Start[k - 1] + CdrHeaderLength(data, Start[k - 1]) + Uint16At(data, Start[k - 1])
    IN Start

CdrsAt(data, n) == [k \in 1 .. n |-> CdrAt(data, Starts(data, n)[k])]

\* CDRFile.Decoding.
Decoding(data) ==
    [Hdr |-> FileHeaderAt(data),
     CdrList |-> CdrsAt(data, FileHeaderAt(data).NumberOfCdrsInFile)]
=============================================================================
