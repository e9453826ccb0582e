---------------------------- MODULE CdrCodecProofs ----------------------------
(***************************************************************************)
(* Theorems about CdrCodec, for every set of requests and of file headers: *)
(* a file is read as what was written (FileReadBack), the lengths in it    *)
(* are the lengths, the encoder takes every record the CHF makes, and who  *)
(* reads the file finds in each CDR what the requests reported.            *)
(***************************************************************************)
EXTENDS CdrCodec, BerProofs, FiniteSetTheorems

-----------------------------------------------------------------------------
(* Numbers and time stamps in octets. *)

\* A number in 16 bits is two octets.
LEMMA Uint16Octets ==
    ASSUME NEW n \in Nat
    PROVE  Uint16(n) \in Seq(Byte) /\ Len(Uint16(n)) = 2
<1>1. (n \div 256) % 256 \in Byte /\ n % 256 \in Byte
    BY DEF Byte, Under
<1> QED
    BY <1>1 DEF Uint16

\* A number in 32 bits is four octets.
LEMMA Uint32Octets ==
    ASSUME NEW n \in Nat
    PROVE  Uint32(n) \in Seq(Byte) /\ Len(Uint32(n)) = 4
<1> DEFINE high == Uint16(n \div 65536)
           low == Uint16(n)
<1>1. n \div 65536 \in Nat
    OBVIOUS
<1>2. Parts(Byte, high, 2, low, 2)
    BY <1>1, Uint16Octets DEF Parts
<1> HIDE DEF high, low
<1>3. high \o low \in Seq(Byte) /\ Len(high \o low) = 2 + 2
    BY <1>2, PartsTogether
<1> QED
    BY <1>3 DEF Uint32, high, low

\* A number of 16 bits is read as it was written.
LEMMA Uint16ReadBack ==
    ASSUME NEW data, NEW i \in Nat, NEW n \in Number16, Holds(data, i, Uint16(n))
    PROVE  Uint16At(data, i) = n
<1>1. n \in Nat /\ Uint16(n) = <<(n \div 256) % 256, n % 256>> /\ n < 65536
    BY DEF Uint16, Number16, Under
<1>2. data[i + 1] = (n \div 256) % 256 /\ data[i + 2] = n % 256
    BY <1>1 DEF Holds
<1>3. (i + 1) + 1 = i + 2
    OBVIOUS
<1>4. 256 * ((n \div 256) % 256) + (n % 256) = n
    BY <1>1
<1> QED
    BY <1>2, <1>3, <1>4 DEF Uint16At, At

\* A number of 32 bits is read as it was written.
LEMMA Uint32ReadBack ==
    ASSUME NEW data, NEW i \in Nat, NEW n \in Number32, Holds(data, i, Uint32(n))
    PROVE  Uint32At(data, i) = n
<1> DEFINE high == n \div 65536
           low == n % 65536
<1>1. n \in Nat /\ high \in Number16
    BY DEF Number32, Number16, Under
<1>2. low \in Number16 /\ Uint16(low) = Uint16(n)
    <2>1. low \in Under(65536)
        BY <1>1 DEF Under
    <2>2. (low \div 256) % 256 = (n \div 256) % 256 /\ low % 256 = n % 256
        BY <1>1
    <2>3. Uint16(low) = Uint16(n)
        BY <2>2 DEF Uint16
    <2> HIDE DEF low
    <2> QED
        BY <2>1, <2>3 DEF Number16, Under
<1>3. 65536 * high + low = n
    BY <1>1
<1> HIDE DEF high, low
<1>4. Parts(Byte, Uint16(high), 2, Uint16(low), 2)
    <2>1. high \in Nat /\ low \in Nat
        BY <1>1, <1>2 DEF Number16, Under
    <2> QED
        BY <2>1, Uint16Octets DEF Parts
<1>5. Holds(data, i, Uint16(high) \o Uint16(low))
    BY <1>2 DEF Uint32, high
<1>6. Holds(data, i, Uint16(high)) /\ Holds(data, i + 2, Uint16(low))
    BY <1>4, <1>5, HoldsBoth
<1>9. Uint16At(data, i) = high /\ Uint16At(data, i + 2) = low
    BY <1>1, <1>2, <1>6, Uint16ReadBack
<1> QED
    BY <1>3, <1>9 DEF Uint32At

\* The two identifiers of an octet are read as they were written.
LEMMA IdentifierReadBack ==
    ASSUME NEW high \in Under(8), NEW low \in Under(32)
    PROVE  /\ Octet(high, low) \in Byte
           /\ Octet(high, low) \div 32 = high
           /\ Octet(high, low) % 32 = low
    BY DEF Octet, Byte, Under

\* A number that takes so many bits and the bits to its right.
LEMMA Halves ==
    /\ \A n \in Under(32) : /\ n \div 2 \in Under(16) /\ n % 2 \in Under(2)
                          /\ 2 * (n \div 2) + (n % 2) = n
    /\ \A n \in Under(32) : /\ n \div 4 \in Under(8) /\ n % 4 \in Under(4)
                          /\ 4 * (n \div 4) + (n % 4) = n
    /\ \A n \in Under(64) : /\ n \div 16 \in Under(4) /\ n % 16 \in Under(16)
                          /\ 16 * (n \div 16) + (n % 16) = n
    BY DEF Under

\* The octets of a time stamp that month and date share.
LEMMA MonthDate ==
    ASSUME NEW a \in Under(16), NEW b \in Under(16)
    PROVE  16 * a + b \in Byte /\ (16 * a + b) \div 16 = a /\ (16 * a + b) % 16 = b
    BY DEF Byte, Under

\* The octets of a time stamp that date, hour and minute share.
LEMMA DateHourMinute ==
    ASSUME NEW a \in Under(2), NEW b \in Under(32), NEW c \in Under(4)
    PROVE  LET n == 128 * a + 4 * b + c
           IN n \in Byte /\ n \div 128 = a /\ (n \div 4) % 32 = b /\ n % 4 = c
    BY DEF Byte, Under

\* The octets of a time stamp that minute, sign and deviation share.
LEMMA MinuteSignHour ==
    ASSUME NEW a \in Under(16), NEW b \in Under(2), NEW c \in Under(8)
    PROVE  LET n == 16 * a + 8 * b + c
           IN n \in Byte /\ n \div 16 = a /\ (n \div 8) % 2 = b /\ n % 8 = c
    BY DEF Byte, Under

\* The octets of a time stamp that the deviation is in.
LEMMA HourMinute ==
    ASSUME NEW a \in Under(4), NEW b \in Under(64)
    PROVE  LET n == 64 * a + b IN n \in Byte /\ n \div 64 = a /\ n % 64 = b
    BY DEF Byte, Under

\* A time stamp is four octets.
LEMMA TimeStampOctets ==
    ASSUME NEW ts \in CdrHdrTimeStamp
    PROVE  TimeStamp(ts) \in Seq(Byte) /\ Len(TimeStamp(ts)) = 4
<1>1. /\ ts.MonthLocal \in Under(16) /\ ts.DateLocal \in Under(32) /\ ts.HourLocal \in Under(32)
      /\ ts.MinuteLocal \in Under(64) /\ ts.SignOfTheLocalTimeDifferentialFromUtc \in Under(2)
      /\ ts.HourDeviation \in Under(32) /\ ts.MinuteDeviation \in Under(64)
    BY DEF CdrHdrTimeStamp
<1>2. /\ ts.DateLocal \div 2 \in Under(16) /\ ts.DateLocal % 2 \in Under(2)
      /\ ts.MinuteLocal \div 16 \in Under(4) /\ ts.MinuteLocal % 16 \in Under(16)
      /\ ts.HourDeviation \div 4 \in Under(8) /\ ts.HourDeviation % 4 \in Under(4)
    BY <1>1, Halves
<1>3. /\ 16 * ts.MonthLocal + ts.DateLocal \div 2 \in Byte
      /\ 128 * (ts.DateLocal % 2) + 4 * ts.HourLocal + ts.MinuteLocal \div 16 \in Byte
      /\ 16 * (ts.MinuteLocal % 16) + 8 * ts.SignOfTheLocalTimeDifferentialFromUtc
         + ts.HourDeviation \div 4 \in Byte
      /\ 64 * (ts.HourDeviation % 4) + ts.MinuteDeviation \in Byte
    BY <1>1, <1>2, MonthDate, DateHourMinute, MinuteSignHour, HourMinute
<1> QED
    BY <1>3 DEF TimeStamp

\* A time stamp of a file header is read as it was written.
LEMMA TimeStampReadBack ==
    ASSUME NEW data, NEW i \in Nat, NEW ts \in CdrHdrTimeStamp, Holds(data, i, TimeStamp(ts))
    PROVE  TimeStampAt(data, i) = ts
<1> DEFINE t == TimeStamp(ts)
<1>1. /\ At(data, i) = t[1] /\ At(data, i + 1) = t[2]
      /\ At(data, i + 2) = t[3] /\ At(data, i + 3) = t[4]
    <2>1. Len(t) = 4
        BY TimeStampOctets
    <2>2. (i + 1) + 1 = i + 2 /\ (i + 2) + 1 = i + 3 /\ (i + 3) + 1 = i + 4
        OBVIOUS
    <2> HIDE DEF t
    <2>3. data[i + 1] = t[1] /\ data[i + 2] = t[2] /\ data[i + 3] = t[3] /\ data[i + 4] = t[4]
        BY <2>1 DEF Holds, t
    <2> QED
        BY <2>2, <2>3 DEF At
<1>2. /\ ts.MonthLocal \in Under(16) /\ ts.DateLocal \in Under(32) /\ ts.HourLocal \in Under(32)
      /\ ts.MinuteLocal \in Under(64) /\ ts.SignOfTheLocalTimeDifferentialFromUtc \in Under(2)
      /\ ts.HourDeviation \in Under(32) /\ ts.MinuteDeviation \in Under(64)
    BY DEF CdrHdrTimeStamp
<1>3. /\ t[1] = 16 * ts.MonthLocal + ts.DateLocal \div 2
      /\ t[2] = 128 * (ts.DateLocal % 2) + 4 * ts.HourLocal + ts.MinuteLocal \div 16
      /\ t[3] = 16 * (ts.MinuteLocal % 16) + 8 * ts.SignOfTheLocalTimeDifferentialFromUtc
                + ts.HourDeviation \div 4
      /\ t[4] = 64 * (ts.HourDeviation % 4) + ts.MinuteDeviation
    BY DEF TimeStamp
<1> HIDE DEF t
<1>4. /\ ts.DateLocal \div 2 \in Under(16) /\ ts.DateLocal % 2 \in Under(2)
      /\ 2 * (ts.DateLocal \div 2) + (ts.DateLocal % 2) = ts.DateLocal
      /\ ts.MinuteLocal \div 16 \in Under(4) /\ ts.MinuteLocal % 16 \in Under(16)
      /\ 16 * (ts.MinuteLocal \div 16) + (ts.MinuteLocal % 16) = ts.MinuteLocal
      /\ ts.HourDeviation \div 4 \in Under(8) /\ ts.HourDeviation % 4 \in Under(4)
      /\ 4 * (ts.HourDeviation \div 4) + (ts.HourDeviation % 4) = ts.HourDeviation
    BY <1>2, Halves
<1>5. t[1] \div 16 = ts.MonthLocal /\ t[1] % 16 = ts.DateLocal \div 2
    BY <1>2, <1>3, <1>4, MonthDate
<1>6. /\ t[2] \div 128 = ts.DateLocal % 2 /\ (t[2] \div 4) % 32 = ts.HourLocal
      /\ t[2] % 4 = ts.MinuteLocal \div 16
    BY <1>2, <1>3, <1>4, DateHourMinute
<1>7. /\ t[3] \div 16 = ts.MinuteLocal % 16
      /\ (t[3] \div 8) % 2 = ts.SignOfTheLocalTimeDifferentialFromUtc
      /\ t[3] % 8 = ts.HourDeviation \div 4
    BY <1>2, <1>3, <1>4, MinuteSignHour
<1>8. t[4] \div 64 = ts.HourDeviation % 4 /\ t[4] % 64 = ts.MinuteDeviation
    BY <1>2, <1>3, <1>4, HourMinute
<1> QED
    BY <1>1, <1>4, <1>5, <1>6, <1>7, <1>8 DEF TimeStampAt, CdrHdrTimeStamp

-----------------------------------------------------------------------------
(* The header of a CDR file. *)

\* What the fields of a file header are.
LEMMA HeaderFields ==
    ASSUME NEW h \in CdrFileHeader
    PROVE  /\ h.FileLength \in Number32 /\ h.HeaderLength \in Number32
           /\ h.HighReleaseIdentifier \in Under(8) /\ h.HighVersionIdentifier \in Under(32)
           /\ h.LowReleaseIdentifier \in Under(8) /\ h.LowVersionIdentifier \in Under(32)
           /\ h.FileOpeningTimestamp \in CdrHdrTimeStamp
           /\ h.TimestampWhenLastCdrWasAppendedToFIle \in CdrHdrTimeStamp
           /\ h.NumberOfCdrsInFile \in Number32 /\ h.FileSequenceNumber \in Number32
           /\ h.FileClosureTriggerReason \in Byte /\ h.LostCdrIndicator \in Byte
           /\ h.IpAddressOfNodeThatGeneratedFile \in [1 .. 20 -> Byte]
           /\ h.LengthOfCdrRouteingFilter \in Number16 /\ h.CDRRouteingFilter \in Seq(Byte)
           /\ h.LengthOfPrivateExtension \in Number16 /\ h.PrivateExtension \in Seq(Byte)
           /\ h.HighReleaseIdentifierExtension \in Byte
           /\ h.LowReleaseIdentifierExtension \in Byte
    BY DEF CdrFileHeader

\* The fields of fixed size, up to the length of the routeing filter.
Fixed(h) ==
    Uint32(h.FileLength) \o Uint32(h.HeaderLength)
    \o <<Octet(h.HighReleaseIdentifier, h.HighVersionIdentifier),
         Octet(h.LowReleaseIdentifier, h.LowVersionIdentifier)>>
    \o TimeStamp(h.FileOpeningTimestamp)
    \o TimeStamp(h.TimestampWhenLastCdrWasAppendedToFIle)
    \o Uint32(h.NumberOfCdrsInFile) \o Uint32(h.FileSequenceNumber)
    \o <<h.FileClosureTriggerReason>>
    \o h.IpAddressOfNodeThatGeneratedFile
    \o <<h.LostCdrIndicator>>

\* The address of a node is twenty octets.
LEMMA AddressOctets ==
    ASSUME NEW a \in [1 .. 20 -> Byte]
    PROVE  a \in Seq(Byte) /\ Len(a) = 20
<1>1. a \in Seq(Byte)
    BY SeqDef
<1>2. Len(a) \in Nat /\ DOMAIN a = 1 .. Len(a) /\ DOMAIN a = 1 .. 20
    BY <1>1, LenProperties
<1> DEFINE n == Len(a)
<1>3. n \in Nat /\ 1 .. n = 1 .. 20
    BY <1>2
<1> HIDE DEF n
<1>4. n = 20
    BY <1>3
<1> QED
    BY <1>1, <1>4 DEF n

\* The part of a header whose length is fixed is 48 octets, each field in its place.
LEMMA FixedOctets ==
    ASSUME NEW h \in CdrFileHeader
    PROVE  /\ Fixed(h) \in Seq(Byte) /\ Len(Fixed(h)) = 48
           /\ \A data : Holds(data, 0, Fixed(h)) =>
                /\ Holds(data, 0, Uint32(h.FileLength))
                /\ Holds(data, 4, Uint32(h.HeaderLength))
                /\ Holds(data, 8, <<Octet(h.HighReleaseIdentifier, h.HighVersionIdentifier),
                                    Octet(h.LowReleaseIdentifier, h.LowVersionIdentifier)>>)
                /\ Holds(data, 10, TimeStamp(h.FileOpeningTimestamp))
                /\ Holds(data, 14, TimeStamp(h.TimestampWhenLastCdrWasAppendedToFIle))
                /\ Holds(data, 18, Uint32(h.NumberOfCdrsInFile))
                /\ Holds(data, 22, Uint32(h.FileSequenceNumber))
                /\ Holds(data, 26, <<h.FileClosureTriggerReason>>)
                /\ Holds(data, 27, h.IpAddressOfNodeThatGeneratedFile)
                /\ Holds(data, 47, <<h.LostCdrIndicator>>)
<1> DEFINE a1 == Uint32(h.FileLength)
           a2 == Uint32(h.HeaderLength)
           a3 == <<Octet(h.HighReleaseIdentifier, h.HighVersionIdentifier),
                   Octet(h.LowReleaseIdentifier, h.LowVersionIdentifier)>>
           a4 == TimeStamp(h.FileOpeningTimestamp)
           a5 == TimeStamp(h.TimestampWhenLastCdrWasAppendedToFIle)
           a6 == Uint32(h.NumberOfCdrsInFile)
           a7 == Uint32(h.FileSequenceNumber)
           a8 == <<h.FileClosureTriggerReason>>
           a9 == h.IpAddressOfNodeThatGeneratedFile
           a10 == <<h.LostCdrIndicator>>
<1>1. /\ a1 \in Seq(Byte) /\ Len(a1) = 4 /\ a2 \in Seq(Byte) /\ Len(a2) = 4
      /\ a6 \in Seq(Byte) /\ Len(a6) = 4 /\ a7 \in Seq(Byte) /\ Len(a7) = 4
    <2>1. /\ h.FileLength \in Nat /\ h.HeaderLength \in Nat
          /\ h.NumberOfCdrsInFile \in Nat /\ h.FileSequenceNumber \in Nat
        BY HeaderFields DEF Number32
    <2> QED
        BY <2>1, Uint32Octets
<1>2. a3 \in Seq(Byte) /\ Len(a3) = 2
    <2>1. /\ h.HighReleaseIdentifier \in Under(8) /\ h.HighVersionIdentifier \in Under(32)
          /\ h.LowReleaseIdentifier \in Under(8) /\ h.LowVersionIdentifier \in Under(32)
        BY HeaderFields
    <2>2. /\ Octet(h.HighReleaseIdentifier, h.HighVersionIdentifier) \in Byte
          /\ Octet(h.LowReleaseIdentifier, h.LowVersionIdentifier) \in Byte
        BY <2>1, IdentifierReadBack
    <2> QED
        BY <2>2
<1>3. a4 \in Seq(Byte) /\ Len(a4) = 4 /\ a5 \in Seq(Byte) /\ Len(a5) = 4
    <2>1. /\ h.FileOpeningTimestamp \in CdrHdrTimeStamp
          /\ h.TimestampWhenLastCdrWasAppendedToFIle \in CdrHdrTimeStamp
        BY HeaderFields
    <2> QED
        BY <2>1, TimeStampOctets
<1>4. a8 \in Seq(Byte) /\ Len(a8) = 1 /\ a10 \in Seq(Byte) /\ Len(a10) = 1
    <2>1. h.FileClosureTriggerReason \in Byte /\ h.LostCdrIndicator \in Byte
        BY HeaderFields
    <2> QED
        BY <2>1, OneOctet
<1>5. a9 \in Seq(Byte) /\ Len(a9) = 20
    <2>1. a9 \in [1 .. 20 -> Byte]
        BY HeaderFields
    <2> QED
        BY <2>1, AddressOctets
<1> DEFINE c2 == a1 \o a2
           c3 == c2 \o a3
           c4 == c3 \o a4
           c5 == c4 \o a5
           c6 == c5 \o a6
           c7 == c6 \o a7
           c8 == c7 \o a8
           c9 == c8 \o a9
           c10 == c9 \o a10
<1>7. Fixed(h) = c10
    BY DEF Fixed
<1> HIDE DEF a1, a2, a3, a4, a5, a6, a7, a8, a9, a10
<1> HIDE DEF c2, c3, c4, c5, c6, c7, c8, c9, c10
<1>8. Parts(Byte, a1, 4, a2, 4)
    BY <1>1 DEF Parts
<1>9. Parts(Byte, c2, 8, a3, 2)
    <2>1. c2 \in Seq(Byte) /\ Len(c2) = 4 + 4
        BY <1>8, PartsTogether DEF c2
    <2> QED
        BY <2>1, <1>2 DEF Parts
<1>10. Parts(Byte, c3, 10, a4, 4)
    <2>1. c3 \in Seq(Byte) /\ Len(c3) = 8 + 2
        BY <1>9, PartsTogether DEF c3
    <2> QED
        BY <2>1, <1>3 DEF Parts
<1>11. Parts(Byte, c4, 14, a5, 4)
    <2>1. c4 \in Seq(Byte) /\ Len(c4) = 10 + 4
        BY <1>10, PartsTogether DEF c4
    <2> QED
        BY <2>1, <1>3 DEF Parts
<1>12. Parts(Byte, c5, 18, a6, 4)
    <2>1. c5 \in Seq(Byte) /\ Len(c5) = 14 + 4
        BY <1>11, PartsTogether DEF c5
    <2> QED
        BY <2>1, <1>1 DEF Parts
<1>13. Parts(Byte, c6, 22, a7, 4)
    <2>1. c6 \in Seq(Byte) /\ Len(c6) = 18 + 4
        BY <1>12, PartsTogether DEF c6
    <2> QED
        BY <2>1, <1>1 DEF Parts
<1>14. Parts(Byte, c7, 26, a8, 1)
    <2>1. c7 \in Seq(Byte) /\ Len(c7) = 22 + 4
        BY <1>13, PartsTogether DEF c7
    <2> QED
        BY <2>1, <1>4 DEF Parts
<1>15. Parts(Byte, c8, 27, a9, 20)
    <2>1. c8 \in Seq(Byte) /\ Len(c8) = 26 + 1
        BY <1>14, PartsTogether DEF c8
    <2> QED
        BY <2>1, <1>5 DEF Parts
<1>16. Parts(Byte, c9, 47, a10, 1)
    <2>1. c9 \in Seq(Byte) /\ Len(c9) = 27 + 20
        BY <1>15, PartsTogether DEF c9
    <2> QED
        BY <2>1, <1>4 DEF Parts
<1>17. c10 \in Seq(Byte) /\ Len(c10) = 48
    <2>1. c10 \in Seq(Byte) /\ Len(c10) = 47 + 1
        BY <1>16, PartsTogether DEF c10
    <2> QED
        BY <2>1
<1>18. ASSUME NEW data, Holds(data, 0, c10)
       PROVE  /\ Holds(data, 0, a1) /\ Holds(data, 4, a2) /\ Holds(data, 8, a3)
              /\ Holds(data, 10, a4) /\ Holds(data, 14, a5) /\ Holds(data, 18, a6)
              /\ Holds(data, 22, a7) /\ Holds(data, 26, a8) /\ Holds(data, 27, a9)
              /\ Holds(data, 47, a10)
    <2>10. Holds(data, 0, c9) /\ Holds(data, 0 + 47, a10)
        BY <1>16, <1>18, HoldsBoth DEF c10
    <2>9. Holds(data, 0, c8) /\ Holds(data, 0 + 27, a9)
        BY <1>15, <2>10, HoldsBoth DEF c9
    <2>8. Holds(data, 0, c7) /\ Holds(data, 0 + 26, a8)
        BY <1>14, <2>9, HoldsBoth DEF c8
    <2>7. Holds(data, 0, c6) /\ Holds(data, 0 + 22, a7)
        BY <1>13, <2>8, HoldsBoth DEF c7
    <2>6. Holds(data, 0, c5) /\ Holds(data, 0 + 18, a6)
        BY <1>12, <2>7, HoldsBoth DEF c6
    <2>5. Holds(data, 0, c4) /\ Holds(data, 0 + 14, a5)
        BY <1>11, <2>6, HoldsBoth DEF c5
    <2>4. Holds(data, 0, c3) /\ Holds(data, 0 + 10, a4)
        BY <1>10, <2>5, HoldsBoth DEF c4
    <2>3. Holds(data, 0, c2) /\ Holds(data, 0 + 8, a3)
        BY <1>9, <2>4, HoldsBoth DEF c3
    <2>2. Holds(data, 0, a1) /\ Holds(data, 0 + 4, a2)
        BY <1>8, <2>3, HoldsBoth DEF c2
    <2> QED
        BY <2>2, <2>3, <2>4, <2>5, <2>6, <2>7, <2>8, <2>9, <2>10
<1> QED
    BY <1>7, <1>17, <1>18 DEF a1, a2, a3, a4, a5, a6, a7, a8, a9, a10

\* The decoder counts the octets of a header in 16 bits.
\* An extension where the release identifier is 7.
ExtensionOctets(release, extension) == IF release = 7 THEN <<extension>> ELSE <<>>

\* An extension is one octet, or none.
LEMMA ExtensionLength ==
    ASSUME NEW release, NEW extension \in Byte
    PROVE  /\ ExtensionOctets(release, extension) \in Seq(Byte)
           /\ Len(ExtensionOctets(release, extension)) = Extension(release)
           /\ Extension(release) \in Nat /\ Extension(release) \in 0 .. 1
<1>1. CASE release = 7
    BY <1>1, OneOctet DEF ExtensionOctets, Extension
<1>2. CASE release # 7
    <2>1. <<>> \in Seq(Byte) /\ Len(<<>>) = 0
        BY EmptySeq
    <2> QED
        BY <1>2, <2>1 DEF ExtensionOctets, Extension
<1> QED
    BY <1>1, <1>2

\* How long a file header is, and where in it each field is.
LEMMA FileHeaderOctets ==
    ASSUME NEW h, TrueHeader(h)
    PROVE  LET f == h.LengthOfCdrRouteingFilter
               e == h.LengthOfPrivateExtension
               x == Extension(h.HighReleaseIdentifier)
               y == Extension(h.LowReleaseIdentifier)
           IN /\ FileHeaderEncoding(h) \in Seq(Byte)
              /\ Len(FileHeaderEncoding(h)) = 52 + f + e + x + y
              /\ \A data : Holds(data, 0, FileHeaderEncoding(h)) =>
                   /\ Holds(data, 0, Fixed(h))
                   /\ Holds(data, 48, Uint16(f))
                   /\ Holds(data, 50, h.CDRRouteingFilter)
                   /\ Holds(data, 50 + f, Uint16(e))
                   /\ Holds(data, 52 + f, h.PrivateExtension)
                   /\ Holds(data, 52 + f + e,
                            ExtensionOctets(h.HighReleaseIdentifier, h.HighReleaseIdentifierExtension))
                   /\ Holds(data, 52 + f + e + x,
                            ExtensionOctets(h.LowReleaseIdentifier, h.LowReleaseIdentifierExtension))
<1> DEFINE f == h.LengthOfCdrRouteingFilter
           e == h.LengthOfPrivateExtension
           x == Extension(h.HighReleaseIdentifier)
           y == Extension(h.LowReleaseIdentifier)
           a1 == Fixed(h)
           a2 == Uint16(f)
           a3 == h.CDRRouteingFilter
           a4 == Uint16(e)
           a5 == h.PrivateExtension
           a6 == ExtensionOctets(h.HighReleaseIdentifier, h.HighReleaseIdentifierExtension)
           a7 == ExtensionOctets(h.LowReleaseIdentifier, h.LowReleaseIdentifierExtension)
           c2 == a1 \o a2
           c3 == c2 \o a3
           c4 == c3 \o a4
           c5 == c4 \o a5
           c6 == c5 \o a6
           c7 == c6 \o a7
<1>1. /\ h \in CdrFileHeader /\ f \in Nat /\ e \in Nat
      /\ a3 \in Seq(Byte) /\ Len(a3) = f /\ a5 \in Seq(Byte) /\ Len(a5) = e
      /\ h.HighReleaseIdentifierExtension \in Byte /\ h.LowReleaseIdentifierExtension \in Byte
    <2>1. h \in CdrFileHeader /\ Len(h.CDRRouteingFilter) = f /\ Len(h.PrivateExtension) = e
        BY DEF TrueHeader
    <2>2. /\ f \in Number16 /\ e \in Number16
          /\ h.CDRRouteingFilter \in Seq(Byte) /\ h.PrivateExtension \in Seq(Byte)
          /\ h.HighReleaseIdentifierExtension \in Byte /\ h.LowReleaseIdentifierExtension \in Byte
        BY <2>1, HeaderFields
    <2>3. f \in Nat /\ e \in Nat
        BY <2>2 DEF Number16, Under
    <2> QED
        BY <2>1, <2>2, <2>3
<1>2. a1 \in Seq(Byte) /\ Len(a1) = 48
    BY <1>1, FixedOctets
<1>3. a2 \in Seq(Byte) /\ Len(a2) = 2 /\ a4 \in Seq(Byte) /\ Len(a4) = 2
    BY <1>1, Uint16Octets
<1>4. a6 \in Seq(Byte) /\ Len(a6) = x /\ a7 \in Seq(Byte) /\ Len(a7) = y /\ x \in Nat /\ y \in Nat
    BY <1>1, ExtensionLength
<1>5. FileHeaderEncoding(h) = c7
    BY DEF FileHeaderEncoding, Fixed, ExtensionOctets
<1> HIDE DEF f, e, x, y, a1, a2, a3, a4, a5, a6, a7, c2, c3, c4, c5, c6, c7
<1>6. Parts(Byte, a1, 48, a2, 2)
    BY <1>2, <1>3 DEF Parts
<1>7. Parts(Byte, c2, 50, a3, f)
    <2>1. c2 \in Seq(Byte) /\ Len(c2) = 48 + 2
        BY <1>6, PartsTogether DEF c2
    <2> QED
        BY <2>1, <1>1 DEF Parts
<1>8. Parts(Byte, c3, 50 + f, a4, 2)
    <2>1. c3 \in Seq(Byte) /\ Len(c3) = 50 + f
        BY <1>7, PartsTogether DEF c3
    <2> QED
        BY <2>1, <1>3 DEF Parts
<1>9. Parts(Byte, c4, 52 + f, a5, e)
    <2>1. c4 \in Seq(Byte) /\ Len(c4) = (50 + f) + 2
        BY <1>8, PartsTogether DEF c4
    <2>2. (50 + f) + 2 = 52 + f
        BY <1>1
    <2> QED
        BY <2>1, <2>2, <1>1 DEF Parts
<1>10. Parts(Byte, c5, 52 + f + e, a6, x)
    <2>1. c5 \in Seq(Byte) /\ Len(c5) = 52 + f + e
        BY <1>9, PartsTogether DEF c5
    <2> QED
        BY <2>1, <1>4 DEF Parts
<1>11. Parts(Byte, c6, 52 + f + e + x, a7, y)
    <2>1. c6 \in Seq(Byte) /\ Len(c6) = 52 + f + e + x
        BY <1>10, PartsTogether DEF c6
    <2> QED
        BY <2>1, <1>4 DEF Parts
<1>12. c7 \in Seq(Byte) /\ Len(c7) = 52 + f + e + x + y
    BY <1>11, PartsTogether DEF c7
<1>13. ASSUME NEW data, Holds(data, 0, c7)
       PROVE  /\ Holds(data, 0, a1) /\ Holds(data, 48, a2) /\ Holds(data, 50, a3)
              /\ Holds(data, 50 + f, a4) /\ Holds(data, 52 + f, a5)
              /\ Holds(data, 52 + f + e, a6) /\ Holds(data, 52 + f + e + x, a7)
    <2>7. Holds(data, 0, c6) /\ Holds(data, 0 + (52 + f + e + x), a7)
        BY <1>11, <1>13, HoldsBoth DEF c7
    <2>6. Holds(data, 0, c5) /\ Holds(data, 0 + (52 + f + e), a6)
        BY <1>10, <2>7, HoldsBoth DEF c6
    <2>5. Holds(data, 0, c4) /\ Holds(data, 0 + (52 + f), a5)
        BY <1>9, <2>6, HoldsBoth DEF c5
    <2>4. Holds(data, 0, c3) /\ Holds(data, 0 + (50 + f), a4)
        BY <1>8, <2>5, HoldsBoth DEF c4
    <2>3. Holds(data, 0, c2) /\ Holds(data, 0 + 50, a3)
        BY <1>7, <2>4, HoldsBoth DEF c3
    <2>2. Holds(data, 0, a1) /\ Holds(data, 0 + 48, a2)
        BY <1>6, <2>3, HoldsBoth DEF c2
    <2>1. /\ 0 + (52 + f + e + x) = 52 + f + e + x /\ 0 + (52 + f + e) = 52 + f + e
          /\ 0 + (52 + f) = 52 + f /\ 0 + (50 + f) = 50 + f
        BY <1>1, <1>4
    <2> QED
        BY <2>1, <2>2, <2>3, <2>4, <2>5, <2>6, <2>7
<1> QED
    BY <1>5, <1>12, <1>13 DEF f, e, x, y, a1, a2, a3, a4, a5, a6, a7

\* The header is read as it was written, and the CDRs are looked for after it.
LEMMA FileHeaderReadBack ==
    ASSUME NEW data, NEW h, TrueHeader(h), Holds(data, 0, FileHeaderEncoding(h))
    PROVE  /\ FirstCdr(data) = Len(FileHeaderEncoding(h))
           /\ Uint32At(data, 18) = h.NumberOfCdrsInFile
           /\ HasHighExtension(h) => FileHeaderAt(data) = h
<1> DEFINE f == h.LengthOfCdrRouteingFilter
           e == h.LengthOfPrivateExtension
           x == Extension(h.HighReleaseIdentifier)
           y == Extension(h.LowReleaseIdentifier)
           hx == ExtensionOctets(h.HighReleaseIdentifier, h.HighReleaseIdentifierExtension)
           lx == ExtensionOctets(h.LowReleaseIdentifier, h.LowReleaseIdentifierExtension)
           identifiers == <<Octet(h.HighReleaseIdentifier, h.HighVersionIdentifier),
                            Octet(h.LowReleaseIdentifier, h.LowVersionIdentifier)>>
<1>1. /\ h \in CdrFileHeader /\ Len(h.CDRRouteingFilter) = f /\ Len(h.PrivateExtension) = e
      /\ 52 + f + e < 65535
    <2>1. h \in CdrFileHeader
        BY DEF TrueHeader
    <2>2. Len(h.CDRRouteingFilter) = f
        BY DEF TrueHeader
    <2>3. Len(h.PrivateExtension) = e
        BY DEF TrueHeader
    <2>4. f \in Nat /\ e \in Nat
        BY <2>1, HeaderFields DEF Number16, Under
    <2>5. HeaderFits(h)
        BY DEF TrueHeader
    <2>6. 52 + f + e < 65535
        BY <2>4, <2>5 DEF HeaderFits
    <2> QED
        BY <2>1, <2>2, <2>3, <2>6
<1>2. f \in Number16 /\ e \in Number16 /\ f \in Nat /\ e \in Nat
    <2>1. f \in Number16 /\ e \in Number16
        BY <1>1, HeaderFields
    <2> QED
        BY <2>1 DEF Number16, Under
<1> HIDE DEF identifiers
<1>3. /\ Len(FileHeaderEncoding(h)) = 52 + f + e + x + y
      /\ Holds(data, 0, Fixed(h)) /\ Holds(data, 48, Uint16(f))
      /\ Holds(data, 50, h.CDRRouteingFilter) /\ Holds(data, 50 + f, Uint16(e))
      /\ Holds(data, 52 + f, h.PrivateExtension)
      /\ Holds(data, 52 + f + e, hx) /\ Holds(data, 52 + f + e + x, lx)
    BY FileHeaderOctets
<1> HIDE DEF f, e, x, y, hx, lx
<1>4. /\ Holds(data, 0, Uint32(h.FileLength)) /\ Holds(data, 4, Uint32(h.HeaderLength))
      /\ Holds(data, 8, identifiers)
      /\ Holds(data, 10, TimeStamp(h.FileOpeningTimestamp))
      /\ Holds(data, 14, TimeStamp(h.TimestampWhenLastCdrWasAppendedToFIle))
      /\ Holds(data, 18, Uint32(h.NumberOfCdrsInFile))
      /\ Holds(data, 22, Uint32(h.FileSequenceNumber))
      /\ Holds(data, 26, <<h.FileClosureTriggerReason>>)
      /\ Holds(data, 27, h.IpAddressOfNodeThatGeneratedFile)
      /\ Holds(data, 47, <<h.LostCdrIndicator>>)
    <2>1. h \in CdrFileHeader /\ Holds(data, 0, Fixed(h))
        BY <1>1, <1>3
    <2> QED
        BY <2>1, FixedOctets DEF identifiers
<1>5. /\ Uint32At(data, 0) = h.FileLength /\ Uint32At(data, 4) = h.HeaderLength
      /\ Uint32At(data, 18) = h.NumberOfCdrsInFile /\ Uint32At(data, 22) = h.FileSequenceNumber
    <2>1. /\ h.FileLength \in Number32 /\ h.HeaderLength \in Number32
          /\ h.NumberOfCdrsInFile \in Number32 /\ h.FileSequenceNumber \in Number32
        BY <1>1, HeaderFields
    <2> QED
        BY <2>1, <1>4, Uint32ReadBack
<1>6. /\ At(data, 8) \div 32 = h.HighReleaseIdentifier /\ At(data, 8) % 32 = h.HighVersionIdentifier
      /\ At(data, 9) \div 32 = h.LowReleaseIdentifier /\ At(data, 9) % 32 = h.LowVersionIdentifier
    <2>1. /\ h.HighReleaseIdentifier \in Under(8) /\ h.HighVersionIdentifier \in Under(32)
          /\ h.LowReleaseIdentifier \in Under(8) /\ h.LowVersionIdentifier \in Under(32)
        BY <1>1, HeaderFields
    <2>2. data[8 + 1] = identifiers[1] /\ data[8 + 2] = identifiers[2]
        BY <1>4 DEF Holds, identifiers
    <2>3. /\ At(data, 8) = Octet(h.HighReleaseIdentifier, h.HighVersionIdentifier)
          /\ At(data, 9) = Octet(h.LowReleaseIdentifier, h.LowVersionIdentifier)
        BY <2>2 DEF At, identifiers
    <2> QED
        BY <2>1, <2>3, IdentifierReadBack
<1>7. /\ TimeStampAt(data, 10) = h.FileOpeningTimestamp
      /\ TimeStampAt(data, 14) = h.TimestampWhenLastCdrWasAppendedToFIle
    <2>1. /\ h.FileOpeningTimestamp \in CdrHdrTimeStamp
          /\ h.TimestampWhenLastCdrWasAppendedToFIle \in CdrHdrTimeStamp
        BY <1>1, HeaderFields
    <2> QED
        BY <2>1, <1>4, TimeStampReadBack
<1>8. At(data, 26) = h.FileClosureTriggerReason /\ At(data, 47) = h.LostCdrIndicator
    BY <1>4 DEF Holds, At
<1>9. Uint16At(data, 48) = f
    BY <1>2, <1>3, Uint16ReadBack
<1>10. FilterEnd(data) = 50 + f
    <2>1. (50 + f) % 65536 = 50 + f
        BY <1>1, <1>2
    <2> QED
        BY <2>1, <1>9 DEF FilterEnd
<1>11. Uint16At(data, 50 + f) = e
    BY <1>2, <1>3, Uint16ReadBack
<1>12. ExtensionEnd(data) = 52 + f + e /\ (FilterEnd(data) + 2) % 65536 = 52 + f
    <2>1. /\ (50 + f) + 2 + e = 52 + f + e /\ (50 + f) + 2 = 52 + f
          /\ (52 + f + e) % 65536 = 52 + f + e /\ (52 + f) % 65536 = 52 + f
        BY <1>1, <1>2
    <2> QED
        BY <2>1, <1>10, <1>11 DEF ExtensionEnd
<1>13. FirstCdr(data) = Len(FileHeaderEncoding(h))
    BY <1>3, <1>6, <1>12 DEF FirstCdr, Extension, x, y
<1>14. ASSUME HasHighExtension(h) PROVE FileHeaderAt(data) = h
    <2>1. Octets(data, 27, 47) = h.IpAddressOfNodeThatGeneratedFile
        <3>1. /\ h.IpAddressOfNodeThatGeneratedFile \in Seq(Byte)
              /\ Len(h.IpAddressOfNodeThatGeneratedFile) = 20
            BY <1>1, HeaderFields, AddressOctets
        <3>2. Octets(data, 27, 27 + Len(h.IpAddressOfNodeThatGeneratedFile))
                = h.IpAddressOfNodeThatGeneratedFile
            BY <3>1, <1>4, OctetsReadBack, ZenonT(60)
        <3> QED
            BY <3>1, <3>2
    <2>2. Octets(data, 50, FilterEnd(data)) = h.CDRRouteingFilter
        <3>1. h.CDRRouteingFilter \in Seq(Byte)
            BY <1>1, HeaderFields
        <3>2. Octets(data, 50, 50 + Len(h.CDRRouteingFilter)) = h.CDRRouteingFilter
            BY <3>1, <1>3, OctetsReadBack
        <3> QED
            BY <3>2, <1>1, <1>10
    <2>3. Octets(data, (FilterEnd(data) + 2) % 65536, ExtensionEnd(data)) = h.PrivateExtension
        <3>1. h.PrivateExtension \in Seq(Byte) /\ 52 + f \in Nat
            BY <1>1, <1>2, HeaderFields
        <3>2. Octets(data, 52 + f, (52 + f) + Len(h.PrivateExtension)) = h.PrivateExtension
            BY <3>1, <1>3, OctetsReadBack
        <3> QED
            BY <3>2, <1>1, <1>12
    <2>4. /\ ReleaseExtensions(data).high = h.HighReleaseIdentifierExtension
          /\ ReleaseExtensions(data).low = h.LowReleaseIdentifierExtension
        <3>1. /\ ReleaseExtensions(data).high =
                    (IF h.HighReleaseIdentifier = 7 THEN At(data, 52 + f + e) ELSE 0)
              /\ ReleaseExtensions(data).low =
                    (IF h.LowReleaseIdentifier = 7 THEN At(data, (52 + f + e + 1) % 65536) ELSE 0)
            BY <1>6, <1>12 DEF ReleaseExtensions
        <3>2. h.HighReleaseIdentifier = 7 => At(data, 52 + f + e) = h.HighReleaseIdentifierExtension
            <4>1. SUFFICES ASSUME h.HighReleaseIdentifier = 7
                           PROVE  At(data, 52 + f + e) = h.HighReleaseIdentifierExtension
                OBVIOUS
            <4>2. hx = <<h.HighReleaseIdentifierExtension>>
                BY <4>1 DEF ExtensionOctets, hx, lx
            <4> QED
                BY <4>2, <1>3 DEF Holds, At
        <3>3. h.LowReleaseIdentifier = 7 =>
                At(data, (52 + f + e + 1) % 65536) = h.LowReleaseIdentifierExtension
            <4>1. SUFFICES ASSUME h.LowReleaseIdentifier = 7
                           PROVE  At(data, (52 + f + e + 1) % 65536) = h.LowReleaseIdentifierExtension
                OBVIOUS
            <4>2. lx = <<h.LowReleaseIdentifierExtension>>
                BY <4>1 DEF ExtensionOctets, hx, lx
            <4>3. x = 1
                BY <4>1, <1>14 DEF HasHighExtension, Extension, x
            <4>4. Holds(data, 52 + f + e + 1, <<h.LowReleaseIdentifierExtension>>)
                BY <4>2, <4>3, <1>3
            <4>5. (52 + f + e + 1) % 65536 = 52 + f + e + 1
                BY <1>1, <1>2
            <4>6. At(data, 52 + f + e + 1) = h.LowReleaseIdentifierExtension
                BY <4>4 DEF Holds, At
            <4> QED
                BY <4>5, <4>6
        <3>4. /\ h.HighReleaseIdentifier # 7 => h.HighReleaseIdentifierExtension = 0
              /\ h.LowReleaseIdentifier # 7 => h.LowReleaseIdentifierExtension = 0
            BY DEF TrueHeader
        <3> QED
            BY <3>1, <3>2, <3>3, <3>4
    <2>5. h = [FileLength |-> h.FileLength,
               HeaderLength |-> h.HeaderLength,
               HighReleaseIdentifier |-> h.HighReleaseIdentifier,
               HighVersionIdentifier |-> h.HighVersionIdentifier,
               LowReleaseIdentifier |-> h.LowReleaseIdentifier,
               LowVersionIdentifier |-> h.LowVersionIdentifier,
               FileOpeningTimestamp |-> h.FileOpeningTimestamp,
               TimestampWhenLastCdrWasAppendedToFIle |-> h.TimestampWhenLastCdrWasAppendedToFIle,
               NumberOfCdrsInFile |-> h.NumberOfCdrsInFile,
               FileSequenceNumber |-> h.FileSequenceNumber,
               FileClosureTriggerReason |-> h.FileClosureTriggerReason,
               IpAddressOfNodeThatGeneratedFile |-> h.IpAddressOfNodeThatGeneratedFile,
               LostCdrIndicator |-> h.LostCdrIndicator,
               LengthOfCdrRouteingFilter |-> f,
               CDRRouteingFilter |-> h.CDRRouteingFilter,
               LengthOfPrivateExtension |-> e,
               PrivateExtension |-> h.PrivateExtension,
               HighReleaseIdentifierExtension |-> h.HighReleaseIdentifierExtension,
               LowReleaseIdentifierExtension |-> h.LowReleaseIdentifierExtension]
        BY <1>1 DEF CdrFileHeader, f, e
    <2> QED
        BY <1>5, <1>6, <1>7, <1>8, <1>9, <1>10, <1>11, <2>1, <2>2, <2>3, <2>4, <2>5
        DEF FileHeaderAt
<1> QED
    BY <1>5, <1>13, <1>14

-----------------------------------------------------------------------------
(* The CDRs of a file. *)

\* A CDR with its length, and with no extension but where the release says so.
TrueCdr(cdr) ==
    /\ cdr \in CDR
    /\ cdr.Hdr.CdrLength = Len(cdr.CdrByte)
    /\ cdr.Hdr.ReleaseIdentifier # 7 => cdr.Hdr.ReleaseIdentifierExtension = 0

Block(cdr) == CdrHeaderEncoding(cdr.Hdr) \o cdr.CdrByte

\* The fields of a CDR header have their bits.
LEMMA CdrHeaderFields ==
    ASSUME NEW h \in CdrHeader
    PROVE  /\ h.CdrLength \in Number16
           /\ h.ReleaseIdentifier \in Under(8) /\ h.VersionIdentifier \in Under(32)
           /\ h.DataRecordFormat \in Under(8) /\ h.TsNumber \in Under(32)
           /\ h.ReleaseIdentifierExtension \in Byte
    BY DEF CdrHeader

\* How long a CDR with its header is, and where in it each field is.
LEMMA BlockOctets ==
    ASSUME NEW cdr, TrueCdr(cdr)
    PROVE  LET h == cdr.Hdr
               x == Extension(h.ReleaseIdentifier)
           IN /\ Block(cdr) \in Seq(Byte)
              /\ Len(Block(cdr)) = 4 + x + h.CdrLength
              /\ \A data : \A i \in Nat : Holds(data, i, Block(cdr)) =>
                   /\ Holds(data, i, Uint16(h.CdrLength))
                   /\ Holds(data, i + 2, <<Octet(h.ReleaseIdentifier, h.VersionIdentifier),
                                           Octet(h.DataRecordFormat, h.TsNumber)>>)
                   /\ Holds(data, i + 4,
                            ExtensionOctets(h.ReleaseIdentifier, h.ReleaseIdentifierExtension))
                   /\ Holds(data, i + (4 + x), cdr.CdrByte)
<1> DEFINE h == cdr.Hdr
           x == Extension(h.ReleaseIdentifier)
           n == h.CdrLength
           a1 == Uint16(n)
           a2 == <<Octet(h.ReleaseIdentifier, h.VersionIdentifier),
                   Octet(h.DataRecordFormat, h.TsNumber)>>
           a3 == ExtensionOctets(h.ReleaseIdentifier, h.ReleaseIdentifierExtension)
           a4 == cdr.CdrByte
           c2 == a1 \o a2
           c3 == c2 \o a3
           c4 == c3 \o a4
<1>1. h \in CdrHeader /\ a4 \in Seq(Byte) /\ Len(a4) = n
    BY DEF TrueCdr, CDR
<1>2. a1 \in Seq(Byte) /\ Len(a1) = 2 /\ n \in Nat
    <2>1. n \in Nat
        BY <1>1, CdrHeaderFields DEF Number16, Under
    <2> QED
        BY <2>1, Uint16Octets
<1>3. a2 \in Seq(Byte) /\ Len(a2) = 2
    <2>1. /\ Octet(h.ReleaseIdentifier, h.VersionIdentifier) \in Byte
          /\ Octet(h.DataRecordFormat, h.TsNumber) \in Byte
        BY <1>1, CdrHeaderFields, IdentifierReadBack
    <2> QED
        BY <2>1
<1>4. a3 \in Seq(Byte) /\ Len(a3) = x /\ x \in Nat
    BY <1>1, CdrHeaderFields, ExtensionLength
<1>5. Block(cdr) = c4
    BY DEF Block, CdrHeaderEncoding, ExtensionOctets
<1> HIDE DEF h, x, n, a1, a2, a3, a4, c2, c3, c4
<1>6. Parts(Byte, a1, 2, a2, 2)
    BY <1>2, <1>3 DEF Parts
<1>7. Parts(Byte, c2, 4, a3, x)
    <2>1. c2 \in Seq(Byte) /\ Len(c2) = 2 + 2
        BY <1>6, PartsTogether DEF c2
    <2> QED
        BY <2>1, <1>4 DEF Parts
<1>8. Parts(Byte, c3, 4 + x, a4, n)
    <2>1. c3 \in Seq(Byte) /\ Len(c3) = 4 + x
        BY <1>7, PartsTogether DEF c3
    <2> QED
        BY <2>1, <1>1 DEF Parts
<1>9. c4 \in Seq(Byte) /\ Len(c4) = 4 + x + n
    BY <1>8, PartsTogether DEF c4
<1>10. ASSUME NEW data, NEW i \in Nat, Holds(data, i, c4)
       PROVE  /\ Holds(data, i, a1) /\ Holds(data, i + 2, a2) /\ Holds(data, i + 4, a3)
              /\ Holds(data, i + (4 + x), a4)
    <2>1. Holds(data, i, c3) /\ Holds(data, i + (4 + x), a4)
        BY <1>8, <1>10, HoldsBoth DEF c4
    <2>2. Holds(data, i, c2) /\ Holds(data, i + 4, a3)
        BY <1>7, <2>1, HoldsBoth DEF c3
    <2>3. Holds(data, i, a1) /\ Holds(data, i + 2, a2)
        BY <1>6, <2>2, HoldsBoth DEF c2
    <2> QED
        BY <2>1, <2>2, <2>3
<1> QED
    BY <1>5, <1>9, <1>10 DEF h, x, n, a1, a2, a3, a4

\* A CDR is read as it was written, and the next one is looked for after it.
LEMMA CdrReadBack ==
    ASSUME NEW cdr, TrueCdr(cdr), NEW data, NEW i \in Nat, Holds(data, i, Block(cdr))
    PROVE  /\ CdrAt(data, i) = cdr
           /\ CdrHeaderLength(data, i) + Uint16At(data, i) = Len(Block(cdr))
           /\ CdrHeaderLength(data, i) \in Nat /\ Uint16At(data, i) \in Nat
<1> DEFINE h == cdr.Hdr
           x == Extension(h.ReleaseIdentifier)
           identifiers == <<Octet(h.ReleaseIdentifier, h.VersionIdentifier),
                            Octet(h.DataRecordFormat, h.TsNumber)>>
           ext == ExtensionOctets(h.ReleaseIdentifier, h.ReleaseIdentifierExtension)
<1>1. /\ Holds(data, i, Uint16(h.CdrLength)) /\ Holds(data, i + 2, identifiers)
      /\ Holds(data, i + 4, ext) /\ Holds(data, i + (4 + x), cdr.CdrByte)
      /\ Len(Block(cdr)) = 4 + x + h.CdrLength
    BY BlockOctets
<1>2. h \in CdrHeader /\ cdr.CdrByte \in Seq(Byte) /\ Len(cdr.CdrByte) = h.CdrLength
    BY DEF TrueCdr, CDR
<1>3. Uint16At(data, i) = h.CdrLength /\ h.CdrLength \in Nat
    <2>1. h.CdrLength \in Number16
        BY <1>2, CdrHeaderFields
    <2> HIDE DEF h
    <2> QED
        BY <2>1, <1>1, Uint16ReadBack DEF Number16, Under
<1>4. /\ At(data, i + 2) \div 32 = h.ReleaseIdentifier /\ At(data, i + 2) % 32 = h.VersionIdentifier
      /\ At(data, i + 3) \div 32 = h.DataRecordFormat /\ At(data, i + 3) % 32 = h.TsNumber
    <2>1. /\ h.ReleaseIdentifier \in Under(8) /\ h.VersionIdentifier \in Under(32)
          /\ h.DataRecordFormat \in Under(8) /\ h.TsNumber \in Under(32)
        BY <1>2, CdrHeaderFields
    <2>2. data[(i + 2) + 1] = identifiers[1] /\ data[(i + 2) + 2] = identifiers[2]
        BY <1>1 DEF Holds
    <2>3. (i + 3) + 1 = (i + 2) + 2
        OBVIOUS
    <2>4. /\ At(data, i + 2) = Octet(h.ReleaseIdentifier, h.VersionIdentifier)
          /\ At(data, i + 3) = Octet(h.DataRecordFormat, h.TsNumber)
        BY <2>2, <2>3 DEF At
    <2> HIDE DEF h
    <2> QED
        BY <2>1, <2>4, IdentifierReadBack
<1>5. CdrHeaderLength(data, i) = 4 + x /\ x \in Nat
    BY <1>4 DEF CdrHeaderLength, Extension
<1>6. h.ReleaseIdentifierExtension = IF CdrHeaderLength(data, i) = 5 THEN At(data, i + 4) ELSE 0
    <2>1. CASE h.ReleaseIdentifier = 7
        <3>1. ext = <<h.ReleaseIdentifierExtension>> /\ x = 1
            BY <2>1 DEF ExtensionOctets, Extension
        <3>2. At(data, i + 4) = h.ReleaseIdentifierExtension
            BY <1>1, <3>1 DEF Holds, At
        <3> QED
            BY <1>5, <3>1, <3>2
    <2>2. CASE h.ReleaseIdentifier # 7
        <3>1. h.ReleaseIdentifierExtension = 0 /\ x = 0
            BY <2>2 DEF TrueCdr, Extension
        <3> QED
            BY <1>5, <3>1
    <2> QED
        BY <2>1, <2>2
<1>7. Octets(data, i + (4 + x), i + (4 + x) + h.CdrLength) = cdr.CdrByte
    <2>1. i + (4 + x) \in Nat
        BY <1>5
    <2>2. Octets(data, i + (4 + x), i + (4 + x) + Len(cdr.CdrByte)) = cdr.CdrByte
        BY <2>1, <1>1, <1>2, OctetsReadBack
    <2> QED
        BY <2>2, <1>2
<1>8. cdr = [Hdr |-> [CdrLength |-> h.CdrLength, ReleaseIdentifier |-> h.ReleaseIdentifier,
                      VersionIdentifier |-> h.VersionIdentifier,
                      DataRecordFormat |-> h.DataRecordFormat, TsNumber |-> h.TsNumber,
                      ReleaseIdentifierExtension |-> h.ReleaseIdentifierExtension],
             CdrByte |-> cdr.CdrByte]
    <2>1. cdr = [Hdr |-> h, CdrByte |-> cdr.CdrByte]
        BY DEF TrueCdr, CDR
    <2>2. h = [CdrLength |-> h.CdrLength, ReleaseIdentifier |-> h.ReleaseIdentifier,
               VersionIdentifier |-> h.VersionIdentifier, DataRecordFormat |-> h.DataRecordFormat,
               TsNumber |-> h.TsNumber,
               ReleaseIdentifierExtension |-> h.ReleaseIdentifierExtension]
        BY <1>2 DEF CdrHeader
    <2> HIDE DEF h
    <2> QED
        BY <2>1, <2>2
<1> HIDE DEF h, x
<1>9. CdrAt(data, i) = cdr
    BY <1>3, <1>4, <1>5, <1>6, <1>7, <1>8 DEF CdrAt
<1> QED
    BY <1>1, <1>3, <1>5, <1>9

TrueCdrs(cdrs) == cdrs \in Seq(CDR) /\ \A k \in 1 .. Len(cdrs) : TrueCdr(cdrs[k])

Blocks(cdrs) == [k \in DOMAIN cdrs |-> CdrHeaderEncoding(cdrs[k].Hdr) \o cdrs[k].CdrByte]

\* What the octets of a list of CDRs are, up to each of them.
Layout(cdrs, f) ==
    /\ f \in [0 .. Len(cdrs) -> Seq(Byte)]
    /\ f[0] = <<>>
    /\ \A k \in 1 .. Len(cdrs) : f[k] = f[k - 1] \o Block(cdrs[k])

\* A list of CDRs has a layout, which ends with the octets of them all.
LEMMA LayoutExists ==
    ASSUME NEW cdrs, TrueCdrs(cdrs)
    PROVE  \E f : Layout(cdrs, f) /\ FlattenSeq(Blocks(cdrs)) = f[Len(cdrs)]
<1> DEFINE b == Blocks(cdrs)
           n == Len(cdrs)
<1>1. n \in Nat /\ DOMAIN cdrs = 1 .. n /\ \A k \in 1 .. n : TrueCdr(cdrs[k])
    BY DEF TrueCdrs
<1>2. b = [k \in 1 .. n |-> Block(cdrs[k])]
    BY <1>1 DEF Blocks, Block
<1>3. \A k \in 1 .. n : Block(cdrs[k]) \in Seq(Byte)
    BY <1>1, BlockOctets
<1> HIDE DEF b, n
<1>4. b \in Seq(Seq(Byte)) /\ Len(b) = n
    BY <1>1, <1>2, <1>3
<1>5. PICK f : Flattening(Byte, b, f) /\ FlattenSeq(b) = f[Len(b)]
    BY <1>4, Flattens
<1>6. /\ f \in [0 .. n -> Seq(Byte)] /\ f[0] = <<>>
      /\ \A k \in 1 .. n : f[k] = f[k - 1] \o b[k]
    BY <1>4, <1>5 DEF Flattening
<1>7. Layout(cdrs, f)
    BY <1>2, <1>6 DEF Layout, n
<1> QED
    BY <1>4, <1>5, <1>7 DEF b, n

\* Each CDR takes the octets of its block.
LEMMA LayoutLengths ==
    ASSUME NEW cdrs, TrueCdrs(cdrs), NEW f, Layout(cdrs, f)
    PROVE  /\ Len(f[0]) = 0
           /\ \A k \in 0 .. Len(cdrs) : Len(f[k]) \in Nat
           /\ \A k \in 1 .. Len(cdrs) :
                Parts(Byte, f[k - 1], Len(f[k - 1]), Block(cdrs[k]), Len(Block(cdrs[k])))
           /\ \A k \in 1 .. Len(cdrs) : Len(f[k]) = Len(f[k - 1]) + Len(Block(cdrs[k]))
<1> DEFINE n == Len(cdrs)
<1>1. n \in Nat /\ \A k \in 1 .. n : TrueCdr(cdrs[k])
    BY DEF TrueCdrs
<1>2. /\ f \in [0 .. n -> Seq(Byte)] /\ f[0] = <<>>
      /\ \A k \in 1 .. n : f[k] = f[k - 1] \o Block(cdrs[k])
    BY DEF Layout
<1> HIDE DEF n
<1>3. Len(f[0]) = 0 /\ \A k \in 0 .. n : f[k] \in Seq(Byte) /\ Len(f[k]) \in Nat
    BY <1>2, EmptySeq
<1>4. \A k \in 1 .. n : f[k - 1] \in Seq(Byte)
    <2>1. \A k \in 1 .. n : k - 1 \in 0 .. n
        BY <1>1
    <2> QED
        BY <1>3, <2>1
<1>5. \A k \in 1 .. n : Parts(Byte, f[k - 1], Len(f[k - 1]), Block(cdrs[k]), Len(Block(cdrs[k])))
    BY <1>1, <1>4, BlockOctets DEF Parts
<1>6. ASSUME NEW k \in 1 .. n PROVE Len(f[k]) = Len(f[k - 1]) + Len(Block(cdrs[k]))
    <2> DEFINE a == f[k - 1]
               b == Block(cdrs[k])
    <2>1. Parts(Byte, a, Len(a), b, Len(b)) /\ f[k] = a \o b
        BY <1>2, <1>5
    <2> HIDE DEF a, b
    <2>2. Len(a \o b) = Len(a) + Len(b)
        BY <2>1, PartsTogether
    <2> QED
        BY <2>1, <2>2 DEF a, b
<1> QED
    BY <1>3, <1>5, <1>6 DEF n

\* The length that is counted for the file's header is that of the CDRs.
LEMMA LengthOfCdrsCounted ==
    ASSUME NEW cdrs, TrueCdrs(cdrs)
    PROVE  LengthOfCdrs(cdrs) = Len(FlattenSeq(Blocks(cdrs)))
<1> DEFINE n == Len(cdrs)
           size == [k \in 1 .. n |-> Len(cdrs[k].CdrByte) + 4 + Extension(cdrs[k].Hdr.ReleaseIdentifier)]
           Solution(L) == L = [k \in 0 .. n |->
               IF k = 0 THEN 0
               ELSE L[k - 1] + Len(cdrs[k].CdrByte) + 4 + Extension(cdrs[k].Hdr.ReleaseIdentifier)]
           L == CHOOSE L : Solution(L)
<1>1. PICK f : Layout(cdrs, f) /\ FlattenSeq(Blocks(cdrs)) = f[n]
    BY LayoutExists
<1>2. n \in Nat /\ \A k \in 1 .. n : TrueCdr(cdrs[k])
    BY DEF TrueCdrs
<1>3. /\ Len(f[0]) = 0 /\ \A k \in 0 .. n : Len(f[k]) \in Nat
      /\ \A k \in 1 .. n : Len(f[k]) = Len(f[k - 1]) + Len(Block(cdrs[k]))
    BY <1>1, LayoutLengths
<1>4. ASSUME NEW k \in 1 .. n
      PROVE  /\ Len(Block(cdrs[k])) = Len(cdrs[k].CdrByte) + 4 + Extension(cdrs[k].Hdr.ReleaseIdentifier)
             /\ Len(cdrs[k].CdrByte) \in Nat /\ Extension(cdrs[k].Hdr.ReleaseIdentifier) \in Nat
    <2> DEFINE cdr == cdrs[k]
    <2>1. TrueCdr(cdr)
        BY <1>2
    <2> HIDE DEF cdr
    <2>2. Len(Block(cdr)) = 4 + Extension(cdr.Hdr.ReleaseIdentifier) + cdr.Hdr.CdrLength
        BY <2>1, BlockOctets
    <2>3. cdr.Hdr.CdrLength = Len(cdr.CdrByte) /\ cdr.CdrByte \in Seq(Byte)
        BY <2>1 DEF TrueCdr, CDR
    <2>4. Len(cdr.CdrByte) \in Nat /\ Extension(cdr.Hdr.ReleaseIdentifier) \in Nat
        BY <2>3 DEF Extension
    <2> QED
        BY <2>2, <2>3, <2>4 DEF cdr
<1>5. Solution([k \in 0 .. n |-> Len(f[k])])
    <2> DEFINE g == [k \in 0 .. n |-> Len(f[k])]
    <2> HIDE DEF n
    <2>1. ASSUME NEW k \in 0 .. n
          PROVE  Len(f[k]) = IF k = 0 THEN 0
                             ELSE g[k - 1] + Len(cdrs[k].CdrByte) + 4 + Extension(cdrs[k].Hdr.ReleaseIdentifier)
        <3>1. CASE k = 0
            BY <1>3, <3>1
        <3>2. CASE k # 0
            <4>1. k \in 1 .. n /\ k - 1 \in 0 .. n
                BY <1>2, <3>2
            <4>2. g[k - 1] = Len(f[k - 1]) /\ Len(f[k - 1]) \in Nat
                BY <1>3, <4>1
            <4> DEFINE a == Len(f[k - 1])
                       b == Len(cdrs[k].CdrByte)
                       c == Extension(cdrs[k].Hdr.ReleaseIdentifier)
            <4>3. Len(f[k]) = a + (b + 4 + c) /\ a \in Nat /\ b \in Nat /\ c \in Nat
                BY <1>3, <1>4, <4>1, <4>2
            <4>4. g[k - 1] = a
                BY <4>2
            <4> HIDE DEF a, b, c, g
            <4>5. Len(f[k]) = g[k - 1] + b + 4 + c
                BY <4>3, <4>4
            <4> QED
                BY <3>2, <4>5 DEF b, c
        <3> QED
            BY <3>1, <3>2
    <2> QED
        BY <2>1
<1>6. Solution(L)
    <2> HIDE DEF Solution
    <2> QED
        BY <1>5
<1>7. \A k \in 0 .. n : L[k] = IF k = 0 THEN 0
            ELSE L[k - 1] + Len(cdrs[k].CdrByte) + 4 + Extension(cdrs[k].Hdr.ReleaseIdentifier)
    <2> HIDE DEF L
    <2> QED
        BY <1>6
<1>8. LengthOfCdrs(cdrs) = L[n]
    BY DEF LengthOfCdrs
<1> HIDE DEF L, n
<1>9. \A k \in Nat : k \in {j \in Nat : j <= n => L[j] = Len(f[j])}
    <2> DEFINE T == {j \in Nat : j <= n => L[j] = Len(f[j])}
    <2>1. 0 \in T
        BY <1>2, <1>3, <1>7
    <2>2. ASSUME NEW j \in Nat, j \in T PROVE j + 1 \in T
        <3>1. SUFFICES ASSUME j + 1 <= n PROVE L[j + 1] = Len(f[j + 1])
            OBVIOUS
        <3>2. j + 1 \in 1 .. n /\ j + 1 \in 0 .. n /\ j + 1 # 0 /\ (j + 1) - 1 = j /\ j <= n
            BY <1>2, <3>1
        <3> DEFINE k == j + 1
        <3>3. k \in 1 .. n /\ k \in 0 .. n /\ k # 0 /\ k - 1 = j
            BY <3>2
        <3> HIDE DEF k
        <3>4. L[k] = L[j] + Len(cdrs[k].CdrByte) + 4 + Extension(cdrs[k].Hdr.ReleaseIdentifier)
            BY <1>7, <3>3
        <3>5. L[j] = Len(f[j]) /\ j \in 0 .. n
            BY <2>2, <3>2, <1>2
        <3>6. Len(f[k]) = Len(f[j]) + Len(Block(cdrs[k])) /\ Len(f[j]) \in Nat
            BY <1>3, <3>3, <3>5
        <3> DEFINE a == Len(f[j])
                   b == Len(cdrs[k].CdrByte)
                   c == Extension(cdrs[k].Hdr.ReleaseIdentifier)
        <3>7. Len(f[k]) = a + (b + 4 + c) /\ a \in Nat /\ b \in Nat /\ c \in Nat
            BY <1>4, <3>3, <3>6
        <3>8. L[k] = a + b + 4 + c
            BY <3>4, <3>5
        <3> HIDE DEF a, b, c
        <3>9. L[k] = Len(f[k])
            BY <3>7, <3>8
        <3> QED
            BY <3>9 DEF k
    <2> HIDE DEF T
    <2>3. \A j \in Nat : j \in T
        BY <2>1, <2>2, NatSet
    <2> QED
        BY <2>3 DEF T
<1> QED
    BY <1>1, <1>2, <1>8, <1>9

\* The CDRs are read as they were written.
LEMMA CdrsReadBack ==
    ASSUME NEW cdrs, TrueCdrs(cdrs), NEW data, FirstCdr(data) \in Nat,
           Holds(data, FirstCdr(data), FlattenSeq(Blocks(cdrs)))
    PROVE  CdrsAt(data, Len(cdrs)) = cdrs
<1> DEFINE n == Len(cdrs)
           H == FirstCdr(data)
           Solution(S) == S = [k \in 1 .. n |->
               IF k = 1 THEN H
               ELSE S[k - 1] + CdrHeaderLength(data, S[k - 1]) + Uint16At(data, S[k - 1])]
           S == CHOOSE S : Solution(S)
<1>1. PICK f : Layout(cdrs, f) /\ FlattenSeq(Blocks(cdrs)) = f[n]
    BY LayoutExists
<1>2. n \in Nat /\ cdrs = [k \in 1 .. n |-> cdrs[k]] /\ H \in Nat
      /\ \A k \in 1 .. n : TrueCdr(cdrs[k])
    BY DEF TrueCdrs
<1>3. /\ Len(f[0]) = 0 /\ \A k \in 0 .. n : Len(f[k]) \in Nat
      /\ \A k \in 1 .. n : Parts(Byte, f[k - 1], Len(f[k - 1]), Block(cdrs[k]), Len(Block(cdrs[k])))
      /\ \A k \in 1 .. n : Len(f[k]) = Len(f[k - 1]) + Len(Block(cdrs[k]))
      /\ \A k \in 1 .. n : f[k] = f[k - 1] \o Block(cdrs[k])
    BY <1>1, LayoutLengths DEF Layout
<1>4. Starts(data, n) = S
    BY DEF Starts
<1>5. Holds(data, H, f[n])
    BY <1>1
<1> HIDE DEF n, H
<1>6. \A k \in 1 .. n : /\ CdrAt(data, H + Len(f[k - 1])) = cdrs[k]
                        /\ CdrHeaderLength(data, H + Len(f[k - 1])) + Uint16At(data, H + Len(f[k - 1]))
                             = Len(Block(cdrs[k]))
                        /\ CdrHeaderLength(data, H + Len(f[k - 1])) \in Nat
                        /\ Uint16At(data, H + Len(f[k - 1])) \in Nat
    <2> DEFINE T == {j \in Nat : j <= n => Holds(data, H, f[n - j])}
    <2>1. 0 \in T
        BY <1>2, <1>5
    <2>2. ASSUME NEW j \in Nat, j \in T PROVE j + 1 \in T
        <3>1. SUFFICES ASSUME j + 1 <= n PROVE Holds(data, H, f[n - (j + 1)])
            OBVIOUS
        <3> DEFINE k == n - j
        <3>2. k \in 1 .. n /\ k - 1 = n - (j + 1) /\ j <= n
            BY <1>2, <3>1
        <3>3. Holds(data, H, f[k])
            BY <2>2, <3>2
        <3> HIDE DEF k
        <3>4. Holds(data, H, f[k - 1])
            BY <1>2, <1>3, <3>2, <3>3, HoldsBoth, ZenonT(60)
        <3> QED
            BY <3>2, <3>4
    <2>3. \A j \in Nat : j \in T
        <3> HIDE DEF T
        <3> QED
            BY <2>1, <2>2, NatSet
    <2>4. ASSUME NEW k \in 1 .. n
          PROVE  /\ CdrAt(data, H + Len(f[k - 1])) = cdrs[k]
                 /\ CdrHeaderLength(data, H + Len(f[k - 1])) + Uint16At(data, H + Len(f[k - 1]))
                      = Len(Block(cdrs[k]))
                 /\ CdrHeaderLength(data, H + Len(f[k - 1])) \in Nat
                 /\ Uint16At(data, H + Len(f[k - 1])) \in Nat
        <3>1. n - k \in Nat /\ n - k <= n /\ n - (n - k) = k /\ k - 1 \in 0 .. n
            BY <1>2
        <3>2. Holds(data, H, f[k])
            BY <2>3, <3>1
        <3> DEFINE a == f[k - 1]
                   b == Block(cdrs[k])
        <3>5. Parts(Byte, a, Len(a), b, Len(b)) /\ Holds(data, H, a \o b)
            BY <1>3, <3>2
        <3> HIDE DEF a, b
        <3>6. Holds(data, H + Len(a), b)
            BY <1>2, <3>5, HoldsBoth
        <3>3. Holds(data, H + Len(f[k - 1]), Block(cdrs[k]))
            BY <3>6 DEF a, b
        <3>4. H + Len(f[k - 1]) \in Nat
            <4> DEFINE m == Len(f[k - 1])
            <4>1. m \in Nat
                BY <1>3, <3>1
            <4> HIDE DEF m
            <4>2. H + m \in Nat
                BY <1>2, <4>1
            <4> QED
                BY <4>2 DEF m
        <3>7. TrueCdr(cdrs[k])
            BY <1>2
        <3> QED
            BY <3>3, <3>4, <3>7, CdrReadBack
    <2> QED
        BY <2>4
<1>7. Solution([k \in 1 .. n |-> H + Len(f[k - 1])])
    <2> DEFINE g == [k \in 1 .. n |-> H + Len(f[k - 1])]
    <2>1. ASSUME NEW k \in 1 .. n
          PROVE  H + Len(f[k - 1]) = IF k = 1 THEN H
                        ELSE g[k - 1] + CdrHeaderLength(data, g[k - 1]) + Uint16At(data, g[k - 1])
        <3>1. CASE k = 1
            <4>1. k - 1 = 0
                BY <3>1
            <4>2. H + 0 = H
                BY <1>2
            <4> QED
                BY <1>3, <3>1, <4>1, <4>2
        <3>2. CASE k # 1
            <4> DEFINE j == k - 1
                       i == H + Len(f[j - 1])
                       d == Uint16At(data, i)
                       l == CdrHeaderLength(data, i)
                       a == Len(f[j - 1])
            <4>1. j \in 1 .. n /\ j \in 0 .. n /\ j - 1 \in 0 .. n
                BY <1>2, <3>2
            <4>2. g[j] = i
                BY <4>1
            <4> HIDE DEF j, g
            <4>3. l + d = Len(Block(cdrs[j])) /\ l \in Nat /\ d \in Nat
                BY <1>6, <4>1
            <4>4. Len(f[j]) = a + (l + d) /\ a \in Nat
                BY <1>3, <4>1, <4>3
            <4>5. i = H + a
                OBVIOUS
            <4> HIDE DEF i, d, l, a
            <4>6. H + Len(f[j]) = i + l + d
                BY <1>2, <4>3, <4>4, <4>5
            <4> QED
                BY <3>2, <4>2, <4>6 DEF j, d, l
        <3> QED
            BY <3>1, <3>2
    <2> QED
        BY <2>1
<1>8. \A k \in 1 .. n : S[k] = IF k = 1 THEN H
            ELSE S[k - 1] + CdrHeaderLength(data, S[k - 1]) + Uint16At(data, S[k - 1])
    <2>1. Solution(S)
        <3> HIDE DEF Solution
        <3> QED
            BY <1>7
    <2> HIDE DEF S
    <2> QED
        BY <2>1
<1>9. \A k \in Nat : k \in {j \in Nat : j + 1 <= n => S[j + 1] = H + Len(f[j])}
    <2> DEFINE T == {j \in Nat : j + 1 <= n => S[j + 1] = H + Len(f[j])}
    <2> HIDE DEF S
    <2>1. 0 \in T
        <3>1. 1 <= n => 1 \in 1 .. n
            BY <1>2
        <3>2. 1 <= n => S[1] = H /\ H + Len(f[0]) = H
            BY <1>2, <1>3, <1>8, <3>1
        <3> QED
            BY <3>2
    <2>2. ASSUME NEW m \in Nat, m \in T PROVE m + 1 \in T
        <3> DEFINE j == m + 1
                   k == j + 1
        <3>1. SUFFICES ASSUME k <= n PROVE S[k] = H + Len(f[j])
            OBVIOUS
        <3>2. /\ k \in 1 .. n /\ k # 1 /\ k - 1 = j /\ j \in 1 .. n /\ j <= n
              /\ j - 1 = m /\ m \in 0 .. n
            BY <1>2, <3>1
        <3>3. S[j] = H + Len(f[m])
            BY <2>2, <3>2
        <3> HIDE DEF k, j
        <3> DEFINE i == H + Len(f[m])
                   d == Uint16At(data, i)
                   l == CdrHeaderLength(data, i)
                   a == Len(f[m])
        <3>4. S[k] = i + l + d
            BY <1>8, <3>2, <3>3
        <3>5. l + d = Len(Block(cdrs[j])) /\ l \in Nat /\ d \in Nat
            BY <1>6, <3>2
        <3>6. Len(f[j]) = a + (l + d) /\ a \in Nat
            BY <1>3, <3>2, <3>5
        <3>7. i = H + a
            OBVIOUS
        <3> HIDE DEF i, d, l, a
        <3> QED
            BY <1>2, <3>4, <3>5, <3>6, <3>7
    <2> HIDE DEF T
    <2>3. \A j \in Nat : j \in T
        BY <2>1, <2>2, NatSet
    <2> QED
        BY <2>3 DEF T
<1>10. \A k \in 1 .. n : S[k] = H + Len(f[k - 1])
    <2> HIDE DEF S
    <2> TAKE k \in 1 .. n
    <2>1. k - 1 \in Nat /\ (k - 1) + 1 = k /\ (k - 1) + 1 <= n
        BY <1>2
    <2> QED
        BY <1>9, <2>1
<1> HIDE DEF S
<1>11. CdrsAt(data, n) = [k \in 1 .. n |-> cdrs[k]]
    BY <1>4, <1>6, <1>10 DEF CdrsAt
<1> QED
    BY <1>2, <1>11 DEF n

-----------------------------------------------------------------------------
(* CDR files. *)

TrueFile(f) ==
    /\ f = [Hdr |-> f.Hdr, CdrList |-> f.CdrList]
    /\ TrueHeader(f.Hdr)
    /\ TrueCdrs(f.CdrList)
    /\ f.Hdr.NumberOfCdrsInFile = Len(f.CdrList)

\* The octets of a file are those of its header and then those of its CDRs.
LEMMA FileOctets ==
    ASSUME NEW f, TrueFile(f)
    PROVE  LET a == FileHeaderEncoding(f.Hdr)
               b == FlattenSeq(Blocks(f.CdrList))
           IN Encoding(f) = a \o b /\ Parts(Byte, a, Len(a), b, Len(b)) /\ Len(a) \in Nat
<1> DEFINE cdrs == f.CdrList
<1>1. Encoding(f) = FileHeaderEncoding(f.Hdr) \o FlattenSeq(Blocks(cdrs))
    BY DEF Encoding, Blocks
<1>2. FileHeaderEncoding(f.Hdr) \in Seq(Byte)
    <2>1. TrueHeader(f.Hdr)
        BY DEF TrueFile
    <2> QED
        BY <2>1, FileHeaderOctets
<1>3. FlattenSeq(Blocks(cdrs)) \in Seq(Byte)
    <2>1. TrueCdrs(cdrs)
        BY DEF TrueFile
    <2> HIDE DEF cdrs
    <2>2. PICK g : Layout(cdrs, g) /\ FlattenSeq(Blocks(cdrs)) = g[Len(cdrs)]
        BY <2>1, LayoutExists
    <2>3. Len(cdrs) \in 0 .. Len(cdrs)
        BY <2>1 DEF TrueCdrs
    <2> QED
        BY <2>2, <2>3 DEF Layout
<1>4. Len(FileHeaderEncoding(f.Hdr)) \in Nat
    BY <1>2
<1> QED
    BY <1>1, <1>2, <1>3, <1>4 DEF Parts

\* What Encoding writes Decoding reads, whatever the header and the CDRs are, if
\* their lengths are true and no low release identifier has an extension alone.
THEOREM FileReadBack ==
    ASSUME NEW f, TrueFile(f), HasHighExtension(f.Hdr)
    PROVE  Decoding(Encoding(f)) = f
<1> DEFINE a == FileHeaderEncoding(f.Hdr)
           b == FlattenSeq(Blocks(f.CdrList))
           data == Encoding(f)
<1>1. data = a \o b /\ Parts(Byte, a, Len(a), b, Len(b)) /\ Len(a) \in Nat
    BY FileOctets
<1>2. /\ TrueHeader(f.Hdr) /\ TrueCdrs(f.CdrList)
      /\ f.Hdr.NumberOfCdrsInFile = Len(f.CdrList)
      /\ f = [Hdr |-> f.Hdr, CdrList |-> f.CdrList]
    BY DEF TrueFile
<1> DEFINE cdrs == f.CdrList
           h == f.Hdr
<1> HIDE DEF data
<1>3. Holds(data, 0, a \o b)
    <2>1. a \o b \in Seq(Byte)
        <3> HIDE DEF a, b
        <3> QED
            BY <1>1, PartsTogether
    <2> HIDE DEF a, b
    <2> QED
        BY <1>1, <2>1, HoldsItself
<1>4. Holds(data, 0, a) /\ Holds(data, Len(a), b)
    <2> HIDE DEF a, b
    <2>1. Holds(data, 0, a) /\ Holds(data, 0 + Len(a), b)
        BY <1>1, <1>3, HoldsBoth
    <2> QED
        BY <1>1, <2>1
<1>5. FileHeaderAt(data) = h /\ FirstCdr(data) = Len(a)
    BY <1>2, <1>4, FileHeaderReadBack
<1>6. CdrsAt(data, Len(cdrs)) = cdrs
    <2>1. FirstCdr(data) \in Nat /\ Holds(data, FirstCdr(data), FlattenSeq(Blocks(cdrs)))
        BY <1>1, <1>4, <1>5
    <2> HIDE DEF cdrs
    <2> QED
        BY <1>2, <2>1, CdrsReadBack DEF cdrs
<1>7. Decoding(data) = [Hdr |-> h, CdrList |-> CdrsAt(data, Len(cdrs))]
    BY <1>2, <1>5 DEF Decoding
<1> QED
    BY <1>2, <1>6, <1>7 DEF data

-----------------------------------------------------------------------------
(* What OpenCDR, UpdateCDR and CloseCDR make, as values the encoder takes. *)

\* The parameters and the type of a field.
LEMMA FieldParts ==
    ASSUME NEW n \in Nat, NEW type
    PROVE  Field(n, type).params \in Params /\ Field(n, type).type = type
    BY DEF Field, Params, Plain, NoTag

\* A value without fields is one of any level.
LEMMA SimpleValue ==
    ASSUME NEW value, NEW type, Simple(value, type)
    PROVE  /\ Value1(value, type) /\ Value2(value, type) /\ Value3(value, type)
           /\ Value4(value, type) /\ Value5(value, type) /\ Value6(value, type)
    BY DEF Value1, Value2, Value3, Value4, Value5, Value6, HasType

\* Integers are values of the integer types, octets of the string types.
LEMMA SimpleKinds ==
    /\ \A n \in Int : Simple(n, Integer) /\ Simple(n, EnumeratedType)
    /\ \A m \in Seq(Byte) : Simple(m, OctetStringType) /\ Simple(m, StringType)
    BY DEF Simple, Integer, EnumeratedType, OctetStringType, StringType

\* What makes a structure of two levels.
LEMMA Value2Parts ==
    ASSUME NEW value, NEW type
    PROVE  /\ /\ type.kind = "struct" /\ IsFields(type.fields) /\ DOMAIN value = DOMAIN type.fields
              /\ \E i \in DOMAIN value : value[i] # <<>>
              /\ \A i \in DOMAIN value : value[i] # <<>> => Value1(value[i][1], type.fields[i].type)
              => Value2(value, type)
    BY DEF Value2, HasType

\* What makes a list of three levels.
LEMMA Value3Parts ==
    ASSUME NEW value, NEW type
    PROVE  /\ /\ type.kind = "slice" /\ IsSequence(value)
              /\ \A i \in DOMAIN value : Value2(value[i], type.type)
              => Value3(value, type)
    BY DEF Value3, HasType

\* What makes a structure or a choice of four levels.
LEMMA Value4Parts ==
    ASSUME NEW value, NEW type
    PROVE  /\ /\ type.kind = "struct" /\ IsFields(type.fields) /\ DOMAIN value = DOMAIN type.fields
              /\ \E i \in DOMAIN value : value[i] # <<>>
              /\ \A i \in DOMAIN value : value[i] # <<>> => Value3(value[i][1], type.fields[i].type)
              => Value4(value, type)
           /\ /\ type.kind = "choice" /\ IsFields(type.fields)
              /\ value.Present \in DOMAIN type.fields
              /\ Value3(value.Value, type.fields[value.Present].type)
              => Value4(value, type)
    BY DEF Value4, HasType

\* What makes a structure or a list of five levels.
LEMMA Value5Parts ==
    ASSUME NEW value, NEW type
    PROVE  /\ /\ type.kind = "struct" /\ IsFields(type.fields) /\ DOMAIN value = DOMAIN type.fields
              /\ \E i \in DOMAIN value : value[i] # <<>>
              /\ \A i \in DOMAIN value : value[i] # <<>> => Value4(value[i][1], type.fields[i].type)
              => Value5(value, type)
           /\ /\ type.kind = "slice" /\ IsSequence(value)
              /\ \A i \in DOMAIN value : Value4(value[i], type.type)
              => Value5(value, type)
    BY DEF Value5, HasType

\* What makes a structure of six levels.
LEMMA Value6Parts ==
    ASSUME NEW value, NEW type
    PROVE  /\ /\ type.kind = "struct" /\ IsFields(type.fields) /\ DOMAIN value = DOMAIN type.fields
              /\ \E i \in DOMAIN value : value[i] # <<>>
              /\ \A i \in DOMAIN value : value[i] # <<>> => Value5(value[i][1], type.fields[i].type)
              => Value6(value, type)
    BY DEF Value6, HasType

\* The fields of UsedUnitContainer.
LEMMA UsedUnitContainerFields ==
    LET fields == UsedUnitContainer.fields
    IN  /\ UsedUnitContainer.kind = "struct"
        /\ DOMAIN fields = 1 .. 5
        /\ \A i \in 1 .. 5 : fields[i].params \in Params /\ fields[i].type = Integer
    BY FieldParts DEF UsedUnitContainer, Struct

\* UsedUnitContainerToCdr makes a UsedUnitContainer.
LEMMA UsedUnitContainerValue ==
    ASSUME NEW container \in UsedUnits
    PROVE  Value2(UsedUnitContainerToCdr(container), UsedUnitContainer)
<1> DEFINE value == UsedUnitContainerToCdr(container)
<1>1. /\ DOMAIN value = 1 .. 5
      /\ \A i \in 1 .. 5 : value[i] # <<>> /\ value[i][1] \in Int
    BY DEF UsedUnitContainerToCdr, Some, UsedUnits
<1>2. \A i \in 1 .. 5 : Value1(value[i][1], UsedUnitContainer.fields[i].type)
    BY <1>1, UsedUnitContainerFields, SimpleKinds, SimpleValue
<1> HIDE DEF value
<1>3. IsFields(UsedUnitContainer.fields)
    BY UsedUnitContainerFields DEF IsFields
<1>4. 1 \in DOMAIN value /\ value[1] # <<>>
    BY <1>1
<1>5. Value2(value, UsedUnitContainer)
    BY <1>1, <1>2, <1>3, <1>4, UsedUnitContainerFields, Value2Parts
<1> QED
    BY <1>5 DEF value

\* The fields of MultipleUnitUsage.
LEMMA MultipleUnitUsageFields ==
    LET fields == MultipleUnitUsage.fields
    IN  /\ MultipleUnitUsage.kind = "struct"
        /\ DOMAIN fields = 1 .. 3
        /\ \A i \in 1 .. 3 : fields[i].params \in Params
        /\ fields[1].type = Integer /\ fields[2].type = Slice(UsedUnitContainer)
        /\ fields[3].type = StringType
    BY FieldParts DEF MultipleUnitUsage, Struct

\* MultiUnitUsageToCdr makes MultipleUnitUsages.
LEMMA UsageValue ==
    ASSUME NEW usages \in Seq(UnitUsage), NEW n \in DOMAIN usages
    PROVE  Value4(MultiUnitUsageToCdr(usages)[n], MultipleUnitUsage)
<1> DEFINE usage == usages[n]
           containers == [k \in DOMAIN usage.UsedUnitContainer |->
                            UsedUnitContainerToCdr(usage.UsedUnitContainer[k])]
           value == MultiUnitUsageToCdr(usages)[n]
<1>1. /\ usage \in UnitUsage /\ usage.RatingGroup \in Int /\ usage.UPFID \in Seq(Byte)
      /\ usage.UsedUnitContainer \in Seq(UsedUnits)
    <2>1. usage \in UnitUsage
        OBVIOUS
    <2> HIDE DEF usage
    <2> QED
        BY <2>1 DEF UnitUsage, Text
<1>2. value = <<Some(usage.RatingGroup), Some(containers), Some(usage.UPFID)>>
    BY DEF MultiUnitUsageToCdr
<1> HIDE DEF usage
<1>3. DOMAIN containers = 1 .. Len(usage.UsedUnitContainer) /\ Len(usage.UsedUnitContainer) \in Nat
    BY <1>1
<1>4. ASSUME NEW k \in DOMAIN containers
      PROVE  Value2(containers[k], UsedUnitContainer)
    <2>1. usage.UsedUnitContainer[k] \in UsedUnits
        BY <1>1, <1>4
    <2> QED
        BY <2>1, UsedUnitContainerValue
<1>5. IsSequence(containers)
    <2> DEFINE S == {UsedUnitContainerToCdr(c) : c \in UsedUnits}
    <2>1. \A k \in 1 .. Len(usage.UsedUnitContainer) : containers[k] \in S
        BY <1>1
    <2>2. containers \in [1 .. Len(usage.UsedUnitContainer) -> S]
        BY <1>3, <2>1
    <2>3. containers \in Seq(S)
        BY <1>3, <2>2, SeqDef
    <2> QED
        BY <2>3 DEF IsSequence
<1> HIDE DEF containers, value
<1>6. Value3(containers, Slice(UsedUnitContainer))
    BY <1>4, <1>5, Value3Parts DEF Slice
<1>7. Value3(usage.RatingGroup, Integer) /\ Value3(usage.UPFID, StringType)
    BY <1>1, SimpleKinds, SimpleValue
<1>8. /\ DOMAIN value = 1 .. 3 /\ value[1] # <<>> /\ 1 \in DOMAIN value
      /\ value[1][1] = usage.RatingGroup /\ value[2][1] = containers /\ value[3][1] = usage.UPFID
    BY <1>2 DEF Some
<1>9. \A i \in 1 .. 3 : Value3(value[i][1], MultipleUnitUsage.fields[i].type)
    <2> TAKE i \in 1 .. 3
    <2>1. i = 1 \/ i = 2 \/ i = 3
        OBVIOUS
    <2> QED
        BY <2>1, <1>6, <1>7, <1>8, MultipleUnitUsageFields
<1>10. IsFields(MultipleUnitUsage.fields)
    BY MultipleUnitUsageFields DEF IsFields
<1>11. Value4(value, MultipleUnitUsage)
    BY <1>8, <1>9, <1>10, MultipleUnitUsageFields, Value4Parts
<1> QED
    BY <1>11 DEF value

\* OpenCDR makes a SubscriptionID, or none.
LEMMA SubscriberValue ==
    ASSUME NEW supi \in [type : STRING, data : Text]
    PROVE  LET value == SubscriberOf(supi)
           IN value # <<>> => Value5(value[1], SubscriptionID)
<1> DEFINE value == SubscriberOf(supi)[1]
<1>1. SUFFICES ASSUME SubscriberOf(supi) # <<>> PROVE Value5(value, SubscriptionID)
    OBVIOUS
<1>2. PICK n \in Nat : value = <<Some(n), Some(supi.data)>>
    BY <1>1 DEF SubscriberOf, Some, Nil
<1>3. supi.data \in Seq(Byte) /\ n \in Int
    BY DEF Text
<1>4. /\ SubscriptionID.kind = "struct" /\ DOMAIN SubscriptionID.fields = 1 .. 2
      /\ \A i \in 1 .. 2 : SubscriptionID.fields[i].params \in Params
      /\ SubscriptionID.fields[1].type = EnumeratedType
      /\ SubscriptionID.fields[2].type = StringType
    BY FieldParts DEF SubscriptionID, Struct
<1> HIDE DEF value
<1>5. /\ DOMAIN value = 1 .. 2 /\ 1 \in DOMAIN value /\ value[1] # <<>>
      /\ value[1][1] = n /\ value[2][1] = supi.data
    BY <1>2 DEF Some
<1>6. Value4(n, EnumeratedType) /\ Value4(supi.data, StringType)
    BY <1>3, SimpleKinds, SimpleValue
<1>7. \A i \in 1 .. 2 : Value4(value[i][1], SubscriptionID.fields[i].type)
    <2> TAKE i \in 1 .. 2
    <2>1. i = 1 \/ i = 2
        OBVIOUS
    <2> QED
        BY <2>1, <1>4, <1>5, <1>6
<1>8. IsFields(SubscriptionID.fields)
    BY <1>4 DEF IsFields
<1> QED
    BY <1>4, <1>5, <1>7, <1>8, Value5Parts

\* The addresses of a consumer, in text, are choices that are made.
LEMMA AddressValue ==
    ASSUME NEW text \in Seq(Byte)
    PROVE  /\ Value4([Present |-> 3, Value |-> text], IPAddress)
           /\ Value4([Present |-> 4, Value |-> text], IPAddress)
           /\ Value4([Present |-> 2, Value |-> text], NodeAddress)
<1>1. /\ IPAddress.kind = "choice" /\ DOMAIN IPAddress.fields = 1 .. 4
      /\ \A i \in 1 .. 4 : IPAddress.fields[i].params \in Params
      /\ IPAddress.fields[3].type = StringType /\ IPAddress.fields[4].type = StringType
    BY FieldParts DEF IPAddress, Choice
<1>2. /\ NodeAddress.kind = "choice" /\ DOMAIN NodeAddress.fields = 1 .. 2
      /\ \A i \in 1 .. 2 : NodeAddress.fields[i].params \in Params
      /\ NodeAddress.fields[2].type = StringType
    BY FieldParts DEF NodeAddress, Choice
<1>3. IsFields(IPAddress.fields) /\ IsFields(NodeAddress.fields)
    BY <1>1, <1>2 DEF IsFields
<1>4. Value3(text, StringType)
    BY SimpleKinds, SimpleValue
<1>5. Value4([Present |-> 3, Value |-> text], IPAddress)
    BY <1>1, <1>3, <1>4, Value4Parts
<1>6. Value4([Present |-> 4, Value |-> text], IPAddress)
    BY <1>1, <1>3, <1>4, Value4Parts
<1>7. Value4([Present |-> 2, Value |-> text], NodeAddress)
    BY <1>2, <1>3, <1>4, Value4Parts
<1> QED
    BY <1>5, <1>6, <1>7

\* The bits of two octets are those of an octet.
LEMMA OrBytes ==
    ASSUME NEW a, NEW b
    PROVE  Or(a, b) \in Byte
<1> DEFINE One(weight) == IF 1 \in {(a \div weight) % 2, (b \div weight) % 2} THEN weight ELSE 0
<1>1. /\ One(1) \in {0, 1} /\ One(2) \in {0, 2} /\ One(4) \in {0, 4} /\ One(8) \in {0, 8}
      /\ One(16) \in {0, 16} /\ One(32) \in {0, 32} /\ One(64) \in {0, 64}
      /\ One(128) \in {0, 128}
    OBVIOUS
<1>2. Or(a, b) = One(1) + One(2) + One(4) + One(8) + One(16) + One(32) + One(64) + One(128)
    BY DEF Or
<1> HIDE DEF One
<1> QED
    BY <1>1, <1>2 DEF Byte, Under

\* TimeStampToCdr makes octets, of any time.
LEMMA TimeStampBytes ==
    ASSUME NEW t
    PROVE  TimeStampToCdr(t) \in Seq(Byte)
<1>1. \A n : Bcd(n) \in Byte
    BY OrBytes DEF Bcd
<1>2. (IF t.zone >= 0 THEN 43 ELSE 45) \in Byte
    BY DEF Byte, Under
<1> QED
    BY <1>1, <1>2 DEF TimeStampToCdr

\* PlmnIdToCdr makes octets.
LEMMA PlmnIdBytes ==
    ASSUME NEW plmn \in PlmnId
    PROVE  PlmnIdToCdr(plmn) \in Seq(Byte)
<1> DEFINE mcc == plmn.mcc
           mnc == plmn.mnc
           last == IF Len(mnc) = 2 THEN 15 ELSE mnc[3]
<1>1. \A d \in Under(10) : d \in Nat /\ d < 16
    BY DEF Under
<1>2. mcc[1] \in Under(10) /\ mcc[2] \in Under(10) /\ mcc[3] \in Under(10)
    BY DEF PlmnId
<1>3. mnc[1] \in Under(10) /\ mnc[2] \in Under(10)
    BY DEF PlmnId
<1>4. last \in Nat /\ last < 16
    <2>1. CASE mnc \in [1 .. 2 -> Under(10)]
        BY <2>1
    <2>2. CASE mnc \in [1 .. 3 -> Under(10)]
        BY <1>1, <2>2
    <2> QED
        BY <2>1, <2>2 DEF PlmnId
<1> HIDE DEF mcc, mnc, last
<1>5. ASSUME NEW a \in Nat, NEW b \in Nat, a < 16, b < 16
      PROVE  16 * a + b \in Byte
    BY <1>5 DEF Byte, Under
<1>6. /\ 16 * mcc[2] + mcc[1] \in Byte /\ 16 * last + mcc[3] \in Byte
      /\ 16 * mnc[2] + mnc[1] \in Byte
    BY <1>1, <1>2, <1>3, <1>4, <1>5
<1>7. PlmnIdToCdr(plmn)
        = <<16 * mcc[2] + mcc[1], 16 * last + mcc[3], 16 * mnc[2] + mnc[1]>>
    BY DEF PlmnIdToCdr, mcc, mnc, last
<1> QED
    BY <1>6, <1>7

\* OpenCDR makes a NetworkFunctionInformation of every consumer.
LEMMA ConsumerValue ==
    ASSUME NEW nf \in NfIdentification
    PROVE  Value5(ConsumerInfo(nf), NetworkFunctionInformation)
<1> DEFINE value == ConsumerInfo(nf)
           fields == NetworkFunctionInformation.fields
<1>1. /\ nf.NFName \in Seq(Byte) /\ nf.NFIPv4Address \in Seq(Byte) /\ nf.NFIPv6Address \in Seq(Byte)
      /\ nf.NFFqdn \in Seq(Byte)
      /\ nf.NFPLMNID # Nil => nf.NFPLMNID[1] \in PlmnId
    BY DEF NfIdentification, Text, Optional, Nil
<1>2. /\ NetworkFunctionInformation.kind = "struct" /\ DOMAIN fields = 1 .. 6
      /\ \A i \in 1 .. 6 : fields[i].params \in Params
      /\ fields[1].type = EnumeratedType /\ fields[2].type = StringType
      /\ fields[3].type = IPAddress /\ fields[4].type = OctetStringType
      /\ fields[5].type = IPAddress /\ fields[6].type = NodeAddress
    BY FieldParts DEF NetworkFunctionInformation, Struct
<1>3. /\ value[1] = Some(NetworkFunctionality(nf.NodeFunctionality))
      /\ value[2] = IfPresent(nf.NFName)
      /\ value[3] # <<>> => value[3] = Some([Present |-> 3, Value |-> nf.NFIPv4Address])
      /\ value[4] # <<>> => nf.NFPLMNID # Nil /\ value[4] = Some(PlmnIdToCdr(nf.NFPLMNID[1]))
      /\ value[5] # <<>> => value[5] = Some([Present |-> 4, Value |-> nf.NFIPv6Address])
      /\ value[6] # <<>> => value[6] = Some([Present |-> 2, Value |-> nf.NFFqdn])
      /\ DOMAIN value = 1 .. 6
    BY DEF ConsumerInfo, Nil
<1> HIDE DEF value, fields
<1>4. value[1] # <<>> /\ Value4(value[1][1], fields[1].type)
    <2>1. NetworkFunctionality(nf.NodeFunctionality) \in Int
        BY DEF NetworkFunctionality
    <2>2. value[1] # <<>> /\ value[1][1] = NetworkFunctionality(nf.NodeFunctionality)
        BY <1>3 DEF Some
    <2> QED
        BY <1>2, <2>1, <2>2, SimpleKinds, SimpleValue
<1>5. value[2] # <<>> => Value4(value[2][1], fields[2].type)
    <2>1. value[2] # <<>> => value[2][1] = nf.NFName
        BY <1>3 DEF IfPresent, Some, Nil
    <2> QED
        BY <1>1, <1>2, <2>1, SimpleKinds, SimpleValue
<1>6. value[3] # <<>> => Value4(value[3][1], fields[3].type)
    <2>1. value[3] # <<>> => value[3][1] = [Present |-> 3, Value |-> nf.NFIPv4Address]
        BY <1>3 DEF Some
    <2> QED
        BY <1>1, <1>2, <2>1, AddressValue
<1>7. value[4] # <<>> => Value4(value[4][1], fields[4].type)
    <2>1. value[4] # <<>> => value[4][1] \in Seq(Byte)
        BY <1>1, <1>3, PlmnIdBytes DEF Some
    <2> QED
        BY <1>2, <2>1, SimpleKinds, SimpleValue
<1>8. value[5] # <<>> => Value4(value[5][1], fields[5].type)
    <2>1. value[5] # <<>> => value[5][1] = [Present |-> 4, Value |-> nf.NFIPv6Address]
        BY <1>3 DEF Some
    <2> QED
        BY <1>1, <1>2, <2>1, AddressValue
<1>9. value[6] # <<>> => Value4(value[6][1], fields[6].type)
    <2>1. value[6] # <<>> => value[6][1] = [Present |-> 2, Value |-> nf.NFFqdn]
        BY <1>3 DEF Some
    <2> QED
        BY <1>1, <1>2, <2>1, AddressValue
<1>10. \A i \in 1 .. 6 : value[i] # <<>> => Value4(value[i][1], fields[i].type)
    <2> TAKE i \in 1 .. 6
    <2>1. i = 1 \/ i = 2 \/ i = 3 \/ i = 4 \/ i = 5 \/ i = 6
        OBVIOUS
    <2> QED
        BY <2>1, <1>4, <1>5, <1>6, <1>7, <1>8, <1>9
<1>11. IsFields(fields)
    BY <1>2 DEF IsFields
<1>12. 1 \in DOMAIN value
    BY <1>3
<1>13. Value5(value, NetworkFunctionInformation)
    BY <1>2, <1>3, <1>4, <1>10, <1>11, <1>12, Value5Parts DEF fields
<1> QED
    BY <1>13 DEF value

\* OpenCDR makes a PDUSessionChargingInformation of every PDU session.
LEMMA PduValue ==
    ASSUME NEW pdu \in PduInformation
    PROVE  Value5(PduInfo(pdu), PDUSessionChargingInformation)
<1> DEFINE slice == <<Some(pdu.Sst), Some(pdu.Sd)>>
           value == PduInfo(pdu)
           fields == PDUSessionChargingInformation.fields
<1>1. /\ pdu.ChargingId \in Int /\ pdu.PduSessionID \in Int /\ pdu.Sst \in Int
      /\ pdu.Sd \in Seq(Byte) /\ pdu.DnnId \in Seq(Byte)
    BY DEF PduInformation, Text
<1>2. /\ SingleNSSAI.kind = "struct" /\ DOMAIN SingleNSSAI.fields = 1 .. 2
      /\ \A i \in 1 .. 2 : SingleNSSAI.fields[i].params \in Params
      /\ SingleNSSAI.fields[1].type = Integer /\ SingleNSSAI.fields[2].type = OctetStringType
    BY FieldParts DEF SingleNSSAI, Struct
<1>3. /\ PDUSessionChargingInformation.kind = "struct" /\ DOMAIN fields = 1 .. 4
      /\ \A i \in 1 .. 4 : fields[i].params \in Params
      /\ fields[1].type = Integer /\ fields[2].type = Integer
      /\ fields[3].type = SingleNSSAI /\ fields[4].type = StringType
    BY FieldParts DEF PDUSessionChargingInformation, Struct
<1>4. value = <<Some(pdu.ChargingId), Some(pdu.PduSessionID), Some(slice), Some(pdu.DnnId)>>
    BY DEF PduInfo
<1>5. /\ DOMAIN slice = 1 .. 2 /\ 1 \in DOMAIN slice /\ slice[1] # <<>>
      /\ slice[1][1] = pdu.Sst /\ slice[2][1] = pdu.Sd
    BY DEF Some
<1> HIDE DEF slice, value, fields
<1>6. /\ DOMAIN value = 1 .. 4 /\ 1 \in DOMAIN value /\ value[1] # <<>>
      /\ value[1][1] = pdu.ChargingId /\ value[2][1] = pdu.PduSessionID
      /\ value[3][1] = slice /\ value[4][1] = pdu.DnnId
    BY <1>4 DEF Some
<1>7. Value3(slice[1][1], Integer) /\ Value3(slice[2][1], OctetStringType)
    BY <1>1, <1>5, SimpleKinds, SimpleValue
<1>8. \A i \in 1 .. 2 : Value3(slice[i][1], SingleNSSAI.fields[i].type)
    <2> TAKE i \in 1 .. 2
    <2>1. i = 1 \/ i = 2
        OBVIOUS
    <2> QED
        BY <2>1, <1>2, <1>7
<1>9. Value4(slice, SingleNSSAI)
    <2>1. IsFields(SingleNSSAI.fields)
        BY <1>2 DEF IsFields
    <2> QED
        BY <1>2, <1>5, <1>8, <2>1, Value4Parts
<1>10. /\ Value4(value[1][1], Integer) /\ Value4(value[2][1], Integer)
       /\ Value4(value[3][1], SingleNSSAI) /\ Value4(value[4][1], StringType)
    BY <1>1, <1>6, <1>9, SimpleKinds, SimpleValue
<1>11. \A i \in 1 .. 4 : Value4(value[i][1], fields[i].type)
    <2> TAKE i \in 1 .. 4
    <2>1. i = 1 \/ i = 2 \/ i = 3 \/ i = 4
        OBVIOUS
    <2> QED
        BY <2>1, <1>3, <1>10
<1>12. IsFields(fields)
    BY <1>3 DEF IsFields
<1>13. Value5(value, PDUSessionChargingInformation)
    BY <1>3, <1>6, <1>11, <1>12, Value5Parts DEF fields
<1> QED
    BY <1>13 DEF value

\* OpenCDR makes a RegistrationChargingInformation.
LEMMA RegistrationValue ==
    Value5(<<Some(0)>>, RegistrationChargingInformation)
<1> DEFINE value == <<Some(0)>>
           fields == RegistrationChargingInformation.fields
<1>1. /\ RegistrationChargingInformation.kind = "struct" /\ DOMAIN fields = 1 .. 1
      /\ \A i \in 1 .. 1 : fields[i].params \in Params /\ fields[i].type = EnumeratedType
    BY FieldParts DEF RegistrationChargingInformation, Struct
<1>2. DOMAIN value = 1 .. 1 /\ 1 \in DOMAIN value /\ value[1] # <<>> /\ value[1][1] = 0
    BY DEF Some
<1>3. Value4(0, EnumeratedType)
    BY SimpleKinds, SimpleValue
<1> HIDE DEF value, fields
<1>4. \A i \in 1 .. 1 : Value4(value[i][1], fields[i].type)
    <2> TAKE i \in 1 .. 1
    <2>1. i = 1
        OBVIOUS
    <2> QED
        BY <2>1, <1>1, <1>2, <1>3
<1>5. IsFields(fields)
    BY <1>1 DEF IsFields
<1>6. Value5(value, RegistrationChargingInformation)
    BY <1>1, <1>2, <1>4, <1>5, Value5Parts DEF fields
<1> QED
    BY <1>6 DEF value

\* The fields of a record, each nil or of its type; the first is never nil.
IsRecordValue(v) ==
    /\ DOMAIN v = 1 .. 15
    /\ v[1] # <<>>
    /\ \A i \in 1 .. 15 : v[i] # <<>> => Value5(v[i][1], ChargingRecord.fields[i].type)

IsRecord(record) ==
    /\ DOMAIN record = {"Present", "Value"}
    /\ record.Present = 1
    /\ IsRecordValue(record.Value)

\* The fields of ChargingRecord.
LEMMA ChargingRecordFields ==
    LET fields == ChargingRecord.fields
    IN  /\ ChargingRecord.kind = "struct" /\ DOMAIN fields = 1 .. 15
        /\ \A i \in 1 .. 15 : fields[i].params \in Params
        /\ fields[1].type = Integer /\ fields[2].type = StringType
        /\ fields[3].type = SubscriptionID /\ fields[4].type = NetworkFunctionInformation
        /\ fields[5].type = Slice(MultipleUnitUsage) /\ fields[6].type = OctetStringType
        /\ fields[7].type = Integer /\ fields[8].type = Integer /\ fields[9].type = Integer
        /\ fields[10].type = Integer /\ fields[11].type = PDUSessionChargingInformation
        /\ fields[12].type = OctetStringType /\ fields[13].type = OctetStringType
        /\ fields[14].type = RegistrationChargingInformation /\ fields[15].type = Integer
    BY FieldParts DEF ChargingRecord, Struct

\* A record is encoded without an error and without a panic.
LEMMA RecordEncoded ==
    ASSUME NEW record, IsRecord(record)
    PROVE  /\ Outcome(record, CHFRecord, Plain) = "ok"
           /\ Marshal(record, CHFRecord, Plain) \in Encoded
<1>1. IsFields(ChargingRecord.fields)
    BY ChargingRecordFields DEF IsFields
<1>2. 1 \in 1 .. 15 /\ IsRecordValue(record.Value)
    BY DEF IsRecord
<1>3. Value6(record.Value, ChargingRecord)
    BY <1>1, <1>2, ChargingRecordFields, Value6Parts DEF IsRecordValue
<1>4. /\ CHFRecord.kind = "choice" /\ DOMAIN CHFRecord.fields = 1 .. 1
      /\ \A i \in 1 .. 1 : /\ CHFRecord.fields[i].params \in Params
                           /\ CHFRecord.fields[i].type = ChargingRecord
    BY FieldParts DEF CHFRecord, Choice
<1>5. IsFields(CHFRecord.fields) /\ record.Present \in DOMAIN CHFRecord.fields
    BY <1>4 DEF IsFields, IsRecord
<1>6. CHFRecord.fields[record.Present].type = ChargingRecord
    BY <1>4 DEF IsRecord
<1>7. Value(record, CHFRecord)
    BY <1>3, <1>4, <1>5, <1>6 DEF Value, HasType
<1>8. Plain \in Params
    BY DEF Plain, Params, NoTag
<1> QED
    BY <1>7, <1>8, EncodedAll

\* OpenCDR makes a record of every request.
LEMMA OpenedRecord ==
    ASSUME NEW request \in ChargingDataRequest, NEW time, NEW number \in Int, NfId \in Text
    PROVE  IsRecord(OpenCDR(request, NfId, time, number))
<1> DEFINE record == OpenCDR(request, NfId, time, number)
           v == record.Value
           fields == ChargingRecord.fields
<1>1. /\ request.Supi \in [type : STRING, data : Text]
      /\ request.SessionId \in Seq(Byte) /\ request.ServiceSpecificationInfo \in Seq(Byte)
      /\ request.ChargingId \in Int
      /\ request.NfConsumerIdentification \in NfIdentification
      /\ request.Pdu # Nil => request.Pdu[1] \in PduInformation
      /\ NfId \in Seq(Byte)
    BY DEF ChargingDataRequest, Text, Optional, Nil
<1>2. DOMAIN record = {"Present", "Value"} /\ record.Present = 1
    BY DEF OpenCDR
<1>3. /\ DOMAIN v = 1 .. 15
      /\ v[1] = Some(200) /\ v[2] = Some(NfId) /\ v[3] = SubscriberOf(request.Supi)
      /\ v[4] = Some(ConsumerInfo(request.NfConsumerIdentification)) /\ v[5] = Nil
      /\ v[6] = Some(TimeStampToCdr(time)) /\ v[7] = Some(0) /\ v[8] = Nil /\ v[9] = Some(0)
      /\ v[10] = Some(number)
      /\ v[11] = (IF request.Pdu = Nil THEN Nil ELSE Some(PduInfo(request.Pdu[1])))
      /\ v[12] = IfPresent(request.SessionId)
      /\ v[13] = IfPresent(request.ServiceSpecificationInfo)
      /\ v[14] = (IF request.Registration THEN Some(<<Some(0)>>) ELSE Nil)
      /\ v[15] = Some(request.ChargingId)
    BY DEF OpenCDR
<1> HIDE DEF record, v, fields
<1>4. \A x : Some(x) # <<>> /\ Some(x)[1] = x
    BY DEF Some
<1>5. /\ v[1][1] \in Int /\ v[7][1] \in Int /\ v[9][1] \in Int /\ v[10][1] \in Int
      /\ v[15][1] \in Int /\ v[1] # <<>>
    <2>1. /\ v[1][1] = 200 /\ v[7][1] = 0 /\ v[9][1] = 0 /\ v[10][1] = number
          /\ v[15][1] = request.ChargingId /\ v[1] # <<>>
        BY <1>3, <1>4
    <2> QED
        BY <1>1, <2>1
<1>6. /\ v[2][1] \in Seq(Byte) /\ v[6][1] \in Seq(Byte)
      /\ v[12] # <<>> => v[12][1] \in Seq(Byte)
      /\ v[13] # <<>> => v[13][1] \in Seq(Byte)
    <2>1. v[2][1] = NfId /\ v[6][1] = TimeStampToCdr(time)
        BY <1>3, <1>4
    <2>2. \A m : IfPresent(m) # <<>> => IfPresent(m)[1] = m
        BY <1>4 DEF IfPresent, Nil
    <2>3. /\ v[12] # <<>> => v[12][1] = request.SessionId
          /\ v[13] # <<>> => v[13][1] = request.ServiceSpecificationInfo
        BY <1>3, <2>2
    <2>4. TimeStampToCdr(time) \in Seq(Byte)
        BY TimeStampBytes
    <2> QED
        BY <1>1, <2>1, <2>3, <2>4
<1>7. Nil = <<>> /\ v[5] = <<>> /\ v[8] = <<>>
    BY <1>3 DEF Nil
<1>8. v[3] # <<>> => Value5(v[3][1], SubscriptionID)
    BY <1>1, <1>3, SubscriberValue
<1>9. Value5(v[4][1], NetworkFunctionInformation)
    BY <1>1, <1>3, <1>4, ConsumerValue, SMTT(30)
<1>10. v[11] # <<>> => Value5(v[11][1], PDUSessionChargingInformation)
    BY <1>1, <1>3, <1>4, <1>7, PduValue, SMTT(30)
<1>11. v[14] # <<>> => Value5(v[14][1], RegistrationChargingInformation)
    BY <1>3, <1>4, <1>7, RegistrationValue
<1>12. /\ Value5(v[1][1], fields[1].type) /\ Value5(v[7][1], fields[7].type)
       /\ Value5(v[9][1], fields[9].type) /\ Value5(v[10][1], fields[10].type)
       /\ Value5(v[15][1], fields[15].type)
    BY <1>5, ChargingRecordFields, SimpleKinds, SimpleValue DEF fields
<1>13. /\ Value5(v[2][1], fields[2].type) /\ Value5(v[6][1], fields[6].type)
       /\ v[12] # <<>> => Value5(v[12][1], fields[12].type)
       /\ v[13] # <<>> => Value5(v[13][1], fields[13].type)
    BY <1>6, ChargingRecordFields, SimpleKinds, SimpleValue DEF fields
<1>14. /\ v[3] # <<>> => Value5(v[3][1], fields[3].type)
       /\ Value5(v[4][1], fields[4].type)
       /\ v[11] # <<>> => Value5(v[11][1], fields[11].type)
       /\ v[14] # <<>> => Value5(v[14][1], fields[14].type)
    BY <1>8, <1>9, <1>10, <1>11, ChargingRecordFields DEF fields
<1>15. \A i \in 1 .. 15 : v[i] # <<>> => Value5(v[i][1], fields[i].type)
    <2> TAKE i \in 1 .. 15
    <2>1. CASE i \in {1, 7, 9, 10, 15}
        BY <2>1, <1>12
    <2>2. CASE i \in {2, 6, 12, 13}
        BY <2>2, <1>13
    <2>3. CASE i \in {3, 4, 11, 14}
        BY <2>3, <1>14
    <2>4. CASE i \in {5, 8}
        BY <2>4, <1>7
    <2>5. i \in {1, 7, 9, 10, 15} \/ i \in {2, 6, 12, 13} \/ i \in {3, 4, 11, 14} \/ i \in {5, 8}
        OBVIOUS
    <2> QED
        BY <2>1, <2>2, <2>3, <2>4, <2>5
<1>16. IsRecord(record)
    BY <1>2, <1>3, <1>5, <1>15 DEF IsRecord, IsRecordValue, v, fields
<1> QED
    BY <1>16 DEF record

\* A record one of whose fields is set is a record.
LEMMA SetField ==
    ASSUME NEW record, IsRecord(record), NEW n \in 1 .. 15, n # 1, NEW x,
           Value5(x, ChargingRecord.fields[n].type)
    PROVE  IsRecord([record EXCEPT !.Value[n] = Some(x)])
<1> DEFINE changed == [record EXCEPT !.Value[n] = Some(x)]
           v == record.Value
           w == changed.Value
<1>1. DOMAIN record = {"Present", "Value"} /\ record.Present = 1 /\ IsRecordValue(v)
    BY DEF IsRecord
<1>2. /\ DOMAIN changed = {"Present", "Value"} /\ changed.Present = 1
      /\ w = [v EXCEPT ![n] = Some(x)]
    BY <1>1
<1> HIDE DEF changed, v, w
<1>3. DOMAIN w = 1 .. 15 /\ w[1] = v[1] /\ w[1] # <<>>
    BY <1>1, <1>2 DEF IsRecordValue
<1>4. \A i \in 1 .. 15 : w[i] # <<>> => Value5(w[i][1], ChargingRecord.fields[i].type)
    <2> TAKE i \in 1 .. 15
    <2>1. CASE i = n
        <3>1. w[i] = Some(x)
            BY <1>1, <1>2, <2>1 DEF IsRecordValue
        <3>2. w[i][1] = x
            BY <3>1 DEF Some
        <3> QED
            BY <2>1, <3>2
    <2>2. CASE i # n
        BY <1>1, <1>2, <2>2 DEF IsRecordValue
    <2> QED
        BY <2>1, <2>2
<1>5. IsRecord(changed)
    BY <1>2, <1>3, <1>4 DEF IsRecord, IsRecordValue, w
<1> QED
    BY <1>5 DEF changed

\* CloseCDR leaves a record.
LEMMA ClosedRecord ==
    ASSUME NEW record, IsRecord(record), NEW partial \in BOOLEAN
    PROVE  IsRecord(CloseCDR(record, partial))
<1>1. (IF partial THEN 1 ELSE 0) \in Int
    OBVIOUS
<1>2. Value5(IF partial THEN 1 ELSE 0, ChargingRecord.fields[9].type)
    BY <1>1, ChargingRecordFields, SimpleKinds, SimpleValue
<1> QED
    BY <1>2, SetField DEF CloseCDR, CauseForRecClosing

\* UpdateCDR leaves a record, whatever was reported before.
LEMMA UpdatedRecord ==
    ASSUME NEW record, IsRecord(record), NEW usages \in Seq(UnitUsage)
    PROVE  IsRecord(UpdateCDR(record, usages))
<1> DEFINE field == record.Value[ListOfMultipleUnitUsage]
           old == IF field = Nil THEN <<>> ELSE field[1]
           new == MultiUnitUsageToCdr(usages)
<1>1. CASE usages = <<>>
    BY <1>1 DEF UpdateCDR
<1>2. CASE usages # <<>>
    <2>1. IsSequence(old) /\ \A i \in DOMAIN old : Value4(old[i], MultipleUnitUsage)
        <3>1. CASE field = <<>>
            <4>1. old = <<>>
                BY <3>1 DEF Nil
            <4>2. <<>> \in Seq({}) /\ DOMAIN <<>> = {}
                BY EmptySeq
            <4> QED
                BY <4>1, <4>2 DEF IsSequence
        <3>2. CASE field # <<>>
            <4>1. old = field[1]
                BY <3>2 DEF Nil
            <4>2. Value5(old, Slice(MultipleUnitUsage))
                BY <3>2, <4>1, ChargingRecordFields
                   DEF IsRecord, IsRecordValue, ListOfMultipleUnitUsage
            <4> HIDE DEF old
            <4> QED
                BY <4>2 DEF Value5, HasType, Slice, Simple
        <3> QED
            BY <3>1, <3>2
    <2>2. IsSequence(new) /\ \A i \in DOMAIN new : Value4(new[i], MultipleUnitUsage)
        <3>1. DOMAIN new = 1 .. Len(usages) /\ Len(usages) \in Nat /\ DOMAIN usages = DOMAIN new
            BY DEF MultiUnitUsageToCdr
        <3>2. \A i \in DOMAIN new : Value4(new[i], MultipleUnitUsage)
            BY <3>1, UsageValue
        <3> DEFINE S == {new[i] : i \in 1 .. Len(usages)}
        <3>3. new = [i \in 1 .. Len(usages) |-> new[i]]
            BY <3>1 DEF MultiUnitUsageToCdr
        <3> HIDE DEF new
        <3>4. new \in [1 .. Len(usages) -> S]
            BY <3>3
        <3>5. new \in Seq(S)
            BY <3>1, <3>4, SeqDef
        <3> QED
            BY <3>2, <3>5 DEF IsSequence
    <2> HIDE DEF field, old, new
    <2>3. PICK S, T : old \in Seq(S) /\ new \in Seq(T)
        BY <2>1, <2>2 DEF IsSequence
    <2>4. old \in Seq(S \cup T) /\ new \in Seq(S \cup T)
        BY <2>3
    <2>5. /\ old \o new \in Seq(S \cup T)
          /\ Len(old \o new) = Len(old) + Len(new)
          /\ \A i \in 1 .. Len(old) + Len(new) :
                (old \o new)[i] = IF i <= Len(old) THEN old[i] ELSE new[i - Len(old)]
        BY <2>4, ConcatProperties
    <2>6. ASSUME NEW i \in DOMAIN (old \o new)
          PROVE  Value4((old \o new)[i], MultipleUnitUsage)
        <3>1. /\ i \in 1 .. Len(old) + Len(new) /\ Len(old) \in Nat /\ Len(new) \in Nat
              /\ DOMAIN old = 1 .. Len(old) /\ DOMAIN new = 1 .. Len(new)
            BY <2>3, <2>5
        <3>2. CASE i <= Len(old)
            <4>1. i \in DOMAIN old /\ (old \o new)[i] = old[i]
                BY <3>1, <3>2, <2>5
            <4> QED
                BY <4>1, <2>1
        <3>3. CASE ~(i <= Len(old))
            <4>1. i - Len(old) \in DOMAIN new /\ (old \o new)[i] = new[i - Len(old)]
                BY <3>1, <3>3, <2>5
            <4> QED
                BY <4>1, <2>2
        <3> QED
            BY <3>2, <3>3
    <2>7. IsSequence(old \o new)
        BY <2>5 DEF IsSequence
    <2>8. Value5(old \o new, Slice(MultipleUnitUsage))
        <3>1. /\ Slice(MultipleUnitUsage).kind = "slice"
              /\ Slice(MultipleUnitUsage).type = MultipleUnitUsage
            BY DEF Slice
        <3> QED
            BY <2>6, <2>7, <3>1, Value5Parts
    <2>9. ChargingRecord.fields[5].type = Slice(MultipleUnitUsage)
        BY ChargingRecordFields
    <2>10. IsRecord([record EXCEPT !.Value[5] = Some(old \o new)])
        BY <2>8, <2>9, SetField
    <2> QED
        BY <1>2, <2>10 DEF UpdateCDR, ListOfMultipleUnitUsage, old, new, field
<1> QED
    BY <1>1, <1>2

-----------------------------------------------------------------------------
(* The records of a behaviour. *)

AreRecords(r) == IsSequence(r) /\ \A i \in DOMAIN r : IsRecord(r[i])

\* There are no records at first.
LEMMA RecordsInit == Init => AreRecords(records)
<1> SUFFICES ASSUME Init PROVE AreRecords(records)
    OBVIOUS
<1>1. records = <<>>
    BY DEF Init
<1>2. <<>> \in Seq({}) /\ DOMAIN <<>> = {}
    BY EmptySeq
<1> QED
    BY <1>1, <1>2 DEF AreRecords, IsSequence

\* Every step leaves records.
LEMMA RecordsStep ==
    ASSUME AreRecords(records), [Next]_vars
    PROVE  AreRecords(records')
<1>1. PICK S : records \in Seq(S)
    BY DEF AreRecords, IsSequence
<1>2. /\ Len(records) \in Nat /\ DOMAIN records = 1 .. Len(records)
      /\ \A i \in 1 .. Len(records) : IsRecord(records[i])
    BY <1>1 DEF AreRecords
<1>3. ASSUME NEW i \in DOMAIN records, NEW record, IsRecord(record),
             records' = [records EXCEPT ![i] = record]
      PROVE  AreRecords(records')
    <2> DEFINE T == S \cup {record}
    <2>1. records' = [k \in 1 .. Len(records) |-> IF k = i THEN record ELSE records[k]]
        BY <1>2, <1>3
    <2>2. \A k \in 1 .. Len(records) : records[k] \in S
        BY <1>1
    <2>3. records' \in [1 .. Len(records) -> T]
        BY <2>1, <2>2
    <2>4. records' \in Seq(T)
        BY <1>2, <2>3, SeqDef
    <2>5. \A k \in DOMAIN records' : IsRecord(records'[k])
        BY <1>2, <1>3, <2>1
    <2> QED
        BY <2>4, <2>5 DEF AreRecords, IsSequence
<1>4. CASE Open
    <2>1. PICK request \in Requests, time \in Times :
             records' = Append(records,
                 UpdateCDR(OpenCDR(request, NfId, time, Len(records) + 1), request.MultipleUnitUsage))
        BY <1>4 DEF Open
    <2> DEFINE opened == OpenCDR(request, NfId, time, Len(records) + 1)
               record == UpdateCDR(opened, request.MultipleUnitUsage)
               T == S \cup {record}
    <2>2. request \in ChargingDataRequest /\ NfId \in Text
        BY RequestsAssumption
    <2>3. request.MultipleUnitUsage \in Seq(UnitUsage)
        BY <2>2 DEF ChargingDataRequest
    <2>4. IsRecord(opened)
        BY <1>2, <2>2, OpenedRecord
    <2> HIDE DEF opened
    <2>5. IsRecord(record)
        BY <2>3, <2>4, UpdatedRecord
    <2>6. records' = Append(records, record)
        BY <2>1 DEF opened
    <2> HIDE DEF record
    <2>7. records \in Seq(T) /\ record \in T
        BY <1>1
    <2> HIDE DEF T
    <2>8. /\ records' \in Seq(T) /\ Len(records') = Len(records) + 1
          /\ \A i \in 1 .. Len(records) : records'[i] = records[i]
          /\ records'[Len(records) + 1] = record
        BY <2>6, <2>7, AppendProperties
    <2>9. ASSUME NEW i \in DOMAIN records' PROVE IsRecord(records'[i])
        <3>1. i \in 1 .. Len(records) \/ i = Len(records) + 1
            BY <1>2, <2>8
        <3> QED
            BY <3>1, <1>2, <2>5, <2>8
    <2> QED
        BY <2>8, <2>9 DEF AreRecords, IsSequence
<1>5. CASE Update
    <2>1. PICK i \in DOMAIN records, usage \in Usages :
             records' = [records EXCEPT ![i] = UpdateCDR(@, <<usage>>)]
        BY <1>5 DEF Update
    <2>2. usage \in UnitUsage
        BY RequestsAssumption
    <2>3. <<usage>> \in Seq(UnitUsage)
        BY <2>2
    <2>4. IsRecord(UpdateCDR(records[i], <<usage>>))
        BY <1>2, <2>3, UpdatedRecord
    <2>5. records' = [records EXCEPT ![i] = UpdateCDR(records[i], <<usage>>)]
        BY <2>1
    <2> QED
        BY <1>3, <2>4, <2>5
<1>6. CASE Close
    <2>1. PICK i \in DOMAIN records, partial \in BOOLEAN :
             records' = [records EXCEPT ![i] = CloseCDR(@, partial)]
        BY <1>6 DEF Close
    <2>2. IsRecord(CloseCDR(records[i], partial))
        BY <1>2, ClosedRecord
    <2>3. records' = [records EXCEPT ![i] = CloseCDR(records[i], partial)]
        BY <2>1
    <2> QED
        BY <1>3, <2>2, <2>3
<1>7. CASE UNCHANGED records
    BY <1>7
<1>8. CASE DumpCdrFile \/ StoreFile \/ ReadFile
    BY <1>8, <1>7 DEF DumpCdrFile, StoreFile, ReadFile, Write
<1> QED
    BY <1>4, <1>5, <1>6, <1>7, <1>8 DEF Next, vars

\* Every record the CHF makes, of any requests and however many reports, is one
\* that the encoder takes.
THEOREM EveryRecordCanBeEncoded == Spec => []RecordsCanBeEncoded
<1>1. AreRecords(records) => RecordsCanBeEncoded
    BY RecordEncoded DEF AreRecords, RecordsCanBeEncoded
<1>2. AreRecords(records) /\ [Next]_vars => AreRecords(records)'
    BY RecordsStep
<1> QED
    BY <1>1, <1>2, RecordsInit, PTL DEF Spec

-----------------------------------------------------------------------------
(* The files of a behaviour. *)

CdrParameters == [release : Under(8), version : Under(32), tsNumber : Under(32), extension : Byte]

\* A CDR as MakeCdr makes it: of any length, of which its header has 16 bits.
MadeCdr(cdr) ==
    /\ cdr = [Hdr |-> cdr.Hdr, CdrByte |-> cdr.CdrByte]
    /\ cdr.Hdr \in CdrHeader
    /\ cdr.CdrByte \in Encoded
    /\ cdr.Hdr.CdrLength = Len(cdr.CdrByte) % 65536
    /\ cdr.Hdr.ReleaseIdentifier # 7 => cdr.Hdr.ReleaseIdentifierExtension = 0

\* MakeCdr makes a CDR of a record.
LEMMA CdrMade ==
    ASSUME NEW record, IsRecord(record), NEW h \in CdrParameters
    PROVE  MadeCdr(MakeCdr(record, h))
<1> DEFINE bytes == Marshal(record, CHFRecord, Plain)
           cdr == MakeCdr(record, h)
           extension == IF h.release = 7 THEN h.extension ELSE 0
<1>1. bytes \in Encoded
    BY RecordEncoded
<1>2. Len(bytes) \in Nat
    BY <1>1 DEF Encoded
<1>3. Len(bytes) % 65536 \in Number16
    BY <1>2 DEF Number16, Under
<1>4. BasicEncodingRules \in Under(8)
    BY DEF BasicEncodingRules, Under
<1>5. /\ h.release \in Under(8) /\ h.version \in Under(32) /\ h.tsNumber \in Under(32)
      /\ extension \in Byte
    BY DEF CdrParameters, Byte, Under
<1>6. cdr = [Hdr |-> [CdrLength |-> Len(bytes) % 65536,
                      ReleaseIdentifier |-> h.release, VersionIdentifier |-> h.version,
                      DataRecordFormat |-> BasicEncodingRules, TsNumber |-> h.tsNumber,
                      ReleaseIdentifierExtension |-> extension],
             CdrByte |-> bytes]
    BY DEF MakeCdr
<1>7. h.release # 7 => extension = 0
    OBVIOUS
<1> HIDE DEF bytes, cdr, extension
<1>8. cdr.Hdr \in CdrHeader
    BY <1>3, <1>4, <1>5, <1>6 DEF CdrHeader
<1>9. MadeCdr(cdr)
    BY <1>1, <1>6, <1>7, <1>8 DEF MadeCdr
<1> QED
    BY <1>9 DEF cdr

\* A CDR of less than 65536 octets has its length in its header.
LEMMA CdrTrue ==
    ASSUME NEW cdr, MadeCdr(cdr), Len(cdr.CdrByte) < 65536
    PROVE  TrueCdr(cdr)
<1>1. cdr.CdrByte \in Seq(Byte) /\ Len(cdr.CdrByte) \in Nat
    BY DEF MadeCdr, Encoded
<1>2. cdr.Hdr.CdrLength = Len(cdr.CdrByte)
    BY <1>1 DEF MadeCdr
<1>3. cdr \in CDR
    BY <1>1 DEF MadeCdr, CDR
<1> QED
    BY <1>2, <1>3 DEF TrueCdr, MadeCdr

\* A list of CDRs has no fewer octets than CDRs.
LEMMA CdrsCounted ==
    ASSUME NEW cdrs, TrueCdrs(cdrs)
    PROVE  Len(cdrs) \in Nat /\ LengthOfCdrs(cdrs) \in Nat /\ Len(cdrs) <= LengthOfCdrs(cdrs)
<1> DEFINE n == Len(cdrs)
<1>1. PICK f : Layout(cdrs, f) /\ FlattenSeq(Blocks(cdrs)) = f[n]
    BY LayoutExists
<1>2. n \in Nat /\ \A k \in 1 .. n : TrueCdr(cdrs[k])
    BY DEF TrueCdrs
<1>3. \A k \in 1 .. n : Len(Block(cdrs[k])) \in Nat /\ Len(Block(cdrs[k])) > 0
    <2> TAKE k \in 1 .. n
    <2>1. TrueCdr(cdrs[k])
        BY <1>2
    <2> DEFINE h == cdrs[k].Hdr
    <2>2. Len(Block(cdrs[k])) = 4 + Extension(h.ReleaseIdentifier) + h.CdrLength
        BY <2>1, BlockOctets
    <2>3. h.CdrLength \in Nat
        <3>1. h \in CdrHeader
            BY <2>1 DEF TrueCdr, CDR
        <3> QED
            BY <3>1, CdrHeaderFields DEF Number16, Under
    <2>4. Extension(h.ReleaseIdentifier) \in Nat
        BY DEF Extension
    <2> QED
        BY <2>2, <2>3, <2>4
<1>4. /\ Len(f[0]) = 0
      /\ \A k \in 0 .. n : Len(f[k]) \in Nat
      /\ \A k \in 1 .. n : Len(f[k]) = Len(f[k - 1]) + Len(Block(cdrs[k]))
    BY <1>1, LayoutLengths
<1> HIDE DEF n
<1> DEFINE T == {k \in Nat : k <= n => k <= Len(f[k])}
<1>5. 0 \in T
    BY <1>2, <1>4
<1>6. ASSUME NEW k \in Nat, k \in T PROVE k + 1 \in T
    <2>1. SUFFICES ASSUME k + 1 <= n PROVE k + 1 <= Len(f[k + 1])
        OBVIOUS
    <2>2. /\ k + 1 \in 1 .. n /\ k \in 0 .. n /\ (k + 1) - 1 = k /\ k <= Len(f[k])
        BY <1>2, <1>6, <2>1
    <2>3. Len(f[k + 1]) = Len(f[k]) + Len(Block(cdrs[k + 1]))
        BY <1>4, <2>2
    <2>4. Len(f[k]) \in Nat /\ Len(Block(cdrs[k + 1])) \in Nat /\ Len(Block(cdrs[k + 1])) > 0
        BY <1>3, <1>4, <2>2
    <2> DEFINE p == Len(f[k])
               q == Len(Block(cdrs[k + 1]))
               r == Len(f[k + 1])
    <2>5. k \in Nat /\ p \in Nat /\ q \in Nat /\ q > 0 /\ k <= p /\ r = p + q
        BY <2>2, <2>3, <2>4
    <2> HIDE DEF p, q, r
    <2>6. k + 1 <= r
        BY <2>5
    <2> QED
        BY <2>6 DEF r
<1> HIDE DEF T
<1>7. \A k \in Nat : k \in T
    BY <1>5, <1>6, NatSet
<1>8. n <= Len(f[n]) /\ Len(f[n]) \in Nat
    BY <1>2, <1>4, <1>7 DEF T
<1>9. LengthOfCdrs(cdrs) = Len(f[n])
    BY <1>1, LengthOfCdrsCounted
<1> QED
    BY <1>2, <1>8, <1>9 DEF n

\* The header of dumpCdrFile says what it has, which is nothing.
LEMMA NoHeaderTrue == TrueHeader(NoHeader)
<1>1. /\ 0 \in Under(8) /\ 0 \in Under(32) /\ 0 \in Under(16) /\ 0 \in Under(64) /\ 0 \in Under(2)
      /\ 0 \in Byte /\ 0 \in Number16 /\ 0 \in Number32
    BY DEF Under, Byte, Number16, Number32
<1>2. Epoch \in CdrHdrTimeStamp
    BY <1>1 DEF Epoch, CdrHdrTimeStamp
<1>3. <<>> \in Seq(Byte) /\ Len(<<>>) = 0
    BY EmptySeq
<1>4. [i \in 1 .. 20 |-> 0] \in [1 .. 20 -> Byte]
    BY <1>1
<1>5. NoHeader \in CdrFileHeader
    BY <1>1, <1>2, <1>3, <1>4 DEF NoHeader, CdrFileHeader
<1>6. /\ NoHeader.LengthOfCdrRouteingFilter = 0 /\ NoHeader.CDRRouteingFilter = <<>>
      /\ NoHeader.LengthOfPrivateExtension = 0 /\ NoHeader.PrivateExtension = <<>>
      /\ NoHeader.HighReleaseIdentifierExtension = 0
      /\ NoHeader.LowReleaseIdentifierExtension = 0
    BY DEF NoHeader
<1>7. HeaderFits(NoHeader)
    BY <1>6 DEF HeaderFits
<1> QED
    BY <1>3, <1>5, <1>6, <1>7 DEF TrueHeader

\* The numbers that the code counts a file's octets in are large enough.
Fit(made) ==
    /\ made.Hdr.FileLength \in Number32
    /\ \A i \in DOMAIN made.CdrList : Len(made.CdrList[i].CdrByte) < 65536

\* A file that fits has its lengths in its headers, and the number of its CDRs.
LEMMA FileTrue ==
    ASSUME NEW header, TrueHeader(header), NEW n \in Nat, NEW cdrs, DOMAIN cdrs = 1 .. n,
           cdrs = [k \in 1 .. n |-> cdrs[k]],
           \A k \in 1 .. n : MadeCdr(cdrs[k]), Fit(MakeFile(header, cdrs))
    PROVE  LET made == MakeFile(header, cdrs)
           IN /\ TrueFile(made)
              /\ made.Hdr.FileLength = Len(Encoding(made))
              /\ made.Hdr.HeaderLength = Len(FileHeaderEncoding(made.Hdr))
              /\ \A i \in DOMAIN made.CdrList :
                    made.CdrList[i].Hdr.CdrLength = Len(made.CdrList[i].CdrByte)
<1> DEFINE made == MakeFile(header, cdrs)
           h == made.Hdr
           f == header.LengthOfCdrRouteingFilter
           e == header.LengthOfPrivateExtension
           x == Extension(header.HighReleaseIdentifier)
           y == Extension(header.LowReleaseIdentifier)
           length == ((52 + f + e) % 65536) + x + y
<1>1. /\ h = [header EXCEPT !.HeaderLength = length, !.NumberOfCdrsInFile = Len(cdrs),
                            !.FileLength = length + LengthOfCdrs(cdrs)]
      /\ made = [Hdr |-> h, CdrList |-> cdrs] /\ made.CdrList = cdrs
    BY DEF MakeFile
<1>2. header \in CdrFileHeader /\ HeaderFits(header)
    BY DEF TrueHeader
<1>3. f \in Nat /\ e \in Nat
    BY <1>2, HeaderFields DEF Number16, Under
<1>4. x \in {0, 1} /\ y \in {0, 1}
    BY DEF Extension
<1>5. 52 + f + e < 65535
    BY <1>2 DEF HeaderFits
<1> HIDE DEF made, h, f, e, x, y, length
<1>6. length = 52 + f + e + x + y
    BY <1>3, <1>4, <1>5 DEF length
<1>7. length \in Number32
    <2>1. length \in Nat /\ length < 131072
        BY <1>3, <1>4, <1>5, <1>6
    <2> QED
        BY <2>1 DEF Number32
<1>8. /\ h.FileLength \in Number32
      /\ \A k \in 1 .. n : Len(cdrs[k].CdrByte) < 65536
    BY <1>1 DEF Fit, made, h
<1>9. TrueCdrs(cdrs)
    <2>1. \A k \in 1 .. n : TrueCdr(cdrs[k])
        BY <1>8, CdrTrue
    <2>2. \A k \in 1 .. n : cdrs[k] \in CDR
        BY <2>1 DEF TrueCdr
    <2>3. cdrs \in [1 .. n -> CDR]
        BY <2>2
    <2>4. cdrs \in Seq(CDR) /\ Len(cdrs) = n
        BY <2>3, SeqDef
    <2> QED
        BY <2>1, <2>4 DEF TrueCdrs
<1>10. Len(cdrs) \in Nat /\ LengthOfCdrs(cdrs) \in Nat /\ Len(cdrs) <= LengthOfCdrs(cdrs)
    BY <1>9, CdrsCounted
<1>11. DOMAIN header = DOMAIN h
    BY <1>1
<1>12. /\ h.FileLength = length + LengthOfCdrs(cdrs) /\ h.HeaderLength = length
       /\ h.NumberOfCdrsInFile = Len(cdrs)
       /\ h.LengthOfCdrRouteingFilter = f /\ h.CDRRouteingFilter = header.CDRRouteingFilter
       /\ h.LengthOfPrivateExtension = e /\ h.PrivateExtension = header.PrivateExtension
       /\ h.HighReleaseIdentifier = header.HighReleaseIdentifier
       /\ h.LowReleaseIdentifier = header.LowReleaseIdentifier
       /\ h.HighReleaseIdentifierExtension = header.HighReleaseIdentifierExtension
       /\ h.LowReleaseIdentifierExtension = header.LowReleaseIdentifierExtension
    BY <1>1, <1>2 DEF CdrFileHeader, f, e
<1>13. Len(cdrs) \in Number32
    <2>1. length \in Nat /\ h.FileLength \in Nat /\ (h.FileLength \div 65536) < 65536
        BY <1>7, <1>8 DEF Number32
    <2>2. Len(cdrs) <= h.FileLength
        BY <2>1, <1>10, <1>12
    <2>3. (Len(cdrs) \div 65536) < 65536
        BY <2>1, <2>2, <1>10
    <2> QED
        BY <2>3, <1>10 DEF Number32
<1>14. h \in CdrFileHeader
    <2>1. length + LengthOfCdrs(cdrs) \in Number32
        BY <1>8, <1>12
    <2> QED
        BY <1>1, <1>2, <1>7, <1>13, <2>1 DEF CdrFileHeader
<1>15. TrueHeader(h)
    <2>1. HeaderFits(h)
        BY <1>5, <1>12 DEF HeaderFits
    <2> QED
        BY <1>12, <1>14, <2>1 DEF TrueHeader, f, e
<1>16. TrueFile(made)
    BY <1>1, <1>9, <1>12, <1>15 DEF TrueFile, h
<1>17. Len(FileHeaderEncoding(h)) = length
    <2>1. Len(FileHeaderEncoding(h))
            = 52 + h.LengthOfCdrRouteingFilter + h.LengthOfPrivateExtension
              + Extension(h.HighReleaseIdentifier) + Extension(h.LowReleaseIdentifier)
        BY <1>15, FileHeaderOctets
    <2> QED
        BY <2>1, <1>6, <1>12 DEF x, y
<1>18. Len(Encoding(made)) = length + LengthOfCdrs(cdrs)
    <2> DEFINE a == FileHeaderEncoding(h)
               b == FlattenSeq(Blocks(cdrs))
    <2>1. Encoding(made) = a \o b /\ Parts(Byte, a, Len(a), b, Len(b))
        BY <1>1, <1>16, FileOctets DEF h
    <2> HIDE DEF a, b
    <2>2. Len(a \o b) = Len(a) + Len(b)
        BY <2>1, PartsTogether
    <2>3. LengthOfCdrs(cdrs) = Len(b)
        BY <1>9, LengthOfCdrsCounted DEF b
    <2> QED
        BY <2>1, <2>2, <2>3, <1>17 DEF a
<1>19. \A k \in 1 .. n : cdrs[k].Hdr.CdrLength = Len(cdrs[k].CdrByte)
    BY <1>8, CdrTrue DEF TrueCdr
<1> QED
    BY <1>1, <1>12, <1>16, <1>17, <1>18, <1>19 DEF made, h

\* The file is what dumpCdrFile, or another maker, made of a list of CDRs and
\* then encoded, and what has been read is what it decodes to.
FileMade ==
    /\ cdrFile # Nil =>
          \E header, cdrs : \E n \in Nat :
             /\ TrueHeader(header)
             /\ DOMAIN cdrs = 1 .. n /\ cdrs = [k \in 1 .. n |-> cdrs[k]]
             /\ \A k \in 1 .. n : MadeCdr(cdrs[k])
             /\ cdrFile = Some(MakeFile(header, cdrs)) /\ file = Encoding(MakeFile(header, cdrs))
    /\ cdrFile = Nil => file = <<>>
    /\ read # Nil => cdrFile # Nil /\ read = Some(Decoding(file))

\* There is no file at first.
LEMMA FileMadeInit == Init => FileMade
    BY DEF Init, FileMade, Nil

\* A file that is written is one that was made of records.
LEMMA FileMadeWrite ==
    ASSUME AreRecords(records), NEW header, TrueHeader(header), NEW h \in CdrParameters,
           NEW n \in Nat, NEW chosen, DOMAIN chosen = 1 .. n,
           \A k \in 1 .. n : chosen[k] \in DOMAIN records, Write(header, h, chosen)
    PROVE  FileMade'
<1> DEFINE cdrs == [k \in DOMAIN chosen |-> MakeCdr(records[chosen[k]], h)]
           made == MakeFile(header, cdrs)
<1>1. cdrFile' = Some(made) /\ file' = Encoding(made) /\ read' = Nil
    BY DEF Write
<1>2. DOMAIN cdrs = 1 .. n /\ cdrs = [k \in 1 .. n |-> cdrs[k]]
    OBVIOUS
<1>3. \A k \in 1 .. n : MadeCdr(cdrs[k])
    <2> TAKE k \in 1 .. n
    <2>1. IsRecord(records[chosen[k]])
        BY DEF AreRecords
    <2> QED
        BY <2>1, CdrMade
<1> HIDE DEF cdrs
<1>4. cdrFile' # Nil
    BY <1>1 DEF Some, Nil
<1> QED
    BY <1>1, <1>2, <1>3, <1>4 DEF FileMade

\* Every step leaves the file as it was made.
LEMMA FileMadeStep ==
    ASSUME AreRecords(records), FileMade, [Next]_vars
    PROVE  FileMade'
<1>1. PICK n \in Nat : DOMAIN records = 1 .. n
    BY SequenceDomain DEF AreRecords
<1>2. CASE UNCHANGED <<cdrFile, file, read>>
    BY <1>2 DEF FileMade
<1>3. CASE DumpCdrFile
    <2>1. NoRelease \in CdrParameters
        BY DEF NoRelease, CdrParameters, Under, Byte
    <2>2. CASE Write(NoHeader, NoRelease, [i \in DOMAIN records |-> i])
        <3> DEFINE chosen == [i \in DOMAIN records |-> i]
        <3>1. DOMAIN chosen = 1 .. n /\ \A k \in 1 .. n : chosen[k] \in DOMAIN records
            BY <1>1
        <3>2. Write(NoHeader, NoRelease, chosen)
            BY <2>2
        <3> HIDE DEF chosen
        <3> QED
            BY <2>1, <3>1, <3>2, NoHeaderTrue, FileMadeWrite
    <2>3. ASSUME NEW i \in DOMAIN records, Write(NoHeader, NoRelease, <<i>>)
          PROVE  FileMade'
        <3> DEFINE chosen == <<i>>
        <3>1. DOMAIN chosen = 1 .. 1 /\ \A k \in 1 .. 1 : chosen[k] \in DOMAIN records
            BY <2>3
        <3>2. Write(NoHeader, NoRelease, chosen) /\ 1 \in Nat
            BY <2>3
        <3> HIDE DEF chosen
        <3> QED
            BY <2>1, <3>1, <3>2, NoHeaderTrue, FileMadeWrite
    <2> QED
        BY <1>3, <2>2, <2>3 DEF DumpCdrFile
<1>4. CASE StoreFile
    <2>1. PICK h \in FileHeaders : Write(h.file, h.cdr, [i \in DOMAIN records |-> i])
        BY <1>4 DEF StoreFile
    <2>2. TrueHeader(h.file) /\ h.cdr \in CdrParameters
        BY FileHeadersAssumption DEF CdrParameters
    <2> DEFINE chosen == [i \in DOMAIN records |-> i]
    <2>3. DOMAIN chosen = 1 .. n /\ \A k \in 1 .. n : chosen[k] \in DOMAIN records
        BY <1>1
    <2>4. Write(h.file, h.cdr, chosen)
        BY <2>1
    <2> HIDE DEF chosen
    <2> QED
        BY <2>2, <2>3, <2>4, FileMadeWrite
<1>5. CASE ReadFile
    <2>1. /\ file # <<>> /\ read' = Some(Decoding(file))
          /\ UNCHANGED <<cdrFile, file>>
        BY <1>5 DEF ReadFile
    <2> QED
        BY <2>1 DEF FileMade
<1>6. CASE Open \/ Update \/ Close \/ UNCHANGED vars
    BY <1>2, <1>6 DEF Open, Update, Close, vars
<1> QED
    BY <1>3, <1>4, <1>5, <1>6 DEF Next

\* The numbers that count the octets of a file and of its CDRs are large enough:
\* 32 bits for the file, 16 for each CDR.
CdrsFit == cdrFile # Nil => Fit(cdrFile[1])

\* The file of a behaviour, if it fits, has true lengths.
LEMMA FitFileTrue ==
    ASSUME FileMade, CdrsFit, cdrFile # Nil
    PROVE  /\ TrueFile(cdrFile[1]) /\ cdrFile = Some(cdrFile[1]) /\ file = Encoding(cdrFile[1])
           /\ LengthsAreTrue
<1>1. PICK header, cdrs : \E n \in Nat :
             /\ TrueHeader(header)
             /\ DOMAIN cdrs = 1 .. n /\ cdrs = [k \in 1 .. n |-> cdrs[k]]
             /\ \A k \in 1 .. n : MadeCdr(cdrs[k])
             /\ cdrFile = Some(MakeFile(header, cdrs)) /\ file = Encoding(MakeFile(header, cdrs))
    BY DEF FileMade
<1> DEFINE made == MakeFile(header, cdrs)
<1>2. cdrFile[1] = made /\ file = Encoding(made) /\ cdrFile = Some(cdrFile[1])
    BY <1>1 DEF Some
<1>3. Fit(made)
    BY <1>2 DEF CdrsFit
<1>4. /\ TrueFile(made)
      /\ made.Hdr.FileLength = Len(Encoding(made))
      /\ made.Hdr.HeaderLength = Len(FileHeaderEncoding(made.Hdr))
      /\ \A i \in DOMAIN made.CdrList :
            made.CdrList[i].Hdr.CdrLength = Len(made.CdrList[i].CdrByte)
    BY <1>1, <1>3, FileTrue
<1> HIDE DEF made
<1> QED
    BY <1>2, <1>4 DEF LengthsAreTrue

\* In every behaviour the records are records, the file is made of some, and what is
\* read is what it decodes to.
THEOREM FileRecorded == Spec => [](AreRecords(records) /\ FileMade)
<1>1. Init => AreRecords(records) /\ FileMade
    BY RecordsInit, FileMadeInit
<1>2. AreRecords(records) /\ FileMade /\ [Next]_vars => (AreRecords(records) /\ FileMade)'
    BY RecordsStep, FileMadeStep
<1> QED
    BY <1>1, <1>2, PTL DEF Spec

\* The lengths in the headers of every file are those of the file and of its CDRs, as
\* long as they fit the numbers they are counted in (dumpCdrFile, CDRFile.Encoding).
THEOREM EveryLengthIsTrue == Spec => [](CdrsFit => LengthsAreTrue)
<1>1. FileMade => (CdrsFit => LengthsAreTrue)
    BY FitFileTrue DEF LengthsAreTrue
<1> QED
    BY <1>1, FileRecorded, PTL

\* Every file is read as what was written, header and CDRs, as long as it fits and has no
\* extension of the low release identifier alone (CDRFile.Decoding).
THEOREM EveryFileReadsBack == Spec => [](CdrsFit => FilesReadBack)
<1>1. FileMade => (CdrsFit => FilesReadBack)
    <2> SUFFICES ASSUME FileMade, CdrsFit, read # Nil, HasHighExtension(cdrFile[1].Hdr)
                 PROVE  read = cdrFile
        BY DEF FilesReadBack
    <2>1. cdrFile # Nil /\ read = Some(Decoding(file))
        BY DEF FileMade
    <2>2. /\ TrueFile(cdrFile[1]) /\ cdrFile = Some(cdrFile[1]) /\ file = Encoding(cdrFile[1])
        BY <2>1, FitFileTrue
    <2>3. Decoding(file) = cdrFile[1]
        BY <2>2, FileReadBack
    <2> QED
        BY <2>1, <2>2, <2>3
<1> QED
    BY <1>1, FileRecorded, PTL

-----------------------------------------------------------------------------
(* The types of CdrConvert, and their values as values that are read back. *)

\* Fields of a tag each, in the order of the tags.
AreFields(fields, tags) ==
    /\ DOMAIN fields = 1 .. Len(tags)
    /\ tags \in Seq(Nat)
    /\ \A i \in 1 .. Len(tags) : tags[i] <= 200 /\ \E type : fields[i] = Field(tags[i], type)
    /\ \A i \in 1 .. Len(tags), j \in 1 .. Len(tags) : i < j => tags[i] < tags[j]

\* The fields of a type, each with a tag of its own.
HasFields(type, kind, n) ==
    /\ type.kind = kind
    /\ DOMAIN type.fields = 1 .. n
    /\ OwnTags(type.fields)
    /\ \A i \in DOMAIN type.fields : type.fields[i].params \in TagParams

\* The parameters and the type of a field that has a tag of those in use.
LEMMA FieldOf ==
    ASSUME NEW n \in Nat, n <= 200, NEW type
    PROVE  /\ Field(n, type).params \in TagParams /\ Field(n, type).params.tagNumber = n
           /\ Field(n, type).type = type
<1>1. n \in TagNumber
    BY DEF TagNumber, Under
<1> QED
    BY <1>1, FieldTag

\* Fields in the order of their tags have them for their own.
LEMMA FieldsInOrder ==
    ASSUME NEW fields, NEW tags, AreFields(fields, tags)
    PROVE  OwnTags(fields) /\ \A i \in DOMAIN fields : fields[i].params \in TagParams
<1>1. Len(tags) \in Nat
    BY DEF AreFields
<1>2. \A i \in DOMAIN fields : /\ i \in 1 .. Len(tags) /\ tags[i] \in Nat /\ tags[i] \in TagNumber
                             /\ fields[i].params \in TagParams
                             /\ fields[i].params.tagNumber = tags[i]
    <2> TAKE i \in DOMAIN fields
    <2>1. /\ i \in 1 .. Len(tags) /\ tags[i] \in Nat /\ tags[i] <= 200
          /\ \E type : fields[i] = Field(tags[i], type)
        BY DEF AreFields
    <2>2. tags[i] \in TagNumber
        BY <2>1 DEF TagNumber, Under
    <2> QED
        BY <2>1, <2>2, FieldOf
<1>3. ASSUME NEW i \in DOMAIN fields, NEW j \in DOMAIN fields,
             fields[i].params.tagNumber = fields[j].params.tagNumber
      PROVE  i = j
    <2>1. ~(tags[i] < tags[j]) /\ ~(tags[j] < tags[i])
        BY <1>2, <1>3
    <2>2. ~(i < j) /\ ~(j < i)
        BY <1>2, <2>1 DEF AreFields
    <2> QED
        BY <1>1, <1>2, <2>2
<1>4. \E m \in Nat : DOMAIN fields = 1 .. m
    BY <1>1 DEF AreFields
<1> QED
    BY <1>2, <1>3, <1>4 DEF OwnTags

\* The fields of UsedUnitContainer.
LEMMA UsedUnitContainerTags ==
    LET fields == UsedUnitContainer.fields
    IN  /\ HasFields(UsedUnitContainer, "struct", 5)
        /\ \A i \in 1 .. 5 : fields[i].type = Integer
<1> DEFINE fields == UsedUnitContainer.fields
           tags == <<4, 5, 6, 7, 9>>
<1>1. UsedUnitContainer.kind = "struct" /\ DOMAIN fields = 1 .. 5
    BY DEF UsedUnitContainer, Struct
<1>2. tags \in Seq(Nat) /\ Len(tags) = 5
    OBVIOUS
<1>3. /\ fields[1] = Field(tags[1], Integer) /\ tags[1] = 4
      /\ fields[2] = Field(tags[2], Integer) /\ tags[2] = 5
      /\ fields[3] = Field(tags[3], Integer) /\ tags[3] = 6
      /\ fields[4] = Field(tags[4], Integer) /\ tags[4] = 7
      /\ fields[5] = Field(tags[5], Integer) /\ tags[5] = 9
    BY DEF UsedUnitContainer, Struct
<1> HIDE DEF fields, tags
<1>4. \A i \in 1 .. 5 : tags[i] <= 200 /\ \E type : fields[i] = Field(tags[i], type)
    <2> TAKE i \in 1 .. 5
    <2>1. i = 1 \/ i = 2 \/ i = 3 \/ i = 4 \/ i = 5
        OBVIOUS
    <2> QED
        BY <2>1, <1>3
<1>5. \A i \in 1 .. 5, j \in 1 .. 5 : i < j => tags[i] < tags[j]
    <2> TAKE i \in 1 .. 5, j \in 1 .. 5
    <2>1. i = 1 \/ i = 2 \/ i = 3 \/ i = 4 \/ i = 5
        OBVIOUS
    <2>2. j = 1 \/ j = 2 \/ j = 3 \/ j = 4 \/ j = 5
        OBVIOUS
    <2> QED
        BY <2>1, <2>2, <1>3
<1>6. OwnTags(fields) /\ \A i \in DOMAIN fields : fields[i].params \in TagParams
    <2>1. AreFields(fields, tags)
        BY <1>1, <1>2, <1>4, <1>5 DEF AreFields
    <2> QED
        BY <2>1, FieldsInOrder
<1>7. HasFields(UsedUnitContainer, "struct", 5)
    BY <1>1, <1>6 DEF HasFields, fields
<1> QED
    BY <1>3, <1>7, FieldOf DEF fields

\* The fields of MultipleUnitUsage.
LEMMA MultipleUnitUsageTags ==
    LET fields == MultipleUnitUsage.fields
    IN  /\ HasFields(MultipleUnitUsage, "struct", 3)
        /\ fields[1].type = Integer /\ fields[2].type = Slice(UsedUnitContainer)
        /\ fields[3].type = StringType
<1> DEFINE fields == MultipleUnitUsage.fields
           tags == <<0, 1, 2>>
<1>1. MultipleUnitUsage.kind = "struct" /\ DOMAIN fields = 1 .. 3
    BY DEF MultipleUnitUsage, Struct
<1>2. tags \in Seq(Nat) /\ Len(tags) = 3
    OBVIOUS
<1>3. /\ fields[1] = Field(tags[1], Integer) /\ tags[1] = 0
      /\ fields[2] = Field(tags[2], Slice(UsedUnitContainer)) /\ tags[2] = 1
      /\ fields[3] = Field(tags[3], StringType) /\ tags[3] = 2
    BY DEF MultipleUnitUsage, Struct
<1> HIDE DEF fields, tags
<1>4. \A i \in 1 .. 3 : tags[i] <= 200 /\ \E type : fields[i] = Field(tags[i], type)
    <2> TAKE i \in 1 .. 3
    <2>1. i = 1 \/ i = 2 \/ i = 3
        OBVIOUS
    <2> QED
        BY <2>1, <1>3
<1>5. \A i \in 1 .. 3, j \in 1 .. 3 : i < j => tags[i] < tags[j]
    <2> TAKE i \in 1 .. 3, j \in 1 .. 3
    <2>1. i = 1 \/ i = 2 \/ i = 3
        OBVIOUS
    <2>2. j = 1 \/ j = 2 \/ j = 3
        OBVIOUS
    <2> QED
        BY <2>1, <2>2, <1>3
<1>6. OwnTags(fields) /\ \A i \in DOMAIN fields : fields[i].params \in TagParams
    <2>1. AreFields(fields, tags)
        BY <1>1, <1>2, <1>4, <1>5 DEF AreFields
    <2> QED
        BY <2>1, FieldsInOrder
<1>7. HasFields(MultipleUnitUsage, "struct", 3)
    BY <1>1, <1>6 DEF HasFields, fields
<1> QED
    BY <1>3, <1>7, FieldOf DEF fields

\* The fields of SubscriptionID.
LEMMA SubscriptionIDTags ==
    LET fields == SubscriptionID.fields
    IN  /\ HasFields(SubscriptionID, "struct", 2)
        /\ fields[1].type = EnumeratedType /\ fields[2].type = StringType
<1> DEFINE fields == SubscriptionID.fields
           tags == <<0, 1>>
<1>1. SubscriptionID.kind = "struct" /\ DOMAIN fields = 1 .. 2
    BY DEF SubscriptionID, Struct
<1>2. tags \in Seq(Nat) /\ Len(tags) = 2
    OBVIOUS
<1>3. /\ fields[1] = Field(tags[1], EnumeratedType) /\ tags[1] = 0
      /\ fields[2] = Field(tags[2], StringType) /\ tags[2] = 1
    BY DEF SubscriptionID, Struct
<1> HIDE DEF fields, tags
<1>4. \A i \in 1 .. 2 : tags[i] <= 200 /\ \E type : fields[i] = Field(tags[i], type)
    <2> TAKE i \in 1 .. 2
    <2>1. i = 1 \/ i = 2
        OBVIOUS
    <2> QED
        BY <2>1, <1>3
<1>5. \A i \in 1 .. 2, j \in 1 .. 2 : i < j => tags[i] < tags[j]
    <2> TAKE i \in 1 .. 2, j \in 1 .. 2
    <2>1. i = 1 \/ i = 2
        OBVIOUS
    <2>2. j = 1 \/ j = 2
        OBVIOUS
    <2> QED
        BY <2>1, <2>2, <1>3
<1>6. OwnTags(fields) /\ \A i \in DOMAIN fields : fields[i].params \in TagParams
    <2>1. AreFields(fields, tags)
        BY <1>1, <1>2, <1>4, <1>5 DEF AreFields
    <2> QED
        BY <2>1, FieldsInOrder
<1>7. HasFields(SubscriptionID, "struct", 2)
    BY <1>1, <1>6 DEF HasFields, fields
<1> QED
    BY <1>3, <1>7, FieldOf DEF fields

\* The fields of NetworkFunctionInformation.
LEMMA NetworkFunctionInformationTags ==
    LET fields == NetworkFunctionInformation.fields
    IN  /\ HasFields(NetworkFunctionInformation, "struct", 6)
        /\ fields[1].type = EnumeratedType /\ fields[2].type = StringType
        /\ fields[3].type = IPAddress /\ fields[4].type = OctetStringType
        /\ fields[5].type = IPAddress /\ fields[6].type = NodeAddress
        /\ fields[1].params.tagNumber = 0 /\ fields[2].params.tagNumber = 1
        /\ fields[3].params.tagNumber = 2 /\ fields[4].params.tagNumber = 3
        /\ fields[5].params.tagNumber = 4 /\ fields[6].params.tagNumber = 5
<1> DEFINE fields == NetworkFunctionInformation.fields
           tags == <<0, 1, 2, 3, 4, 5>>
<1>1. NetworkFunctionInformation.kind = "struct" /\ DOMAIN fields = 1 .. 6
    BY DEF NetworkFunctionInformation, Struct
<1>2. tags \in Seq(Nat) /\ Len(tags) = 6
    OBVIOUS
<1>3. /\ fields[1] = Field(tags[1], EnumeratedType) /\ tags[1] = 0
      /\ fields[2] = Field(tags[2], StringType) /\ tags[2] = 1
      /\ fields[3] = Field(tags[3], IPAddress) /\ tags[3] = 2
      /\ fields[4] = Field(tags[4], OctetStringType) /\ tags[4] = 3
      /\ fields[5] = Field(tags[5], IPAddress) /\ tags[5] = 4
      /\ fields[6] = Field(tags[6], NodeAddress) /\ tags[6] = 5
    BY DEF NetworkFunctionInformation, Struct
<1> HIDE DEF fields, tags
<1>4. \A i \in 1 .. 6 : tags[i] <= 200 /\ \E type : fields[i] = Field(tags[i], type)
    <2> TAKE i \in 1 .. 6
    <2>1. i = 1 \/ i = 2 \/ i = 3 \/ i = 4 \/ i = 5 \/ i = 6
        OBVIOUS
    <2> QED
        BY <2>1, <1>3
<1>5. \A i \in 1 .. 6, j \in 1 .. 6 : i < j => tags[i] < tags[j]
    <2> TAKE i \in 1 .. 6, j \in 1 .. 6
    <2>1. i = 1 \/ i = 2 \/ i = 3 \/ i = 4 \/ i = 5 \/ i = 6
        OBVIOUS
    <2>2. j = 1 \/ j = 2 \/ j = 3 \/ j = 4 \/ j = 5 \/ j = 6
        OBVIOUS
    <2> QED
        BY <2>1, <2>2, <1>3
<1>6. OwnTags(fields) /\ \A i \in DOMAIN fields : fields[i].params \in TagParams
    <2>1. AreFields(fields, tags)
        BY <1>1, <1>2, <1>4, <1>5 DEF AreFields
    <2> QED
        BY <2>1, FieldsInOrder
<1>7. HasFields(NetworkFunctionInformation, "struct", 6)
    BY <1>1, <1>6 DEF HasFields, fields
<1> QED
    BY <1>3, <1>7, FieldOf DEF fields

\* The fields of IPAddress.
LEMMA IPAddressTags ==
    LET fields == IPAddress.fields
    IN  /\ HasFields(IPAddress, "choice", 4)
        /\ fields[1].type = OctetStringType /\ fields[2].type = OctetStringType
        /\ fields[3].type = StringType /\ fields[4].type = StringType
        /\ fields[1].params.tagNumber = 0 /\ fields[2].params.tagNumber = 1
        /\ fields[3].params.tagNumber = 2 /\ fields[4].params.tagNumber = 3
<1> DEFINE fields == IPAddress.fields
           tags == <<0, 1, 2, 3>>
<1>1. IPAddress.kind = "choice" /\ DOMAIN fields = 1 .. 4
    BY DEF IPAddress, Choice
<1>2. tags \in Seq(Nat) /\ Len(tags) = 4
    OBVIOUS
<1>3. /\ fields[1] = Field(tags[1], OctetStringType) /\ tags[1] = 0
      /\ fields[2] = Field(tags[2], OctetStringType) /\ tags[2] = 1
      /\ fields[3] = Field(tags[3], StringType) /\ tags[3] = 2
      /\ fields[4] = Field(tags[4], StringType) /\ tags[4] = 3
    BY DEF IPAddress, Choice
<1> HIDE DEF fields, tags
<1>4. \A i \in 1 .. 4 : tags[i] <= 200 /\ \E type : fields[i] = Field(tags[i], type)
    <2> TAKE i \in 1 .. 4
    <2>1. i = 1 \/ i = 2 \/ i = 3 \/ i = 4
        OBVIOUS
    <2> QED
        BY <2>1, <1>3
<1>5. \A i \in 1 .. 4, j \in 1 .. 4 : i < j => tags[i] < tags[j]
    <2> TAKE i \in 1 .. 4, j \in 1 .. 4
    <2>1. i = 1 \/ i = 2 \/ i = 3 \/ i = 4
        OBVIOUS
    <2>2. j = 1 \/ j = 2 \/ j = 3 \/ j = 4
        OBVIOUS
    <2> QED
        BY <2>1, <2>2, <1>3
<1>6. OwnTags(fields) /\ \A i \in DOMAIN fields : fields[i].params \in TagParams
    <2>1. AreFields(fields, tags)
        BY <1>1, <1>2, <1>4, <1>5 DEF AreFields
    <2> QED
        BY <2>1, FieldsInOrder
<1>7. HasFields(IPAddress, "choice", 4)
    BY <1>1, <1>6 DEF HasFields, fields
<1> QED
    BY <1>3, <1>7, FieldOf DEF fields

\* The fields of NodeAddress.
LEMMA NodeAddressTags ==
    LET fields == NodeAddress.fields
    IN  /\ HasFields(NodeAddress, "choice", 2)
        /\ fields[1].type = IPAddress /\ fields[2].type = StringType
        /\ fields[1].params.tagNumber = 0 /\ fields[2].params.tagNumber = 1
<1> DEFINE fields == NodeAddress.fields
           tags == <<0, 1>>
<1>1. NodeAddress.kind = "choice" /\ DOMAIN fields = 1 .. 2
    BY DEF NodeAddress, Choice
<1>2. tags \in Seq(Nat) /\ Len(tags) = 2
    OBVIOUS
<1>3. /\ fields[1] = Field(tags[1], IPAddress) /\ tags[1] = 0
      /\ fields[2] = Field(tags[2], StringType) /\ tags[2] = 1
    BY DEF NodeAddress, Choice
<1> HIDE DEF fields, tags
<1>4. \A i \in 1 .. 2 : tags[i] <= 200 /\ \E type : fields[i] = Field(tags[i], type)
    <2> TAKE i \in 1 .. 2
    <2>1. i = 1 \/ i = 2
        OBVIOUS
    <2> QED
        BY <2>1, <1>3
<1>5. \A i \in 1 .. 2, j \in 1 .. 2 : i < j => tags[i] < tags[j]
    <2> TAKE i \in 1 .. 2, j \in 1 .. 2
    <2>1. i = 1 \/ i = 2
        OBVIOUS
    <2>2. j = 1 \/ j = 2
        OBVIOUS
    <2> QED
        BY <2>1, <2>2, <1>3
<1>6. OwnTags(fields) /\ \A i \in DOMAIN fields : fields[i].params \in TagParams
    <2>1. AreFields(fields, tags)
        BY <1>1, <1>2, <1>4, <1>5 DEF AreFields
    <2> QED
        BY <2>1, FieldsInOrder
<1>7. HasFields(NodeAddress, "choice", 2)
    BY <1>1, <1>6 DEF HasFields, fields
<1> QED
    BY <1>3, <1>7, FieldOf DEF fields

\* The fields of SingleNSSAI.
LEMMA SingleNSSAITags ==
    LET fields == SingleNSSAI.fields
    IN  /\ HasFields(SingleNSSAI, "struct", 2)
        /\ fields[1].type = Integer /\ fields[2].type = OctetStringType
<1> DEFINE fields == SingleNSSAI.fields
           tags == <<0, 1>>
<1>1. SingleNSSAI.kind = "struct" /\ DOMAIN fields = 1 .. 2
    BY DEF SingleNSSAI, Struct
<1>2. tags \in Seq(Nat) /\ Len(tags) = 2
    OBVIOUS
<1>3. /\ fields[1] = Field(tags[1], Integer) /\ tags[1] = 0
      /\ fields[2] = Field(tags[2], OctetStringType) /\ tags[2] = 1
    BY DEF SingleNSSAI, Struct
<1> HIDE DEF fields, tags
<1>4. \A i \in 1 .. 2 : tags[i] <= 200 /\ \E type : fields[i] = Field(tags[i], type)
    <2> TAKE i \in 1 .. 2
    <2>1. i = 1 \/ i = 2
        OBVIOUS
    <2> QED
        BY <2>1, <1>3
<1>5. \A i \in 1 .. 2, j \in 1 .. 2 : i < j => tags[i] < tags[j]
    <2> TAKE i \in 1 .. 2, j \in 1 .. 2
    <2>1. i = 1 \/ i = 2
        OBVIOUS
    <2>2. j = 1 \/ j = 2
        OBVIOUS
    <2> QED
        BY <2>1, <2>2, <1>3
<1>6. OwnTags(fields) /\ \A i \in DOMAIN fields : fields[i].params \in TagParams
    <2>1. AreFields(fields, tags)
        BY <1>1, <1>2, <1>4, <1>5 DEF AreFields
    <2> QED
        BY <2>1, FieldsInOrder
<1>7. HasFields(SingleNSSAI, "struct", 2)
    BY <1>1, <1>6 DEF HasFields, fields
<1> QED
    BY <1>3, <1>7, FieldOf DEF fields

\* The fields of PDUSessionChargingInformation.
LEMMA PDUSessionChargingInformationTags ==
    LET fields == PDUSessionChargingInformation.fields
    IN  /\ HasFields(PDUSessionChargingInformation, "struct", 4)
        /\ fields[1].type = Integer /\ fields[2].type = Integer /\ fields[3].type = SingleNSSAI
        /\ fields[4].type = StringType
<1> DEFINE fields == PDUSessionChargingInformation.fields
           tags == <<0, 6, 7, 13>>
<1>1. PDUSessionChargingInformation.kind = "struct" /\ DOMAIN fields = 1 .. 4
    BY DEF PDUSessionChargingInformation, Struct
<1>2. tags \in Seq(Nat) /\ Len(tags) = 4
    OBVIOUS
<1>3. /\ fields[1] = Field(tags[1], Integer) /\ tags[1] = 0
      /\ fields[2] = Field(tags[2], Integer) /\ tags[2] = 6
      /\ fields[3] = Field(tags[3], SingleNSSAI) /\ tags[3] = 7
      /\ fields[4] = Field(tags[4], StringType) /\ tags[4] = 13
    BY DEF PDUSessionChargingInformation, Struct
<1> HIDE DEF fields, tags
<1>4. \A i \in 1 .. 4 : tags[i] <= 200 /\ \E type : fields[i] = Field(tags[i], type)
    <2> TAKE i \in 1 .. 4
    <2>1. i = 1 \/ i = 2 \/ i = 3 \/ i = 4
        OBVIOUS
    <2> QED
        BY <2>1, <1>3
<1>5. \A i \in 1 .. 4, j \in 1 .. 4 : i < j => tags[i] < tags[j]
    <2> TAKE i \in 1 .. 4, j \in 1 .. 4
    <2>1. i = 1 \/ i = 2 \/ i = 3 \/ i = 4
        OBVIOUS
    <2>2. j = 1 \/ j = 2 \/ j = 3 \/ j = 4
        OBVIOUS
    <2> QED
        BY <2>1, <2>2, <1>3
<1>6. OwnTags(fields) /\ \A i \in DOMAIN fields : fields[i].params \in TagParams
    <2>1. AreFields(fields, tags)
        BY <1>1, <1>2, <1>4, <1>5 DEF AreFields
    <2> QED
        BY <2>1, FieldsInOrder
<1>7. HasFields(PDUSessionChargingInformation, "struct", 4)
    BY <1>1, <1>6 DEF HasFields, fields
<1> QED
    BY <1>3, <1>7, FieldOf DEF fields

\* The fields of RegistrationChargingInformation.
LEMMA RegistrationChargingInformationTags ==
    LET fields == RegistrationChargingInformation.fields
    IN  /\ HasFields(RegistrationChargingInformation, "struct", 1)
        /\ fields[1].type = EnumeratedType
<1> DEFINE fields == RegistrationChargingInformation.fields
           tags == <<0>>
<1>1. RegistrationChargingInformation.kind = "struct" /\ DOMAIN fields = 1 .. 1
    BY DEF RegistrationChargingInformation, Struct
<1>2. tags \in Seq(Nat) /\ Len(tags) = 1
    OBVIOUS
<1>3. /\ fields[1] = Field(tags[1], EnumeratedType) /\ tags[1] = 0
    BY DEF RegistrationChargingInformation, Struct
<1> HIDE DEF fields, tags
<1>4. \A i \in 1 .. 1 : tags[i] <= 200 /\ \E type : fields[i] = Field(tags[i], type)
    <2> TAKE i \in 1 .. 1
    <2>1. i = 1
        OBVIOUS
    <2> QED
        BY <2>1, <1>3
<1>5. \A i \in 1 .. 1, j \in 1 .. 1 : i < j => tags[i] < tags[j]
    <2> TAKE i \in 1 .. 1, j \in 1 .. 1
    <2>1. i = 1
        OBVIOUS
    <2>2. j = 1
        OBVIOUS
    <2> QED
        BY <2>1, <2>2, <1>3
<1>6. OwnTags(fields) /\ \A i \in DOMAIN fields : fields[i].params \in TagParams
    <2>1. AreFields(fields, tags)
        BY <1>1, <1>2, <1>4, <1>5 DEF AreFields
    <2> QED
        BY <2>1, FieldsInOrder
<1>7. HasFields(RegistrationChargingInformation, "struct", 1)
    BY <1>1, <1>6 DEF HasFields, fields
<1> QED
    BY <1>3, <1>7, FieldOf DEF fields

\* The fields of ChargingRecord.
LEMMA ChargingRecordTags ==
    LET fields == ChargingRecord.fields
    IN  /\ HasFields(ChargingRecord, "struct", 15)
        /\ fields[1].type = Integer /\ fields[2].type = StringType
        /\ fields[3].type = SubscriptionID /\ fields[4].type = NetworkFunctionInformation
        /\ fields[5].type = Slice(MultipleUnitUsage) /\ fields[6].type = OctetStringType
        /\ fields[7].type = Integer /\ fields[8].type = Integer /\ fields[9].type = Integer
        /\ fields[10].type = Integer /\ fields[11].type = PDUSessionChargingInformation
        /\ fields[12].type = OctetStringType /\ fields[13].type = OctetStringType
        /\ fields[14].type = RegistrationChargingInformation /\ fields[15].type = Integer
<1> DEFINE fields == ChargingRecord.fields
           tags == <<0, 1, 2, 3, 5, 6, 7, 8, 9, 11, 13, 16, 17, 19, 27>>
<1>1. ChargingRecord.kind = "struct" /\ DOMAIN fields = 1 .. 15
    BY DEF ChargingRecord, Struct
<1>2. tags \in Seq(Nat) /\ Len(tags) = 15
    OBVIOUS
<1>3. /\ fields[1] = Field(tags[1], Integer) /\ tags[1] = 0
      /\ fields[2] = Field(tags[2], StringType) /\ tags[2] = 1
      /\ fields[3] = Field(tags[3], SubscriptionID) /\ tags[3] = 2
      /\ fields[4] = Field(tags[4], NetworkFunctionInformation) /\ tags[4] = 3
      /\ fields[5] = Field(tags[5], Slice(MultipleUnitUsage)) /\ tags[5] = 5
      /\ fields[6] = Field(tags[6], OctetStringType) /\ tags[6] = 6
    BY DEF ChargingRecord, Struct
<1>4. /\ fields[7] = Field(tags[7], Integer) /\ tags[7] = 7
      /\ fields[8] = Field(tags[8], Integer) /\ tags[8] = 8
      /\ fields[9] = Field(tags[9], Integer) /\ tags[9] = 9
      /\ fields[10] = Field(tags[10], Integer) /\ tags[10] = 11
      /\ fields[11] = Field(tags[11], PDUSessionChargingInformation) /\ tags[11] = 13
      /\ fields[12] = Field(tags[12], OctetStringType) /\ tags[12] = 16
    BY DEF ChargingRecord, Struct
<1>5. /\ fields[13] = Field(tags[13], OctetStringType) /\ tags[13] = 17
      /\ fields[14] = Field(tags[14], RegistrationChargingInformation) /\ tags[14] = 19
      /\ fields[15] = Field(tags[15], Integer) /\ tags[15] = 27
    BY DEF ChargingRecord, Struct
<1> HIDE DEF fields, tags
<1>6. \A i \in 1 .. 15 : tags[i] <= 200 /\ \E type : fields[i] = Field(tags[i], type)
    <2> TAKE i \in 1 .. 15
    <2>1. CASE i = 1 \/ i = 2 \/ i = 3 \/ i = 4 \/ i = 5 \/ i = 6
        BY <2>1, <1>3
    <2>2. CASE i = 7 \/ i = 8 \/ i = 9 \/ i = 10 \/ i = 11 \/ i = 12
        BY <2>2, <1>4
    <2>3. CASE i = 13 \/ i = 14 \/ i = 15
        BY <2>3, <1>5
    <2> QED
        BY <2>1, <2>2, <2>3
<1>7. \A i \in 1 .. 15, j \in 1 .. 15 : i < j => tags[i] < tags[j]
    <2>1. \A i \in 1 .. 15 :
             tags[i] = IF i <= 4 THEN i - 1 ELSE IF i <= 9 THEN i ELSE IF i <= 11 THEN 2 * i - 9
                       ELSE IF i <= 13 THEN i + 4 ELSE IF i = 14 THEN 19 ELSE 27
        BY <1>3, <1>4, <1>5
    <2> QED
        BY <2>1
<1>8. OwnTags(fields) /\ \A i \in DOMAIN fields : fields[i].params \in TagParams
    <2>1. AreFields(fields, tags)
        BY <1>1, <1>2, <1>6, <1>7 DEF AreFields
    <2> QED
        BY <2>1, FieldsInOrder
<1>9. HasFields(ChargingRecord, "struct", 15)
    BY <1>1, <1>8 DEF HasFields, fields
<1> QED
    BY <1>3, <1>4, <1>5, <1>9, FieldOf DEF fields

\* The fields of CHFRecord.
LEMMA CHFRecordTags ==
    LET fields == CHFRecord.fields
    IN  /\ HasFields(CHFRecord, "choice", 1)
        /\ fields[1].type = ChargingRecord /\ fields[1].params.tagNumber = 200
<1> DEFINE fields == CHFRecord.fields
           tags == <<200>>
<1>1. CHFRecord.kind = "choice" /\ DOMAIN fields = 1 .. 1
    BY DEF CHFRecord, Choice
<1>2. tags \in Seq(Nat) /\ Len(tags) = 1
    OBVIOUS
<1>3. /\ fields[1] = Field(tags[1], ChargingRecord) /\ tags[1] = 200
    BY DEF CHFRecord, Choice
<1> HIDE DEF fields, tags
<1>4. \A i \in 1 .. 1 : tags[i] <= 200 /\ \E type : fields[i] = Field(tags[i], type)
    <2> TAKE i \in 1 .. 1
    <2>1. i = 1
        OBVIOUS
    <2> QED
        BY <2>1, <1>3
<1>5. \A i \in 1 .. 1, j \in 1 .. 1 : i < j => tags[i] < tags[j]
    <2> TAKE i \in 1 .. 1, j \in 1 .. 1
    <2>1. i = 1
        OBVIOUS
    <2>2. j = 1
        OBVIOUS
    <2> QED
        BY <2>1, <2>2, <1>3
<1>6. OwnTags(fields) /\ \A i \in DOMAIN fields : fields[i].params \in TagParams
    <2>1. AreFields(fields, tags)
        BY <1>1, <1>2, <1>4, <1>5 DEF AreFields
    <2> QED
        BY <2>1, FieldsInOrder
<1>7. HasFields(CHFRecord, "choice", 1)
    BY <1>1, <1>6 DEF HasFields, fields
<1> QED
    BY <1>3, <1>7, FieldOf DEF fields

\* Values of the fields of a structure, each nil or there, some there.
Filled(value, n) ==
    /\ IsOver(1 .. n, value)
    /\ \E i \in 1 .. n : value[i] # <<>>
    /\ \A i \in 1 .. n : value[i] # <<>> => value[i] = <<value[i][1]>>

\* They make a structure.
LEMMA FilledStruct ==
    ASSUME NEW value, NEW type, NEW n \in Nat, HasFields(type, "struct", n), Filled(value, n)
    PROVE  IsStruct(value, type)
<1>1. IsOver(DOMAIN type.fields, value)
    BY DEF HasFields, Filled
<1>2. value = [i \in DOMAIN type.fields |-> value[i]]
    BY <1>1 DEF IsOver
<1> QED
    BY <1>2 DEF HasFields, Filled, IsStruct

\* Values that are there, or nil.
IsOptional(x) == x = <<>> \/ x = <<x[1]>>

\* Some and IfPresent make such values.
LEMMA Optionals ==
    /\ \A x : IsOptional(Some(x)) /\ Some(x) # <<>> /\ Some(x)[1] = x
    /\ IsOptional(Nil) /\ Nil = <<>>
    /\ \A x : IsOptional(IfPresent(x)) /\ (IfPresent(x) # <<>> => IfPresent(x)[1] = x)
    BY DEF IsOptional, Some, Nil, IfPresent

\* Tuples are over the numbers of their elements.
LEMMA TuplesOver ==
    /\ \A a : IsOver(1 .. 1, <<a>>)
    /\ \A a, b : IsOver(1 .. 2, <<a, b>>)
    /\ \A a, b, c : IsOver(1 .. 3, <<a, b, c>>)
    /\ \A a, b, c, d : IsOver(1 .. 4, <<a, b, c, d>>)
    /\ \A a, b, c, d, e : IsOver(1 .. 5, <<a, b, c, d, e>>)
    /\ \A a, b, c, d, e, f : IsOver(1 .. 6, <<a, b, c, d, e, f>>)
    BY DEF IsOver

\* Volumes and numbers are not negative.
CountedUnits == [TotalVolume : Nat, UplinkVolume : Nat, DownlinkVolume : Nat,
                 ServiceSpecificUnits : Nat, LocalSequenceNumber : Nat]

CountedUsage == [RatingGroup : Nat, UsedUnitContainer : Seq(CountedUnits), UPFID : Text]

\* A UsedUnitContainer is read back.
LEMMA ContainerReadsBack ==
    ASSUME NEW container \in CountedUnits, NEW params \in TagParams
    PROVE  ReadsBack2(UsedUnitContainerToCdr(container), UsedUnitContainer, params)
<1> DEFINE value == UsedUnitContainerToCdr(container)
           fields == UsedUnitContainer.fields
<1>1. \A i \in 1 .. 5 : value[i] = <<value[i][1]>> /\ value[i][1] \in Nat
    <2> TAKE i \in 1 .. 5
    <2>1. i = 1 \/ i = 2 \/ i = 3 \/ i = 4 \/ i = 5
        OBVIOUS
    <2> QED
        BY <2>1 DEF UsedUnitContainerToCdr, Some, CountedUnits
<1>2. IsOver(1 .. 5, value)
    BY TuplesOver DEF UsedUnitContainerToCdr
<1> HIDE DEF value
<1>3. 1 \in 1 .. 5 /\ value[1] # <<>>
    BY <1>1
<1>4. IsStruct(value, UsedUnitContainer)
    <2>1. Filled(value, 5)
        BY <1>1, <1>2, <1>3 DEF Filled
    <2> QED
        BY <2>1, UsedUnitContainerTags, FilledStruct
<1>5. ASSUME NEW i \in DOMAIN fields
      PROVE  ReadsBack1(value[i][1], fields[i].type, fields[i].params)
    <2>1. /\ i \in 1 .. 5 /\ fields[i].params \in TagParams /\ fields[i].type = Integer
          /\ value[i][1] \in Nat
        BY <1>1, <1>5, UsedUnitContainerTags DEF HasFields
    <2>2. IsSimple(value[i][1], Integer)
        BY <2>1, SimpleTypes
    <2> QED
        BY <2>1, <2>2, SimpleReadsBack
<1>6. ReadsBack2(value, UsedUnitContainer, params)
    BY <1>4, <1>5, StructReadsBack2
<1> QED
    BY <1>6 DEF value

\* The UsedUnitContainers of a usage are read back.
LEMMA ContainersReadBack ==
    ASSUME NEW containers \in Seq(CountedUnits), NEW params \in TagParams
    PROVE  ReadsBack3([k \in DOMAIN containers |-> UsedUnitContainerToCdr(containers[k])],
                      Slice(UsedUnitContainer), params)
<1> DEFINE value == [k \in DOMAIN containers |-> UsedUnitContainerToCdr(containers[k])]
           type == Slice(UsedUnitContainer)
<1>1. DOMAIN value = 1 .. Len(containers) /\ Len(containers) \in Nat
    OBVIOUS
<1>2. /\ type.kind = "slice" /\ type.type = UsedUnitContainer
      /\ UsedUnitContainer.kind = "struct"
    BY UsedUnitContainerTags DEF Slice, HasFields
<1>3. value = [k \in 1 .. Len(containers) |-> value[k]]
    OBVIOUS
<1>4. ASSUME NEW k \in DOMAIN value
      PROVE  ReadsBack2(value[k], type.type, ElementParams(params))
    <2>1. containers[k] \in CountedUnits /\ value[k] = UsedUnitContainerToCdr(containers[k])
        OBVIOUS
    <2> HIDE DEF value, type
    <2>2. ElementParams(params) \in TagParams
        BY PlainTag
    <2> QED
        BY <1>2, <2>1, <2>2, ContainerReadsBack
<1> HIDE DEF value, type
<1>5. IsSlice(value, type)
    BY <1>1, <1>2, <1>3 DEF IsSlice
<1>6. ReadsBack3(value, type, params)
    BY <1>4, <1>5, SliceReadsBack3
<1> QED
    BY <1>6 DEF value, type

\* The octets of a text.
LEMMA TextOctets == Text = Seq(Byte)
    BY DEF Text

\* What MultiUnitUsageToCdr makes of one usage.
UsageToCdr(usage) ==
    <<Some(usage.RatingGroup),
      Some([k \in DOMAIN usage.UsedUnitContainer |->
              UsedUnitContainerToCdr(usage.UsedUnitContainer[k])]),
      Some(usage.UPFID)>>

\* MultiUnitUsageToCdr converts one usage after the other.
LEMMA UsagesToCdr ==
    ASSUME NEW usages
    PROVE  MultiUnitUsageToCdr(usages) = [i \in DOMAIN usages |-> UsageToCdr(usages[i])]
    BY DEF MultiUnitUsageToCdr, UsageToCdr

\* A MultipleUnitUsage is read back.
LEMMA UsageReadsBack ==
    ASSUME NEW usage \in CountedUsage, NEW params \in TagParams
    PROVE  ReadsBack4(UsageToCdr(usage), MultipleUnitUsage, params)
<1> DEFINE containers == [k \in DOMAIN usage.UsedUnitContainer |->
                            UsedUnitContainerToCdr(usage.UsedUnitContainer[k])]
           value == UsageToCdr(usage)
           fields == MultipleUnitUsage.fields
<1>1. /\ usage.RatingGroup \in Nat /\ usage.UPFID \in Seq(Byte)
      /\ usage.UsedUnitContainer \in Seq(CountedUnits)
    BY DEF CountedUsage, Text
<1>2. value = <<Some(usage.RatingGroup), Some(containers), Some(usage.UPFID)>>
    BY DEF UsageToCdr
<1>3. \A p \in TagParams : ReadsBack3(containers, Slice(UsedUnitContainer), p)
    BY <1>1, ContainersReadBack
<1> HIDE DEF containers, value
<1>4. IsOver(1 .. 3, value)
    BY <1>2, TuplesOver
<1>5. /\ value[1] = <<usage.RatingGroup>> /\ value[2] = <<containers>>
      /\ value[3] = <<usage.UPFID>>
    BY <1>2 DEF Some
<1>6. IsStruct(value, MultipleUnitUsage)
    <2>1. \A i \in 1 .. 3 : i = 1 \/ i = 2 \/ i = 3
        OBVIOUS
    <2>2. 1 \in 1 .. 3 /\ value[1] # <<>>
        BY <1>5
    <2>3. \A i \in 1 .. 3 : value[i] = <<value[i][1]>>
        BY <2>1, <1>5
    <2>4. Filled(value, 3)
        BY <1>4, <2>2, <2>3 DEF Filled
    <2> QED
        BY <2>4, MultipleUnitUsageTags, FilledStruct
<1>7. IsSimple(usage.RatingGroup, Integer) /\ IsSimple(usage.UPFID, StringType)
    BY <1>1, SimpleTypes
<1>8. ASSUME NEW i \in DOMAIN fields
      PROVE  ReadsBack3(value[i][1], fields[i].type, fields[i].params)
    <2>1. i \in 1 .. 3 /\ fields[i].params \in TagParams
        BY <1>8, MultipleUnitUsageTags DEF HasFields
    <2>2. i = 1 \/ i = 2 \/ i = 3
        BY <2>1
    <2>3. CASE i = 1
        BY <2>1, <2>3, <1>5, <1>7, MultipleUnitUsageTags, SimpleReadsBack
    <2>4. CASE i = 2
        BY <2>1, <2>4, <1>3, <1>5, MultipleUnitUsageTags
    <2>5. CASE i = 3
        BY <2>1, <2>5, <1>5, <1>7, MultipleUnitUsageTags, SimpleReadsBack
    <2> QED
        BY <2>2, <2>3, <2>4, <2>5
<1>9. ReadsBack4(value, MultipleUnitUsage, params)
    BY <1>6, <1>8, StructReadsBack4
<1> QED
    BY <1>9 DEF value

\* The usages of a record are read back.
LEMMA UsagesReadBack ==
    ASSUME NEW usages \in Seq(CountedUsage), NEW params \in TagParams
    PROVE  ReadsBack5(MultiUnitUsageToCdr(usages), Slice(MultipleUnitUsage), params)
<1> DEFINE value == MultiUnitUsageToCdr(usages)
           type == Slice(MultipleUnitUsage)
<1>1. DOMAIN usages = 1 .. Len(usages) /\ Len(usages) \in Nat
    OBVIOUS
<1>2. /\ type.kind = "slice" /\ type.type = MultipleUnitUsage
      /\ MultipleUnitUsage.kind = "struct"
    BY MultipleUnitUsageTags DEF Slice, HasFields
<1>3. value = [i \in DOMAIN usages |-> UsageToCdr(usages[i])]
    BY UsagesToCdr
<1> HIDE DEF value, type
<1>4. value = [i \in 1 .. Len(usages) |-> value[i]]
    BY <1>1, <1>3
<1>5. ASSUME NEW i \in DOMAIN value
      PROVE  ReadsBack4(value[i], type.type, ElementParams(params))
    <2>1. usages[i] \in CountedUsage /\ value[i] = UsageToCdr(usages[i])
        BY <1>1, <1>3
    <2>2. ElementParams(params) \in TagParams
        BY PlainTag
    <2> QED
        BY <1>2, <2>1, <2>2, UsageReadsBack
<1>6. IsSlice(value, type)
    BY <1>1, <1>2, <1>4 DEF IsSlice
<1>7. ReadsBack5(value, type, params)
    BY <1>5, <1>6, SliceReadsBack5
<1> QED
    BY <1>7 DEF value, type

\* An address in text is read back, in a field with a tag, but for the lengths
\* of text that the decoder's offset fails for.
LEMMA AddressReadsBack ==
    ASSUME NEW text \in Seq(Byte), LikeOffsets(text), NEW params \in TagParams,
           params.tagNumber <= 30
    PROVE  /\ ReadsBack4([Present |-> 3, Value |-> text], IPAddress, params)
           /\ ReadsBack4([Present |-> 4, Value |-> text], IPAddress, params)
           /\ ReadsBack4([Present |-> 2, Value |-> text], NodeAddress, params)
<1>1. IsSimple(text, StringType)
    BY SimpleTypes
<1>2. ASSUME NEW type, NEW n \in Nat, HasFields(type, "choice", n), NEW place \in 1 .. n,
             type.fields[place].type = StringType, type.fields[place].params.tagNumber <= 30
      PROVE  ReadsBack4([Present |-> place, Value |-> text], type, params)
    <2> DEFINE value == [Present |-> place, Value |-> text]
    <2>1. value.Present = place /\ value.Value = text
        OBVIOUS
    <2>2. value = [Present |-> value.Present, Value |-> value.Value]
        OBVIOUS
    <2> HIDE DEF value
    <2>3. IsChoice(value, type)
        BY <1>2, <2>1, <2>2 DEF IsChoice, HasFields
    <2>4. StringType.kind = "string"
        BY DEF StringType
    <2>5. ChoosesText(value, type, params)
        BY <1>2, <2>1, <2>4 DEF ChoosesText
    <2>6. type.fields[place].params \in TagParams
        BY <1>2 DEF HasFields
    <2>7. ReadsBack3(text, StringType, type.fields[place].params)
        BY <1>1, <2>6, SimpleReadsBack
    <2>8. ReadsBack4(value, type, params)
        BY <1>2, <2>1, <2>3, <2>5, <2>7, ChoiceReadsBack4
    <2> QED
        BY <2>8 DEF value
<1>3. ReadsBack4([Present |-> 3, Value |-> text], IPAddress, params)
    BY <1>2, IPAddressTags
<1>4. ReadsBack4([Present |-> 4, Value |-> text], IPAddress, params)
    BY <1>2, IPAddressTags
<1>5. ReadsBack4([Present |-> 2, Value |-> text], NodeAddress, params)
    BY <1>2, NodeAddressTags
<1> QED
    BY <1>3, <1>4, <1>5

\* A SubscriptionID is read back.
LEMMA SubscriberReadsBack ==
    ASSUME NEW supi \in [type : STRING, data : Text], NEW params \in TagParams,
           SubscriberOf(supi) # <<>>
    PROVE  /\ IsOptional(SubscriberOf(supi))
           /\ ReadsBack5(SubscriberOf(supi)[1], SubscriptionID, params)
<1> DEFINE value == SubscriberOf(supi)[1]
           fields == SubscriptionID.fields
<1>1. PICK n \in Nat : SubscriberOf(supi) = Some(<<Some(n), Some(supi.data)>>)
    BY DEF SubscriberOf, Nil
<1>2. IsOptional(SubscriberOf(supi)) /\ value = <<Some(n), Some(supi.data)>>
    BY <1>1, Optionals
<1> HIDE DEF value
<1>3. IsOver(1 .. 2, value)
    BY <1>2, TuplesOver
<1>4. value[1] = <<n>> /\ value[2] = <<supi.data>>
    BY <1>2 DEF Some
<1>5. IsStruct(value, SubscriptionID)
    <2>1. \A i \in 1 .. 2 : i = 1 \/ i = 2
        OBVIOUS
    <2>2. 1 \in 1 .. 2 /\ value[1] # <<>>
        BY <1>4
    <2>3. \A i \in 1 .. 2 : value[i] = <<value[i][1]>>
        BY <2>1, <1>4
    <2>4. Filled(value, 2)
        BY <1>3, <2>2, <2>3 DEF Filled
    <2> QED
        BY <2>4, SubscriptionIDTags, FilledStruct
<1>6. IsSimple(n, EnumeratedType) /\ IsSimple(supi.data, StringType)
    BY SimpleTypes, TextOctets
<1>7. ASSUME NEW i \in DOMAIN fields
      PROVE  ReadsBack4(value[i][1], fields[i].type, fields[i].params)
    <2>1. i \in 1 .. 2 /\ fields[i].params \in TagParams
        BY <1>7, SubscriptionIDTags DEF HasFields
    <2>2. i = 1 \/ i = 2
        BY <2>1
    <2>3. CASE i = 1
        BY <2>1, <2>3, <1>4, <1>6, SubscriptionIDTags, SimpleReadsBack
    <2>4. CASE i = 2
        BY <2>1, <2>4, <1>4, <1>6, SubscriptionIDTags, SimpleReadsBack
    <2> QED
        BY <2>2, <2>3, <2>4
<1>8. ReadsBack5(value, SubscriptionID, params)
    BY <1>5, <1>7, StructReadsBack5
<1> QED
    BY <1>2, <1>8 DEF value

\* A SingleNSSAI is read back.
LEMMA SliceInfoReadsBack ==
    ASSUME NEW n \in Nat, NEW m \in Seq(Byte), NEW params \in TagParams
    PROVE  ReadsBack4(<<Some(n), Some(m)>>, SingleNSSAI, params)
<1> DEFINE value == <<Some(n), Some(m)>>
           fields == SingleNSSAI.fields
<1>1. IsOver(1 .. 2, value)
    BY TuplesOver
<1>2. value[1] = <<n>> /\ value[2] = <<m>>
    BY DEF Some
<1> HIDE DEF value
<1>3. IsStruct(value, SingleNSSAI)
    <2>1. \A i \in 1 .. 2 : i = 1 \/ i = 2
        OBVIOUS
    <2>2. 1 \in 1 .. 2 /\ value[1] # <<>>
        BY <1>2
    <2>3. \A i \in 1 .. 2 : value[i] = <<value[i][1]>>
        BY <2>1, <1>2
    <2>4. Filled(value, 2)
        BY <1>1, <2>2, <2>3 DEF Filled
    <2> QED
        BY <2>4, SingleNSSAITags, FilledStruct
<1>4. IsSimple(n, Integer) /\ IsSimple(m, OctetStringType)
    BY SimpleTypes
<1>5. ASSUME NEW i \in DOMAIN fields
      PROVE  ReadsBack3(value[i][1], fields[i].type, fields[i].params)
    <2>1. i \in 1 .. 2 /\ fields[i].params \in TagParams
        BY <1>5, SingleNSSAITags DEF HasFields
    <2>2. i = 1 \/ i = 2
        BY <2>1
    <2>3. CASE i = 1
        BY <2>1, <2>3, <1>2, <1>4, SingleNSSAITags, SimpleReadsBack
    <2>4. CASE i = 2
        BY <2>1, <2>4, <1>2, <1>4, SingleNSSAITags, SimpleReadsBack
    <2> QED
        BY <2>2, <2>3, <2>4
<1>6. ReadsBack4(value, SingleNSSAI, params)
    BY <1>3, <1>5, StructReadsBack4
<1> QED
    BY <1>6 DEF value

\* The numbers of a PDU session are not negative.
CountedPdu == [ChargingId : Nat, PduSessionID : Nat, Sst : Nat, Sd : Text, DnnId : Text]

\* A PDUSessionChargingInformation is read back.
LEMMA PduReadsBack ==
    ASSUME NEW pdu \in CountedPdu, NEW params \in TagParams
    PROVE  ReadsBack5(PduInfo(pdu), PDUSessionChargingInformation, params)
<1> DEFINE slice == <<Some(pdu.Sst), Some(pdu.Sd)>>
           value == PduInfo(pdu)
           fields == PDUSessionChargingInformation.fields
<1>1. /\ pdu.ChargingId \in Nat /\ pdu.PduSessionID \in Nat /\ pdu.Sst \in Nat
      /\ pdu.Sd \in Seq(Byte) /\ pdu.DnnId \in Seq(Byte)
    BY DEF CountedPdu, Text
<1>2. value = <<Some(pdu.ChargingId), Some(pdu.PduSessionID), Some(slice), Some(pdu.DnnId)>>
    BY DEF PduInfo
<1>3. \A p \in TagParams : ReadsBack4(slice, SingleNSSAI, p)
    BY <1>1, SliceInfoReadsBack
<1> HIDE DEF slice, value
<1>4. IsOver(1 .. 4, value)
    BY <1>2, TuplesOver
<1>5. /\ value[1] = <<pdu.ChargingId>> /\ value[2] = <<pdu.PduSessionID>>
      /\ value[3] = <<slice>> /\ value[4] = <<pdu.DnnId>>
    BY <1>2 DEF Some
<1>6. IsStruct(value, PDUSessionChargingInformation)
    <2>1. \A i \in 1 .. 4 : i = 1 \/ i = 2 \/ i = 3 \/ i = 4
        OBVIOUS
    <2>2. 1 \in 1 .. 4 /\ value[1] # <<>>
        BY <1>5
    <2>3. \A i \in 1 .. 4 : value[i] = <<value[i][1]>>
        BY <2>1, <1>5
    <2>4. Filled(value, 4)
        BY <1>4, <2>2, <2>3 DEF Filled
    <2> QED
        BY <2>4, PDUSessionChargingInformationTags, FilledStruct
<1>7. /\ IsSimple(pdu.ChargingId, Integer) /\ IsSimple(pdu.PduSessionID, Integer)
      /\ IsSimple(pdu.DnnId, StringType)
    BY <1>1, SimpleTypes
<1>8. ASSUME NEW i \in DOMAIN fields
      PROVE  ReadsBack4(value[i][1], fields[i].type, fields[i].params)
    <2>1. i \in 1 .. 4 /\ fields[i].params \in TagParams
        BY <1>8, PDUSessionChargingInformationTags DEF HasFields
    <2>2. i = 1 \/ i = 2 \/ i = 3 \/ i = 4
        BY <2>1
    <2>3. CASE i = 1
        BY <2>1, <2>3, <1>5, <1>7, PDUSessionChargingInformationTags, SimpleReadsBack
    <2>4. CASE i = 2
        BY <2>1, <2>4, <1>5, <1>7, PDUSessionChargingInformationTags, SimpleReadsBack
    <2>5. CASE i = 3
        BY <2>1, <2>5, <1>3, <1>5, PDUSessionChargingInformationTags
    <2>6. CASE i = 4
        BY <2>1, <2>6, <1>5, <1>7, PDUSessionChargingInformationTags, SimpleReadsBack
    <2> QED
        BY <2>2, <2>3, <2>4, <2>5, <2>6
<1>9. ReadsBack5(value, PDUSessionChargingInformation, params)
    BY <1>6, <1>8, StructReadsBack5
<1> QED
    BY <1>9 DEF value

\* A RegistrationChargingInformation is read back.
LEMMA RegistrationReadsBack ==
    ASSUME NEW params \in TagParams
    PROVE  ReadsBack5(<<Some(0)>>, RegistrationChargingInformation, params)
<1> DEFINE value == <<Some(0)>>
           fields == RegistrationChargingInformation.fields
<1>1. IsOver(1 .. 1, value)
    BY TuplesOver
<1>2. value[1] = <<0>>
    BY DEF Some
<1> HIDE DEF value
<1>3. \A i \in 1 .. 1 : i = 1 /\ 1 \in 1 .. 1
    OBVIOUS
<1>4. IsStruct(value, RegistrationChargingInformation)
    <2>1. 1 \in 1 .. 1 /\ value[1] # <<>>
        BY <1>2
    <2>2. \A i \in 1 .. 1 : value[i] = <<value[i][1]>>
        BY <1>2, <1>3
    <2>3. Filled(value, 1)
        BY <1>1, <2>1, <2>2 DEF Filled
    <2> QED
        BY <2>3, RegistrationChargingInformationTags, FilledStruct
<1>5. ASSUME NEW i \in DOMAIN fields
      PROVE  ReadsBack4(value[i][1], fields[i].type, fields[i].params)
    <2>1. i = 1 /\ fields[1].params \in TagParams
        BY <1>3, <1>5, RegistrationChargingInformationTags DEF HasFields
    <2>2. IsSimple(0, EnumeratedType)
        BY SimpleTypes
    <2> QED
        BY <1>2, <2>1, <2>2, RegistrationChargingInformationTags, SimpleReadsBack
<1>6. ReadsBack5(value, RegistrationChargingInformation, params)
    BY <1>4, <1>5, StructReadsBack5
<1> QED
    BY <1>6 DEF value

\* A consumer whose addresses are read back.
ReadableConsumer(nf) ==
    /\ nf \in NfIdentification
    /\ LikeOffsets(nf.NFIPv4Address) /\ LikeOffsets(nf.NFIPv6Address) /\ LikeOffsets(nf.NFFqdn)

\* The parts of a NetworkFunctionInformation.
LEMMA ConsumerParts ==
    ASSUME NEW nf \in NfIdentification
    PROVE  LET value == ConsumerInfo(nf)
           IN /\ IsOver(1 .. 6, value)
              /\ \A i \in 1 .. 6 : IsOptional(value[i])
              /\ value[1] = Some(NetworkFunctionality(nf.NodeFunctionality))
              /\ value[2] # <<>> => value[2][1] = nf.NFName
              /\ value[3] # <<>> => value[3][1] = [Present |-> 3, Value |-> nf.NFIPv4Address]
              /\ value[4] # <<>> => nf.NFPLMNID # Nil /\ value[4][1] = PlmnIdToCdr(nf.NFPLMNID[1])
              /\ value[5] # <<>> => value[5][1] = [Present |-> 4, Value |-> nf.NFIPv6Address]
              /\ value[6] # <<>> => value[6][1] = [Present |-> 2, Value |-> nf.NFFqdn]
              /\ nf.NFPLMNID # Nil => value[4] = Some(PlmnIdToCdr(nf.NFPLMNID[1]))
<1> DEFINE value == ConsumerInfo(nf)
           a == [Present |-> 3, Value |-> nf.NFIPv4Address]
           b == [Present |-> 4, Value |-> nf.NFIPv6Address]
           c == [Present |-> 2, Value |-> nf.NFFqdn]
           p == PlmnIdToCdr(nf.NFPLMNID[1])
<1>1. IsOver(1 .. 6, value)
    BY TuplesOver DEF ConsumerInfo
<1>2. /\ value[1] = Some(NetworkFunctionality(nf.NodeFunctionality))
      /\ value[2] = IfPresent(nf.NFName)
      /\ value[3] = Nil \/ value[3] = Some(a)
      /\ value[4] = IF nf.NFPLMNID = Nil THEN Nil ELSE Some(p)
      /\ value[5] = Nil \/ value[5] = Some(b)
      /\ value[6] = Nil \/ value[6] = Some(c)
    BY DEF ConsumerInfo
<1> HIDE DEF value, a, b, c, p
<1>3. \A i \in 1 .. 6 : IsOptional(value[i])
    <2> TAKE i \in 1 .. 6
    <2>1. i = 1 \/ i = 2 \/ i = 3 \/ i = 4 \/ i = 5 \/ i = 6
        OBVIOUS
    <2> QED
        BY <2>1, <1>2, Optionals
<1>4. /\ value[2] # <<>> => value[2][1] = nf.NFName
      /\ value[3] # <<>> => value[3][1] = a
      /\ value[4] # <<>> => nf.NFPLMNID # Nil /\ value[4][1] = p
      /\ value[5] # <<>> => value[5][1] = b
      /\ value[6] # <<>> => value[6][1] = c
      /\ nf.NFPLMNID # Nil => value[4] = Some(p)
    BY <1>2, Optionals
<1> QED
    BY <1>1, <1>2, <1>3, <1>4 DEF value, a, b, c, p

\* A NetworkFunctionInformation is read back.
LEMMA ConsumerReadsBack ==
    ASSUME NEW nf, ReadableConsumer(nf), NEW params \in TagParams
    PROVE  ReadsBack5(ConsumerInfo(nf), NetworkFunctionInformation, params)
<1> DEFINE value == ConsumerInfo(nf)
           fields == NetworkFunctionInformation.fields
<1>1. /\ nf \in NfIdentification
      /\ nf.NFName \in Seq(Byte) /\ nf.NFIPv4Address \in Seq(Byte)
      /\ nf.NFIPv6Address \in Seq(Byte) /\ nf.NFFqdn \in Seq(Byte)
      /\ nf.NFPLMNID # Nil => nf.NFPLMNID[1] \in PlmnId
    BY DEF ReadableConsumer, NfIdentification, Text, Optional, Nil
<1>2. /\ IsOver(1 .. 6, value)
      /\ \A i \in 1 .. 6 : IsOptional(value[i])
      /\ value[1] = Some(NetworkFunctionality(nf.NodeFunctionality))
      /\ value[2] # <<>> => value[2][1] = nf.NFName
      /\ value[3] # <<>> => value[3][1] = [Present |-> 3, Value |-> nf.NFIPv4Address]
      /\ value[4] # <<>> => nf.NFPLMNID # Nil /\ value[4][1] = PlmnIdToCdr(nf.NFPLMNID[1])
      /\ value[5] # <<>> => value[5][1] = [Present |-> 4, Value |-> nf.NFIPv6Address]
      /\ value[6] # <<>> => value[6][1] = [Present |-> 2, Value |-> nf.NFFqdn]
    BY <1>1, ConsumerParts
<1> HIDE DEF value
<1>3. value[1] # <<>> /\ value[1][1] = NetworkFunctionality(nf.NodeFunctionality) /\ 1 \in 1 .. 6
    BY <1>2, Optionals
<1>4. IsStruct(value, NetworkFunctionInformation)
    <2>1. Filled(value, 6)
        BY <1>2, <1>3 DEF Filled, IsOptional
    <2> QED
        BY <2>1, NetworkFunctionInformationTags, FilledStruct
<1>5. \A i \in 1 .. 6 : fields[i].params \in TagParams
    BY NetworkFunctionInformationTags DEF HasFields
<1>6. ReadsBack4(value[1][1], fields[1].type, fields[1].params)
    <2>1. NetworkFunctionality(nf.NodeFunctionality) \in Nat
        BY DEF NetworkFunctionality
    <2>2. IsSimple(value[1][1], EnumeratedType) /\ 1 \in 1 .. 6
        BY <1>3, <2>1, SimpleTypes
    <2> QED
        BY <1>5, <2>2, NetworkFunctionInformationTags, SimpleReadsBack
<1>7. ASSUME value[2] # <<>> PROVE ReadsBack4(value[2][1], fields[2].type, fields[2].params)
    <2>1. IsSimple(value[2][1], StringType) /\ 2 \in 1 .. 6
        BY <1>1, <1>2, <1>7, SimpleTypes
    <2> QED
        BY <1>5, <2>1, NetworkFunctionInformationTags, SimpleReadsBack
<1>8. ASSUME value[3] # <<>> PROVE ReadsBack4(value[3][1], fields[3].type, fields[3].params)
    <2>1. /\ fields[3].params \in TagParams /\ fields[3].params.tagNumber <= 30
          /\ fields[3].type = IPAddress /\ LikeOffsets(nf.NFIPv4Address)
        BY <1>5, NetworkFunctionInformationTags DEF ReadableConsumer
    <2> QED
        BY <1>1, <1>2, <1>8, <2>1, AddressReadsBack
<1>9. ASSUME value[4] # <<>> PROVE ReadsBack4(value[4][1], fields[4].type, fields[4].params)
    <2>1. value[4][1] \in Seq(Byte)
        BY <1>1, <1>2, <1>9, PlmnIdBytes
    <2>2. IsSimple(value[4][1], OctetStringType) /\ 4 \in 1 .. 6
        BY <2>1, SimpleTypes
    <2> QED
        BY <1>5, <2>2, NetworkFunctionInformationTags, SimpleReadsBack
<1>10. ASSUME value[5] # <<>> PROVE ReadsBack4(value[5][1], fields[5].type, fields[5].params)
    <2>1. /\ fields[5].params \in TagParams /\ fields[5].params.tagNumber <= 30
          /\ fields[5].type = IPAddress /\ LikeOffsets(nf.NFIPv6Address)
        BY <1>5, NetworkFunctionInformationTags DEF ReadableConsumer
    <2> QED
        BY <1>1, <1>2, <1>10, <2>1, AddressReadsBack
<1>11. ASSUME value[6] # <<>> PROVE ReadsBack4(value[6][1], fields[6].type, fields[6].params)
    <2>1. /\ fields[6].params \in TagParams /\ fields[6].params.tagNumber <= 30
          /\ fields[6].type = NodeAddress /\ LikeOffsets(nf.NFFqdn)
        BY <1>5, NetworkFunctionInformationTags DEF ReadableConsumer
    <2> QED
        BY <1>1, <1>2, <1>11, <2>1, AddressReadsBack
<1>12. ASSUME NEW i \in DOMAIN fields, value[i] # <<>>
       PROVE  ReadsBack4(value[i][1], fields[i].type, fields[i].params)
    <2>1. i \in 1 .. 6
        BY <1>12, NetworkFunctionInformationTags DEF HasFields
    <2>2. i = 1 \/ i = 2 \/ i = 3 \/ i = 4 \/ i = 5 \/ i = 6
        BY <2>1
    <2> QED
        BY <2>2, <1>6, <1>7, <1>8, <1>9, <1>10, <1>11, <1>12
<1>13. ReadsBack5(value, NetworkFunctionInformation, params)
    BY <1>4, <1>12, StructReadsBack5
<1> QED
    BY <1>13 DEF value

-----------------------------------------------------------------------------
(* What is reported of a record, and the record that says it. *)

\* A local time whose parts have two digits, east of Greenwich by whole hours.
Under100 == Under(100)

LocalTime == [year : Under100, month : Under100, day : Under100, hour : Under100,
              minute : Under100, second : Under100, zone : {3600 * h : h \in Under100}]

\* Requests that report numbers that are not negative and readable addresses.
ReadableRequest(request) ==
    /\ request \in ChargingDataRequest
    /\ request.ChargingId \in Nat
    /\ ReadableConsumer(request.NfConsumerIdentification)
    /\ request.Pdu # Nil => request.Pdu[1] \in CountedPdu
    /\ request.MultipleUnitUsage \in Seq(CountedUsage)

\* What is reported of a record.
IsReport(report) ==
    /\ report = [request |-> report.request, time |-> report.time, usages |-> report.usages,
                 partial |-> report.partial]
    /\ ReadableRequest(report.request)
    /\ report.time \in LocalTime
    /\ report.usages \in Seq(CountedUsage)
    /\ report.partial \in BOOLEAN

FieldsOf(report, number) == <<
    Some(200), Some(NfId), SubscriberOf(report.request.Supi),
    Some(ConsumerInfo(report.request.NfConsumerIdentification)),
    IF report.usages = <<>> THEN Nil ELSE Some(MultiUnitUsageToCdr(report.usages)),
    Some(TimeStampToCdr(report.time)), Some(0), Nil, Some(IF report.partial THEN 1 ELSE 0),
    Some(number),
    IF report.request.Pdu = Nil THEN Nil ELSE Some(PduInfo(report.request.Pdu[1])),
    IfPresent(report.request.SessionId), IfPresent(report.request.ServiceSpecificationInfo),
    IF report.request.Registration THEN Some(<<Some(0)>>) ELSE Nil,
    Some(report.request.ChargingId)>>

RecordOf(report, number) == [Present |-> 1, Value |-> FieldsOf(report, number)]

\* The fields of a record, each nil or there.
LEMMA FieldsOfReport ==
    ASSUME NEW report, NEW number
    PROVE  LET v == FieldsOf(report, number)
           IN /\ v[1] = Some(200) /\ v[2] = Some(NfId) /\ v[3] = SubscriberOf(report.request.Supi)
              /\ v[4] = Some(ConsumerInfo(report.request.NfConsumerIdentification))
              /\ v[5] = IF report.usages = <<>> THEN Nil
                        ELSE Some(MultiUnitUsageToCdr(report.usages))
              /\ v[6] = Some(TimeStampToCdr(report.time)) /\ v[7] = Some(0) /\ v[8] = Nil
              /\ v[9] = Some(IF report.partial THEN 1 ELSE 0) /\ v[10] = Some(number)
              /\ v[11] = IF report.request.Pdu = Nil THEN Nil
                         ELSE Some(PduInfo(report.request.Pdu[1]))
              /\ v[12] = IfPresent(report.request.SessionId)
              /\ v[13] = IfPresent(report.request.ServiceSpecificationInfo)
              /\ v[14] = IF report.request.Registration THEN Some(<<Some(0)>>) ELSE Nil
              /\ v[15] = Some(report.request.ChargingId)
    BY DEF FieldsOf

\* They are the fields of a structure.
LEMMA FifteenOver ==
    ASSUME NEW a, NEW b, NEW c, NEW d, NEW e, NEW f, NEW g, NEW h, NEW i, NEW j, NEW k, NEW l,
           NEW m, NEW n, NEW o
    PROVE  IsOver(1 .. 15, <<a, b, c, d, e, f, g, h, i, j, k, l, m, n, o>>)
    BY DEF IsOver

\* Each field is read back, if it is there: the numbers and the octets,
LEMMA SimpleFieldsReadBack ==
    ASSUME NEW report, IsReport(report), NEW number \in Nat, NEW i \in {1, 2, 6, 7, 9, 10, 12, 13, 15}
    PROVE  LET v == FieldsOf(report, number)
               fields == ChargingRecord.fields
           IN /\ IsOptional(v[i])
              /\ v[i] # <<>> => ReadsBack5(v[i][1], fields[i].type, fields[i].params)
<1> DEFINE v == FieldsOf(report, number)
           fields == ChargingRecord.fields
           request == report.request
<1>1. /\ request.SessionId \in Seq(Byte) /\ request.ServiceSpecificationInfo \in Seq(Byte)
      /\ request.ChargingId \in Nat /\ NfId \in Seq(Byte)
    <2>1. ReadableRequest(request) /\ NfId \in Text
        BY RequestsAssumption DEF IsReport
    <2> HIDE DEF request
    <2> QED
        BY <2>1 DEF ReadableRequest, ChargingDataRequest, Text
<1>2. /\ v[1] = Some(200) /\ v[2] = Some(NfId) /\ v[6] = Some(TimeStampToCdr(report.time))
      /\ v[7] = Some(0) /\ v[9] = Some(IF report.partial THEN 1 ELSE 0) /\ v[10] = Some(number)
      /\ v[12] = IfPresent(request.SessionId)
      /\ v[13] = IfPresent(request.ServiceSpecificationInfo)
      /\ v[15] = Some(request.ChargingId)
    BY FieldsOfReport
<1> HIDE DEF v, request, fields
<1>3. fields[i].params \in TagParams
    BY ChargingRecordTags DEF HasFields, fields
<1>4. CASE i \in {1, 7, 9, 10, 15}
    <2>1. 200 \in Nat /\ 0 \in Nat /\ (IF report.partial THEN 1 ELSE 0) \in Nat
        OBVIOUS
    <2>2. IsOptional(v[i]) /\ v[i][1] \in Nat
        BY <1>1, <1>2, <1>4, <2>1, Optionals, SMTT(30)
    <2>3. IsSimple(v[i][1], Integer) /\ fields[i].type = Integer
        BY <1>4, <2>2, SimpleTypes, ChargingRecordTags DEF fields
    <2>4. ReadsBack5(v[i][1], fields[i].type, fields[i].params)
        BY <1>3, <2>3, SimpleReadsBack
    <2> QED
        BY <2>2, <2>4 DEF v, fields
<1>5. CASE i = 2
    <2>1. IsOptional(v[2]) /\ v[2][1] \in Seq(Byte)
        BY <1>1, <1>2, Optionals
    <2>2. IsSimple(v[2][1], StringType) /\ fields[2].type = StringType
        BY <2>1, SimpleTypes, ChargingRecordTags DEF fields
    <2>3. ReadsBack5(v[2][1], fields[2].type, fields[2].params)
        BY <1>3, <1>5, <2>2, SimpleReadsBack
    <2> QED
        BY <1>5, <2>1, <2>3 DEF v, fields
<1>6. CASE i \in {6, 12, 13}
    <2>1. IsOptional(v[i]) /\ (v[i] # <<>> => v[i][1] \in Seq(Byte))
        BY <1>1, <1>2, <1>6, Optionals, TimeStampBytes, SMTT(30)
    <2>2. v[i] # <<>> => IsSimple(v[i][1], OctetStringType)
        BY <2>1, SimpleTypes
    <2>3. fields[i].type = OctetStringType
        BY <1>6, ChargingRecordTags DEF fields
    <2>4. v[i] # <<>> => ReadsBack5(v[i][1], fields[i].type, fields[i].params)
        BY <1>3, <2>2, <2>3, SimpleReadsBack
    <2> QED
        BY <2>1, <2>4 DEF v, fields
<1> QED
    BY <1>4, <1>5, <1>6

\* and the others.
LEMMA OtherFieldsReadBack ==
    ASSUME NEW report, IsReport(report), NEW number \in Nat, NEW i \in {3, 4, 5, 8, 11, 14}
    PROVE  LET v == FieldsOf(report, number)
               fields == ChargingRecord.fields
           IN /\ IsOptional(v[i])
              /\ v[i] # <<>> => ReadsBack5(v[i][1], fields[i].type, fields[i].params)
<1> DEFINE v == FieldsOf(report, number)
           fields == ChargingRecord.fields
           request == report.request
<1>1. /\ request.Supi \in [type : STRING, data : Text]
      /\ ReadableConsumer(request.NfConsumerIdentification)
      /\ request.Pdu # Nil => request.Pdu[1] \in CountedPdu
      /\ report.usages \in Seq(CountedUsage)
    <2>1. ReadableRequest(request) /\ report.usages \in Seq(CountedUsage)
        BY DEF IsReport
    <2> HIDE DEF request
    <2> QED
        BY <2>1 DEF ReadableRequest, ChargingDataRequest
<1>2. /\ v[3] = SubscriberOf(request.Supi)
      /\ v[4] = Some(ConsumerInfo(request.NfConsumerIdentification))
      /\ v[5] = IF report.usages = <<>> THEN Nil ELSE Some(MultiUnitUsageToCdr(report.usages))
      /\ v[8] = Nil
      /\ v[11] = IF request.Pdu = Nil THEN Nil ELSE Some(PduInfo(request.Pdu[1]))
      /\ v[14] = IF request.Registration THEN Some(<<Some(0)>>) ELSE Nil
    BY FieldsOfReport
<1> HIDE DEF v, request, fields
<1>3. fields[i].params \in TagParams
    BY ChargingRecordTags DEF HasFields, fields
<1>4. CASE i = 3
    <2>1. fields[3].type = SubscriptionID /\ fields[3].params \in TagParams
        BY <1>3, <1>4, ChargingRecordTags DEF fields
    <2>2. IsOptional(<<>>)
        BY DEF IsOptional
    <2>3. IsOptional(v[3])
        BY <1>1, <1>2, <2>1, <2>2, SubscriberReadsBack
    <2>4. v[3] # <<>> => ReadsBack5(v[3][1], fields[3].type, fields[3].params)
        BY <1>1, <1>2, <2>1, SubscriberReadsBack
    <2> QED
        BY <1>4, <2>3, <2>4 DEF v, fields
<1>5. CASE i = 4
    <2>1. fields[4].type = NetworkFunctionInformation /\ fields[4].params \in TagParams
        BY <1>3, <1>5, ChargingRecordTags DEF fields
    <2>2. IsOptional(v[4]) /\ v[4][1] = ConsumerInfo(request.NfConsumerIdentification)
        BY <1>2, Optionals
    <2>3. ReadsBack5(v[4][1], fields[4].type, fields[4].params)
        BY <1>1, <2>1, <2>2, ConsumerReadsBack
    <2> QED
        BY <1>5, <2>2, <2>3 DEF v, fields
<1>6. CASE i = 5
    <2>1. fields[5].type = Slice(MultipleUnitUsage) /\ fields[5].params \in TagParams
        BY <1>3, <1>6, ChargingRecordTags DEF fields
    <2>2. /\ IsOptional(v[5])
          /\ v[5] # <<>> => v[5][1] = MultiUnitUsageToCdr(report.usages)
        BY <1>2, Optionals
    <2>3. v[5] # <<>> => ReadsBack5(v[5][1], fields[5].type, fields[5].params)
        BY <1>1, <2>1, <2>2, UsagesReadBack
    <2> QED
        BY <1>6, <2>2, <2>3 DEF v, fields
<1>7. CASE i = 8
    BY <1>2, <1>7, Optionals DEF v, fields
<1>8. CASE i = 11
    <2>1. /\ fields[11].type = PDUSessionChargingInformation
          /\ fields[11].params \in TagParams
        BY <1>3, <1>8, ChargingRecordTags DEF fields
    <2>2. /\ IsOptional(v[11])
          /\ v[11] # <<>> => request.Pdu # Nil /\ v[11][1] = PduInfo(request.Pdu[1])
        BY <1>2, Optionals
    <2>3. v[11] # <<>> => ReadsBack5(v[11][1], fields[11].type, fields[11].params)
        BY <1>1, <2>1, <2>2, PduReadsBack
    <2> QED
        BY <1>8, <2>2, <2>3 DEF v, fields
<1>9. CASE i = 14
    <2>1. /\ fields[14].type = RegistrationChargingInformation
          /\ fields[14].params \in TagParams
        BY <1>3, <1>9, ChargingRecordTags DEF fields
    <2>2. IsOptional(v[14]) /\ (v[14] # <<>> => v[14][1] = <<Some(0)>>)
        BY <1>2, Optionals
    <2>3. v[14] # <<>> => ReadsBack5(v[14][1], fields[14].type, fields[14].params)
        BY <2>1, <2>2, RegistrationReadsBack
    <2> QED
        BY <1>9, <2>2, <2>3 DEF v, fields
<1> QED
    BY <1>4, <1>5, <1>6, <1>7, <1>8, <1>9

\* The record of a report is read back from what it is encoded as.
THEOREM RecordReadsBack ==
    ASSUME NEW report, IsReport(report), NEW number \in Nat
    PROVE  ReadsBack(RecordOf(report, number), CHFRecord, Plain)
<1> DEFINE v == FieldsOf(report, number)
           fields == ChargingRecord.fields
           record == RecordOf(report, number)
<1>1. ASSUME NEW i \in 1 .. 15
      PROVE  /\ IsOptional(v[i])
             /\ v[i] # <<>> => ReadsBack5(v[i][1], fields[i].type, fields[i].params)
    <2>1. i \in {1, 2, 6, 7, 9, 10, 12, 13, 15} \/ i \in {3, 4, 5, 8, 11, 14}
        OBVIOUS
    <2> QED
        BY <2>1, SimpleFieldsReadBack, OtherFieldsReadBack
<1>2. IsOver(1 .. 15, v)
    BY FifteenOver DEF FieldsOf
<1>3. v[1] # <<>> /\ 1 \in 1 .. 15
    BY FieldsOfReport, Optionals
<1>4. record.Present = 1 /\ record.Value = v /\ record = [Present |-> record.Present, Value |-> record.Value]
    BY DEF RecordOf
<1> HIDE DEF v, record
<1>5. IsStruct(v, ChargingRecord)
    <2>1. Filled(v, 15)
        BY <1>1, <1>2, <1>3 DEF Filled, IsOptional
    <2> QED
        BY <2>1, ChargingRecordTags, FilledStruct
<1>6. \A i \in DOMAIN fields : v[i] # <<>> => ReadsBack5(v[i][1], fields[i].type, fields[i].params)
    <2>1. DOMAIN fields = 1 .. 15
        BY ChargingRecordTags DEF HasFields
    <2> QED
        BY <1>1, <2>1
<1>7. \A p \in TagParams : ReadsBack6(v, ChargingRecord, p)
    BY <1>5, <1>6, StructReadsBack6
<1>8. IsChoice(record, CHFRecord)
    BY <1>4, CHFRecordTags DEF IsChoice, HasFields
<1>9. Plain \in TagParams /\ Plain.tagNumber = NoTag
    BY PlainTag DEF Plain
<1>10. /\ CHFRecord.fields[record.Present].type = ChargingRecord
       /\ CHFRecord.fields[record.Present].params \in TagParams
    BY <1>4, CHFRecordTags DEF HasFields
<1>11. ReadsBack(record, CHFRecord, Plain)
    BY <1>4, <1>7, <1>8, <1>9, <1>10, ChoiceReadsBack7
<1> QED
    BY <1>11 DEF record

\* Sequences of fifteen with the same elements are the same.
LEMMA SameFields ==
    ASSUME NEW v, NEW w, IsOver(1 .. 15, v), IsOver(1 .. 15, w), \A i \in 1 .. 15 : v[i] = w[i]
    PROVE  v = w
<1>1. v = [i \in 1 .. 15 |-> v[i]] /\ w = [i \in 1 .. 15 |-> w[i]]
    BY DEF IsOver
<1>2. [i \in 1 .. 15 |-> v[i]] = [i \in 1 .. 15 |-> w[i]]
    OBVIOUS
<1> QED
    BY <1>1, <1>2

\* A record is one of a report if it has its fields.
LEMMA SameRecord ==
    ASSUME NEW report, NEW number, NEW record, record = [Present |-> 1, Value |-> record.Value],
           IsOver(1 .. 15, record.Value),
           \A i \in 1 .. 15 : record.Value[i] = FieldsOf(report, number)[i]
    PROVE  record = RecordOf(report, number)
<1>1. IsOver(1 .. 15, FieldsOf(report, number))
    BY FifteenOver DEF FieldsOf
<1>2. record.Value = FieldsOf(report, number)
    BY <1>1, SameFields
<1> QED
    BY <1>2 DEF RecordOf

\* A record one of whose fields is set has the others as they were.
WithField(record, n, x) == [record EXCEPT !.Value[n] = x]

\* The field that is set is as set, the others as they were.
LEMMA FieldSet ==
    ASSUME NEW report, NEW number, NEW n \in 1 .. 15, NEW x
    PROVE  LET changed == WithField(RecordOf(report, number), n, x)
           IN /\ changed = [Present |-> 1, Value |-> changed.Value]
              /\ IsOver(1 .. 15, changed.Value)
              /\ changed.Value[n] = x
              /\ \A i \in 1 .. 15 : i # n => changed.Value[i] = FieldsOf(report, number)[i]
<1> DEFINE v == FieldsOf(report, number)
           changed == WithField(RecordOf(report, number), n, x)
<1>1. IsOver(1 .. 15, v)
    BY FifteenOver DEF FieldsOf
<1> HIDE DEF v
<1>2. changed = [Present |-> 1, Value |-> [v EXCEPT ![n] = x]]
    BY DEF RecordOf, WithField, v
<1> HIDE DEF changed
<1>3. changed.Value = [v EXCEPT ![n] = x] /\ changed = [Present |-> 1, Value |-> changed.Value]
    BY <1>2
<1>4. v = [i \in 1 .. 15 |-> v[i]]
    BY <1>1 DEF IsOver
<1>5. changed.Value = [i \in 1 .. 15 |-> IF i = n THEN x ELSE v[i]]
    BY <1>3, <1>4
<1>6. IsOver(1 .. 15, changed.Value)
    BY <1>5 DEF IsOver
<1>7. /\ changed.Value[n] = x
      /\ \A i \in 1 .. 15 : i # n => changed.Value[i] = v[i]
    BY <1>5
<1> QED
    BY <1>3, <1>6, <1>7 DEF changed, v

\* The fields that usages and cause are not reported in.
LEMMA FieldsAlike ==
    ASSUME NEW report, NEW after, NEW number, after.request = report.request,
           after.time = report.time
    PROVE  LET v == FieldsOf(report, number)
               w == FieldsOf(after, number)
           IN /\ \A i \in 1 .. 15 : i # 5 /\ i # 9 => w[i] = v[i]
              /\ after.usages = report.usages => w[5] = v[5]
              /\ after.partial = report.partial => w[9] = v[9]
<1> DEFINE v == FieldsOf(report, number)
           w == FieldsOf(after, number)
<1>1. /\ v[1] = Some(200) /\ v[2] = Some(NfId) /\ v[3] = SubscriberOf(report.request.Supi)
      /\ v[4] = Some(ConsumerInfo(report.request.NfConsumerIdentification))
      /\ v[5] = IF report.usages = <<>> THEN Nil ELSE Some(MultiUnitUsageToCdr(report.usages))
      /\ v[6] = Some(TimeStampToCdr(report.time)) /\ v[7] = Some(0) /\ v[8] = Nil
      /\ v[9] = Some(IF report.partial THEN 1 ELSE 0) /\ v[10] = Some(number)
      /\ v[11] = IF report.request.Pdu = Nil THEN Nil ELSE Some(PduInfo(report.request.Pdu[1]))
      /\ v[12] = IfPresent(report.request.SessionId)
      /\ v[13] = IfPresent(report.request.ServiceSpecificationInfo)
      /\ v[14] = IF report.request.Registration THEN Some(<<Some(0)>>) ELSE Nil
      /\ v[15] = Some(report.request.ChargingId)
    BY FieldsOfReport
<1>2. /\ w[1] = Some(200) /\ w[2] = Some(NfId) /\ w[3] = SubscriberOf(after.request.Supi)
      /\ w[4] = Some(ConsumerInfo(after.request.NfConsumerIdentification))
      /\ w[5] = IF after.usages = <<>> THEN Nil ELSE Some(MultiUnitUsageToCdr(after.usages))
      /\ w[6] = Some(TimeStampToCdr(after.time)) /\ w[7] = Some(0) /\ w[8] = Nil
      /\ w[9] = Some(IF after.partial THEN 1 ELSE 0) /\ w[10] = Some(number)
      /\ w[11] = IF after.request.Pdu = Nil THEN Nil ELSE Some(PduInfo(after.request.Pdu[1]))
      /\ w[12] = IfPresent(after.request.SessionId)
      /\ w[13] = IfPresent(after.request.ServiceSpecificationInfo)
      /\ w[14] = IF after.request.Registration THEN Some(<<Some(0)>>) ELSE Nil
      /\ w[15] = Some(after.request.ChargingId)
    BY FieldsOfReport
<1> HIDE DEF v, w
<1>3. /\ after.usages = report.usages => w[5] = v[5]
      /\ after.partial = report.partial => w[9] = v[9]
    BY <1>1, <1>2
<1>4. /\ w[1] = v[1] /\ w[2] = v[2] /\ w[3] = v[3] /\ w[4] = v[4] /\ w[6] = v[6]
      /\ w[7] = v[7] /\ w[8] = v[8]
    BY <1>1, <1>2
<1>5. /\ w[10] = v[10] /\ w[11] = v[11] /\ w[12] = v[12] /\ w[13] = v[13] /\ w[14] = v[14]
      /\ w[15] = v[15]
    BY <1>1, <1>2
<1>6. \A i \in 1 .. 15 : i # 5 /\ i # 9 => w[i] = v[i]
    <2> TAKE i \in 1 .. 15
    <2>1. \/ i = 1 \/ i = 2 \/ i = 3 \/ i = 4 \/ i = 5
          \/ i = 6 \/ i = 7 \/ i = 8 \/ i = 9 \/ i = 10
          \/ i = 11 \/ i = 12 \/ i = 13 \/ i = 14 \/ i = 15
        OBVIOUS
    <2> QED
        BY <2>1, <1>4, <1>5
<1> QED
    BY <1>3, <1>6 DEF v, w

\* OpenCDR makes the record of a report without usages.
LEMMA OpenedOf ==
    ASSUME NEW request, NEW time, NEW number
    PROVE  OpenCDR(request, NfId, time, number)
             = RecordOf([request |-> request, time |-> time, usages |-> <<>>, partial |-> FALSE],
                        number)
<1> DEFINE report == [request |-> request, time |-> time, usages |-> <<>>, partial |-> FALSE]
           record == OpenCDR(request, NfId, time, number)
           v == record.Value
<1>1. record = [Present |-> 1, Value |-> v] /\ IsOver(1 .. 15, v)
    BY FifteenOver DEF OpenCDR
<1>2. /\ report.request = request /\ report.time = time /\ report.usages = <<>>
      /\ report.partial = FALSE
    OBVIOUS
<1>3. /\ v[1] = Some(200) /\ v[2] = Some(NfId) /\ v[3] = SubscriberOf(request.Supi)
      /\ v[4] = Some(ConsumerInfo(request.NfConsumerIdentification)) /\ v[5] = Nil
      /\ v[6] = Some(TimeStampToCdr(time)) /\ v[7] = Some(0) /\ v[8] = Nil /\ v[9] = Some(0)
      /\ v[10] = Some(number)
      /\ v[11] = IF request.Pdu = Nil THEN Nil ELSE Some(PduInfo(request.Pdu[1]))
      /\ v[12] = IfPresent(request.SessionId)
      /\ v[13] = IfPresent(request.ServiceSpecificationInfo)
      /\ v[14] = IF request.Registration THEN Some(<<Some(0)>>) ELSE Nil
      /\ v[15] = Some(request.ChargingId)
    BY DEF OpenCDR
<1> HIDE DEF record, v, report
<1> DEFINE w == FieldsOf(report, number)
<1>4. /\ w[1] = Some(200) /\ w[2] = Some(NfId) /\ w[3] = SubscriberOf(request.Supi)
      /\ w[4] = Some(ConsumerInfo(request.NfConsumerIdentification)) /\ w[5] = Nil
      /\ w[6] = Some(TimeStampToCdr(time)) /\ w[7] = Some(0) /\ w[8] = Nil /\ w[9] = Some(0)
      /\ w[10] = Some(number)
      /\ w[11] = IF request.Pdu = Nil THEN Nil ELSE Some(PduInfo(request.Pdu[1]))
      /\ w[12] = IfPresent(request.SessionId)
      /\ w[13] = IfPresent(request.ServiceSpecificationInfo)
      /\ w[14] = IF request.Registration THEN Some(<<Some(0)>>) ELSE Nil
      /\ w[15] = Some(request.ChargingId)
    BY <1>2, FieldsOfReport, SMTT(30)
<1> HIDE DEF w
<1>5. \A i \in 1 .. 15 : v[i] = w[i]
    <2> TAKE i \in 1 .. 15
    <2>1. \/ i = 1 \/ i = 2 \/ i = 3 \/ i = 4 \/ i = 5
          \/ i = 6 \/ i = 7 \/ i = 8 \/ i = 9 \/ i = 10
          \/ i = 11 \/ i = 12 \/ i = 13 \/ i = 14 \/ i = 15
        OBVIOUS
    <2> QED
        BY <2>1, <1>3, <1>4
<1>6. record = RecordOf(report, number)
    BY <1>1, <1>5, SameRecord DEF v, w
<1> QED
    BY <1>6 DEF record, report

\* CloseCDR makes the record of the report with the cause.
LEMMA ClosedOf ==
    ASSUME NEW report, IsReport(report), NEW number, NEW partial \in BOOLEAN
    PROVE  /\ IsReport([report EXCEPT !.partial = partial])
           /\ CloseCDR(RecordOf(report, number), partial)
                = RecordOf([report EXCEPT !.partial = partial], number)
<1> DEFINE after == [report EXCEPT !.partial = partial]
           record == CloseCDR(RecordOf(report, number), partial)
           v == FieldsOf(report, number)
           w == FieldsOf(after, number)
<1>1. /\ after = [request |-> report.request, time |-> report.time, usages |-> report.usages,
                  partial |-> partial]
    BY DEF IsReport
<1>2. /\ after.request = report.request /\ after.time = report.time
      /\ after.usages = report.usages /\ after.partial = partial
    BY <1>1
<1> HIDE DEF after
<1>3. IsReport(after)
    BY <1>1, <1>2 DEF IsReport
<1>4. record = WithField(RecordOf(report, number), 9, Some(IF partial THEN 1 ELSE 0))
    BY DEF CloseCDR, CauseForRecClosing, WithField
<1> HIDE DEF record
<1>5. /\ record = [Present |-> 1, Value |-> record.Value]
      /\ IsOver(1 .. 15, record.Value)
      /\ record.Value[9] = Some(IF partial THEN 1 ELSE 0)
      /\ \A i \in 1 .. 15 : i # 9 => record.Value[i] = v[i]
    BY <1>4, FieldSet
<1>6. /\ \A i \in 1 .. 15 : i # 9 => w[i] = v[i]
      /\ w[9] = Some(IF partial THEN 1 ELSE 0)
    BY <1>2, FieldsAlike, FieldsOfReport
<1> HIDE DEF v, w
<1>7. \A i \in 1 .. 15 : record.Value[i] = w[i]
    BY <1>5, <1>6
<1>8. record = RecordOf(after, number)
    BY <1>5, <1>7, SameRecord DEF w
<1> QED
    BY <1>3, <1>8 DEF after, record

\* The usages of two lists, one after the other.
LEMMA UsagesTogether ==
    ASSUME NEW old \in Seq(CountedUsage), NEW new \in Seq(CountedUsage)
    PROVE  /\ old \o new \in Seq(CountedUsage)
           /\ MultiUnitUsageToCdr(old) \o MultiUnitUsageToCdr(new) = MultiUnitUsageToCdr(old \o new)
<1> DEFINE S == {UsageToCdr(usage) : usage \in CountedUsage}
           a == MultiUnitUsageToCdr(old)
           b == MultiUnitUsageToCdr(new)
           c == MultiUnitUsageToCdr(old \o new)
           m == Len(old)
           n == Len(new)
<1>1. m \in Nat /\ n \in Nat /\ DOMAIN old = 1 .. m /\ DOMAIN new = 1 .. n
    OBVIOUS
<1>2. /\ old \o new \in Seq(CountedUsage) /\ Len(old \o new) = m + n
      /\ DOMAIN (old \o new) = 1 .. m + n
      /\ \A i \in 1 .. m + n : (old \o new)[i] = IF i <= m THEN old[i] ELSE new[i - m]
    OBVIOUS
<1>3. /\ a = [i \in 1 .. m |-> UsageToCdr(old[i])] /\ b = [i \in 1 .. n |-> UsageToCdr(new[i])]
      /\ c = [i \in 1 .. m + n |-> UsageToCdr((old \o new)[i])]
    BY <1>1, <1>2, UsagesToCdr
<1>4. \A i \in 1 .. m : old[i] \in CountedUsage
    BY <1>1
<1>5. \A i \in 1 .. n : new[i] \in CountedUsage
    BY <1>1
<1> HIDE DEF a, b, c, m, n
<1>6. a \in Seq(S) /\ Len(a) = m
    <2>1. a \in [1 .. m -> S]
        BY <1>3, <1>4
    <2> QED
        BY <1>1, <2>1, SeqDef
<1>7. b \in Seq(S) /\ Len(b) = n
    <2>1. b \in [1 .. n -> S]
        BY <1>3, <1>5
    <2> QED
        BY <1>1, <2>1, SeqDef
<1> HIDE DEF S
<1>8. /\ a \o b \in Seq(S) /\ Len(a \o b) = m + n
      /\ \A i \in 1 .. m + n : (a \o b)[i] = IF i <= m THEN a[i] ELSE b[i - m]
    BY <1>6, <1>7, ConcatProperties
<1>9. a \o b = [i \in 1 .. m + n |-> (a \o b)[i]]
    BY <1>8, Tabulated
<1>10. ASSUME NEW i \in 1 .. m + n PROVE (a \o b)[i] = UsageToCdr((old \o new)[i])
    <2>1. CASE i <= m
        <3>1. i \in 1 .. m
            BY <1>1, <2>1
        <3> QED
            BY <3>1, <1>2, <1>3, <1>8, <2>1
    <2>2. CASE ~(i <= m)
        <3>1. i - m \in 1 .. n
            BY <1>1, <2>2
        <3>2. (a \o b)[i] = b[i - m] /\ (old \o new)[i] = new[i - m]
            BY <1>2, <1>8, <2>2
        <3> QED
            BY <3>1, <3>2, <1>3
    <2> QED
        BY <2>1, <2>2
<1>11. a \o b = c
    BY <1>3, <1>9, <1>10
<1> QED
    BY <1>2, <1>11 DEF a, b, c

\* UpdateCDR makes the record of the report with the usages after those before.
LEMMA UpdatedOf ==
    ASSUME NEW report, IsReport(report), NEW number, NEW usages \in Seq(CountedUsage)
    PROVE  /\ IsReport([report EXCEPT !.usages = @ \o usages])
           /\ UpdateCDR(RecordOf(report, number), usages)
                = RecordOf([report EXCEPT !.usages = @ \o usages], number)
<1> DEFINE all == report.usages \o usages
           after == [report EXCEPT !.usages = @ \o usages]
           record == UpdateCDR(RecordOf(report, number), usages)
           v == FieldsOf(report, number)
           w == FieldsOf(after, number)
<1>1. report.usages \in Seq(CountedUsage)
    BY DEF IsReport
<1>2. after = [request |-> report.request, time |-> report.time, usages |-> all,
               partial |-> report.partial]
    <2>1. after = [report EXCEPT !.usages = all]
        OBVIOUS
    <2> HIDE DEF after, all
    <2> QED
        BY <2>1 DEF IsReport
<1>3. /\ after.request = report.request /\ after.time = report.time
      /\ after.usages = all /\ after.partial = report.partial
    BY <1>2
<1>4. /\ all \in Seq(CountedUsage)
      /\ MultiUnitUsageToCdr(report.usages) \o MultiUnitUsageToCdr(usages)
           = MultiUnitUsageToCdr(all)
    BY <1>1, UsagesTogether
<1> HIDE DEF after, all
<1>5. IsReport(after)
    BY <1>2, <1>3, <1>4 DEF IsReport
<1>6. CASE usages = <<>>
    <2>1. all = report.usages
        BY <1>1, <1>6 DEF all
    <2>2. after = report
        BY <1>2, <2>1 DEF IsReport
    <2>3. record = RecordOf(report, number)
        BY <1>6 DEF UpdateCDR
    <2> QED
        BY <1>5, <2>2, <2>3 DEF after
<1>7. CASE usages # <<>>
    <2> DEFINE new == MultiUnitUsageToCdr(usages)
               old == IF v[5] = Nil THEN <<>> ELSE v[5][1]
    <2>1. all # <<>>
        BY <1>1, <1>7 DEF all
    <2>2. v[5] = IF report.usages = <<>> THEN Nil ELSE Some(MultiUnitUsageToCdr(report.usages))
        BY FieldsOfReport
    <2>3. old = MultiUnitUsageToCdr(report.usages)
        <3>1. CASE report.usages = <<>>
            <4>1. MultiUnitUsageToCdr(report.usages) = [i \in DOMAIN <<>> |-> UsageToCdr(<<>>[i])]
                BY <3>1, UsagesToCdr
            <4>2. DOMAIN <<>> = {}
                OBVIOUS
            <4>3. [i \in DOMAIN <<>> |-> UsageToCdr(<<>>[i])] = <<>>
                BY <4>2
            <4> QED
                BY <2>2, <3>1, <4>1, <4>3 DEF old
        <3>2. CASE report.usages # <<>>
            <4> HIDE DEF v
            <4>1. v[5] # Nil /\ v[5][1] = MultiUnitUsageToCdr(report.usages)
                BY <2>2, <3>2, Optionals
            <4> QED
                BY <4>1 DEF old
        <3> QED
            BY <3>1, <3>2
    <2>4. record = WithField(RecordOf(report, number), 5, Some(old \o new))
        BY <1>7 DEF UpdateCDR, ListOfMultipleUnitUsage, RecordOf, WithField
    <2>5. record = WithField(RecordOf(report, number), 5, Some(MultiUnitUsageToCdr(all)))
        BY <1>4, <2>3, <2>4
    <2> HIDE DEF record, old, new
    <2>6. /\ record = [Present |-> 1, Value |-> record.Value]
          /\ IsOver(1 .. 15, record.Value)
          /\ record.Value[5] = Some(MultiUnitUsageToCdr(all))
          /\ \A i \in 1 .. 15 : i # 5 => record.Value[i] = v[i]
        <3> DEFINE x == Some(MultiUnitUsageToCdr(all))
        <3> HIDE DEF x, v
        <3>1. record = WithField(RecordOf(report, number), 5, x) /\ 5 \in 1 .. 15
            BY <2>5 DEF x
        <3>2. /\ record = [Present |-> 1, Value |-> record.Value]
              /\ IsOver(1 .. 15, record.Value)
              /\ record.Value[5] = x
              /\ \A i \in 1 .. 15 : i # 5 => record.Value[i] = FieldsOf(report, number)[i]
            BY <3>1, FieldSet
        <3> QED
            BY <3>2 DEF x, v
    <2>7. \A i \in 1 .. 15 : i # 5 => w[i] = v[i]
        BY <1>3, FieldsAlike
    <2>8. w[5] = Some(MultiUnitUsageToCdr(all))
        BY <1>3, <2>1, FieldsOfReport
    <2> HIDE DEF v, w
    <2>9. \A i \in 1 .. 15 : record.Value[i] = w[i]
        BY <2>6, <2>7, <2>8
    <2>10. record = RecordOf(after, number)
        BY <2>6, <2>9, SameRecord DEF w
    <2> QED
        BY <1>5, <2>10 DEF after, record
<1> QED
    BY <1>6, <1>7

-----------------------------------------------------------------------------
(* The documents' reading of the record of a report. *)

\* The bits of a number below 16, and of 16 times one.
LEMMA LowBits ==
    ASSUME NEW r \in Under(10)
    PROVE  /\ r = (r % 2) + 2 * ((r \div 2) % 2) + 4 * ((r \div 4) % 2) + 8 * ((r \div 8) % 2)
           /\ r \div 16 = 0 /\ r \div 32 = 0 /\ r \div 64 = 0 /\ r \div 128 = 0 /\ r \div 1 = r
           /\ r \in Nat /\ r < 10
<1>1. r \in Nat /\ r < 10
    BY DEF Under
<1>2. r \div 16 = 0 /\ r \div 32 = 0 /\ r \div 64 = 0 /\ r \div 128 = 0 /\ r \div 1 = r
    BY <1>1
<1>3. \/ r = 0 \/ r = 1 \/ r = 2 \/ r = 3 \/ r = 4
      \/ r = 5 \/ r = 6 \/ r = 7 \/ r = 8 \/ r = 9
    BY <1>1
<1>4. /\ r \in {0, 1} => r \div 2 = 0
      /\ r \in {2, 3} => r \div 2 = 1
      /\ r \in {4, 5} => r \div 2 = 2
      /\ r \in {6, 7} => r \div 2 = 3
      /\ r \in {8, 9} => r \div 2 = 4
    BY <1>1
<1>5. /\ r < 4 => r \div 4 = 0
      /\ r >= 4 /\ r < 8 => r \div 4 = 1
      /\ r >= 8 => r \div 4 = 2
      /\ r < 8 => r \div 8 = 0
      /\ r >= 8 => r \div 8 = 1
    BY <1>1
<1>6. /\ 0 % 2 = 0 /\ 1 % 2 = 1 /\ 2 % 2 = 0 /\ 3 % 2 = 1 /\ 4 % 2 = 0
      /\ 5 % 2 = 1 /\ 6 % 2 = 0 /\ 7 % 2 = 1 /\ 8 % 2 = 0 /\ 9 % 2 = 1
    OBVIOUS
<1> DEFINE two == r \div 2
           four == r \div 4
           eight == r \div 8
<1>7. r = (r % 2) + 2 * (two % 2) + 4 * (four % 2) + 8 * (eight % 2)
    <2>1. /\ r \in {0, 1} => two = 0
          /\ r \in {2, 3} => two = 1
          /\ r \in {4, 5} => two = 2
          /\ r \in {6, 7} => two = 3
          /\ r \in {8, 9} => two = 4
        BY <1>4
    <2>2. /\ r < 4 => four = 0
          /\ r >= 4 /\ r < 8 => four = 1
          /\ r >= 8 => four = 2
          /\ r < 8 => eight = 0
          /\ r >= 8 => eight = 1
        BY <1>5
    <2> HIDE DEF two, four, eight
    <2> QED
        BY <1>3, <1>6, <2>1, <2>2
<1> QED
    BY <1>1, <1>2, <1>7

\* The bits of a digit in the high half of an octet.
LEMMA HighBits ==
    ASSUME NEW q \in Under(10)
    PROVE  LET a == 16 * q
           IN /\ (a \div 1) % 2 = 0 /\ (a \div 2) % 2 = 0 /\ (a \div 4) % 2 = 0 /\ (a \div 8) % 2 = 0
              /\ a \div 16 = q /\ a \div 32 = q \div 2 /\ a \div 64 = q \div 4
              /\ a \div 128 = q \div 8
              /\ a % 256 = a
<1>1. \/ q = 0 \/ q = 1 \/ q = 2 \/ q = 3 \/ q = 4
      \/ q = 5 \/ q = 6 \/ q = 7 \/ q = 8 \/ q = 9
    BY DEF Under
<1> QED
    BY <1>1

\* One bit of a weight.
Weighed(p, q, weight) == IF 1 \in {p, q} THEN weight ELSE 0

\* A bit or-ed with none is itself.
LEMMA BitsWeighed ==
    ASSUME NEW n \in Int, NEW weight \in Nat
    PROVE  /\ Weighed(0, n % 2, weight) = weight * (n % 2)
           /\ Weighed(n % 2, 0, weight) = weight * (n % 2)
<1>1. n % 2 = 0 \/ n % 2 = 1
    OBVIOUS
<1> QED
    BY <1>1 DEF Weighed

\* Two digits in the halves of an octet.
LEMMA OrDigits ==
    ASSUME NEW q \in Under(10), NEW r \in Under(10)
    PROVE  Or(16 * q, r) = 16 * q + r
<1> DEFINE a == 16 * q
<1>1. Or(a, r) = Weighed((a \div 1) % 2, (r \div 1) % 2, 1) + Weighed((a \div 2) % 2, (r \div 2) % 2, 2)
                 + Weighed((a \div 4) % 2, (r \div 4) % 2, 4) + Weighed((a \div 8) % 2, (r \div 8) % 2, 8)
                 + Weighed((a \div 16) % 2, (r \div 16) % 2, 16)
                 + Weighed((a \div 32) % 2, (r \div 32) % 2, 32)
                 + Weighed((a \div 64) % 2, (r \div 64) % 2, 64)
                 + Weighed((a \div 128) % 2, (r \div 128) % 2, 128)
    BY DEF Or, Weighed
<1>2. /\ (a \div 1) % 2 = 0 /\ (a \div 2) % 2 = 0 /\ (a \div 4) % 2 = 0 /\ (a \div 8) % 2 = 0
      /\ a \div 16 = q /\ a \div 32 = q \div 2 /\ a \div 64 = q \div 4 /\ a \div 128 = q \div 8
    BY HighBits
<1>3. /\ r \div 1 = r /\ (r \div 16) % 2 = 0 /\ (r \div 32) % 2 = 0 /\ (r \div 64) % 2 = 0
      /\ (r \div 128) % 2 = 0
    BY LowBits
<1> HIDE DEF a
<1>4. Or(a, r) = Weighed(0, r % 2, 1) + Weighed(0, (r \div 2) % 2, 2)
                 + Weighed(0, (r \div 4) % 2, 4) + Weighed(0, (r \div 8) % 2, 8)
                 + Weighed(q % 2, 0, 16) + Weighed((q \div 2) % 2, 0, 32)
                 + Weighed((q \div 4) % 2, 0, 64) + Weighed((q \div 8) % 2, 0, 128)
    BY <1>1, <1>2, <1>3, Zenon
<1>5. q \in Nat /\ r \in Nat
    BY DEF Under
<1>6. /\ r \div 2 \in Int /\ r \div 4 \in Int /\ r \div 8 \in Int
      /\ q \div 2 \in Int /\ q \div 4 \in Int /\ q \div 8 \in Int
    BY <1>5
<1>7. /\ Weighed(0, r % 2, 1) = 1 * (r % 2) /\ Weighed(0, (r \div 2) % 2, 2) = 2 * ((r \div 2) % 2)
      /\ Weighed(0, (r \div 4) % 2, 4) = 4 * ((r \div 4) % 2)
      /\ Weighed(0, (r \div 8) % 2, 8) = 8 * ((r \div 8) % 2)
    BY <1>5, <1>6, BitsWeighed
<1>8. /\ Weighed(q % 2, 0, 16) = 16 * (q % 2)
      /\ Weighed((q \div 2) % 2, 0, 32) = 32 * ((q \div 2) % 2)
      /\ Weighed((q \div 4) % 2, 0, 64) = 64 * ((q \div 4) % 2)
      /\ Weighed((q \div 8) % 2, 0, 128) = 128 * ((q \div 8) % 2)
    BY <1>5, <1>6, BitsWeighed
<1>9. /\ r = (r % 2) + 2 * ((r \div 2) % 2) + 4 * ((r \div 4) % 2) + 8 * ((r \div 8) % 2)
      /\ q = (q % 2) + 2 * ((q \div 2) % 2) + 4 * ((q \div 4) % 2) + 8 * ((q \div 8) % 2)
    BY LowBits
<1>10. Or(a, r) = 16 * q + r
    <2> DEFINE r1 == r % 2 r2 == (r \div 2) % 2 r4 == (r \div 4) % 2 r8 == (r \div 8) % 2
               q1 == q % 2 q2 == (q \div 2) % 2 q4 == (q \div 4) % 2 q8 == (q \div 8) % 2
    <2>1. r1 \in Int /\ r2 \in Int /\ r4 \in Int /\ r8 \in Int
        BY <1>5, <1>6
    <2>2. q1 \in Int /\ q2 \in Int /\ q4 \in Int /\ q8 \in Int
        BY <1>5, <1>6
    <2>3. Or(a, r) = 1 * r1 + 2 * r2 + 4 * r4 + 8 * r8 + 16 * q1 + 32 * q2 + 64 * q4 + 128 * q8
        BY <1>4, <1>7, <1>8, Zenon
    <2>4. r = r1 + 2 * r2 + 4 * r4 + 8 * r8 /\ q = q1 + 2 * q2 + 4 * q4 + 8 * q8
        BY <1>9
    <2> HIDE DEF r1, r2, r4, r8, q1, q2, q4, q8
    <2> QED
        BY <2>1, <2>2, <2>3, <2>4
<1> QED
    BY <1>10 DEF a

\* Numbers of two digits are read as they were.
LEMMA BcdReadBack ==
    ASSUME NEW n \in Under(100)
    PROVE  ReadBcd(Bcd(n)) = n
<1> DEFINE q == n \div 10
           r == n - 10 * q
<1>1. n \in Nat /\ n < 100
    BY DEF Under
<1>2. q \in Nat /\ q < 10 /\ r \in Nat /\ r < 10 /\ n = 10 * q + r
    BY <1>1
<1>3. q \in Under(10) /\ r \in Under(10)
    BY <1>2 DEF Under
<1>4. Quotient(n, 10) = q /\ Remainder(n, 10) = r
    BY <1>1 DEF Quotient, Remainder
<1> HIDE DEF q, r
<1>5. (16 * q) % 256 = 16 * q /\ r % 256 = r
    BY <1>2
<1>6. Bcd(n) = 16 * q + r
    <2>1. Bcd(n) = Or((16 * q) % 256, r % 256)
        BY <1>4 DEF Bcd
    <2> QED
        BY <1>3, <1>5, <2>1, OrDigits
<1>7. (16 * q + r) \div 16 = q /\ (16 * q + r) % 16 = r
    BY <1>2
<1> QED
    BY <1>2, <1>6, <1>7 DEF ReadBcd

\* A time stamp is read as the time it was made of.
LEMMA TimeReadBack ==
    ASSUME NEW t \in LocalTime
    PROVE  ReadTimeStamp(TimeStampToCdr(t)) = t
<1> DEFINE ts == TimeStampToCdr(t)
<1>1. /\ t.year \in Under(100) /\ t.month \in Under(100) /\ t.day \in Under(100)
      /\ t.hour \in Under(100) /\ t.minute \in Under(100) /\ t.second \in Under(100)
      /\ t.zone \in {3600 * h : h \in Under100}
      /\ t = [year |-> t.year, month |-> t.month, day |-> t.day, hour |-> t.hour,
              minute |-> t.minute, second |-> t.second, zone |-> t.zone]
    BY DEF LocalTime, Under100
<1>2. PICK h \in Under(100) : t.zone = 3600 * h
    BY <1>1 DEF Under100
<1>3. h \in Nat /\ t.zone \in Nat /\ t.zone >= 0
    BY <1>2 DEF Under
<1>4. Quotient(t.zone, 3600) = h /\ Remainder(t.zone, 3600) = 0
    <2>1. (3600 * h) \div 3600 = h
        BY <1>3
    <2> QED
        BY <1>2, <1>3, <2>1 DEF Quotient, Remainder
<1>5. (t.year % 100) = t.year
    <2>1. t.year \in Nat /\ t.year < 100
        BY <1>1 DEF Under
    <2> QED
        BY <2>1
<1>6. /\ ts[1] = Bcd(t.year) /\ ts[2] = Bcd(t.month) /\ ts[3] = Bcd(t.day) /\ ts[4] = Bcd(t.hour)
      /\ ts[5] = Bcd(t.minute) /\ ts[6] = Bcd(t.second) /\ ts[7] = 43 /\ ts[8] = Bcd(h)
      /\ ts[9] = Bcd(0)
    BY <1>3, <1>4, <1>5 DEF TimeStampToCdr
<1> HIDE DEF ts
<1>7. 0 \in Under(100)
    BY DEF Under
<1>8. /\ ReadBcd(ts[1]) = t.year /\ ReadBcd(ts[2]) = t.month /\ ReadBcd(ts[3]) = t.day
      /\ ReadBcd(ts[4]) = t.hour /\ ReadBcd(ts[5]) = t.minute /\ ReadBcd(ts[6]) = t.second
      /\ ReadBcd(ts[8]) = h /\ ReadBcd(ts[9]) = 0
    BY <1>1, <1>6, <1>7, BcdReadBack
<1>9. (IF ts[7] = 43 THEN 1 ELSE -1) * (3600 * ReadBcd(ts[8]) + 60 * ReadBcd(ts[9])) = t.zone
    BY <1>2, <1>3, <1>6, <1>8
<1>10. ReadTimeStamp(ts) = t
    BY <1>1, <1>8, <1>9 DEF ReadTimeStamp
<1> QED
    BY <1>10 DEF ts

\* Two digits in an octet are told apart.
LEMMA DigitsApart ==
    ASSUME NEW a \in Nat, NEW b \in Nat, b < 16
    PROVE  (16 * a + b) % 16 = b /\ (16 * a + b) \div 16 = a
    OBVIOUS

\* A function over the first numbers is a sequence.
LEMMA OfLength ==
    ASSUME NEW S, NEW n \in Nat, NEW s \in [1 .. n -> S]
    PROVE  s \in Seq(S) /\ Len(s) = n
    BY SeqDef

\* Digits one after the other.
LEMMA DigitsTogether ==
    ASSUME NEW S, NEW a \in S, NEW b \in S, NEW c \in S
    PROVE  <<a, b>> \o <<c>> = <<a, b, c>>
<1> DEFINE s == <<a, b>>
           t == <<c>>
<1>1. s \in Seq(S) /\ t \in Seq(S) /\ Len(s) = 2 /\ Len(t) = 1 /\ s[1] = a /\ s[2] = b /\ t[1] = c
    OBVIOUS
<1> HIDE DEF s, t
<1>2. /\ s \o t \in Seq(S) /\ Len(s \o t) = 3
      /\ (s \o t)[1] = s[1] /\ (s \o t)[2] = s[2] /\ (s \o t)[3] = t[1]
    <2>0. /\ s \o t \in Seq(S) /\ Len(s \o t) = Len(s) + Len(t)
          /\ \A i \in 1 .. Len(s) + Len(t) :
                (s \o t)[i] = IF i <= Len(s) THEN s[i] ELSE t[i - Len(s)]
        <3>1. s \in Seq(S) /\ t \in Seq(S)
            BY <1>1
        <3> QED
            BY <3>1, ConcatProperties
    <2>1. /\ s \o t \in Seq(S) /\ Len(s \o t) = 2 + 1
          /\ \A i \in 1 .. 2 + 1 : (s \o t)[i] = IF i <= 2 THEN s[i] ELSE t[i - 2]
        BY <1>1, <2>0
    <2>2. /\ 2 + 1 = 3 /\ 3 - 2 = 1 /\ 1 \in 1 .. 2 + 1 /\ 2 \in 1 .. 2 + 1 /\ 3 \in 1 .. 2 + 1
          /\ 1 <= 2 /\ 2 <= 2 /\ ~(3 <= 2)
        OBVIOUS
    <2> QED
        BY <2>1, <2>2
<1>3. s \o t = <<a, b, c>>
    BY <1>1, <1>2, Tuples
<1> QED
    BY <1>3 DEF s, t

\* A PLMN identity is read as it was.
LEMMA PlmnReadBack ==
    ASSUME NEW plmn \in PlmnId
    PROVE  ReadPlmnId(PlmnIdToCdr(plmn)) = plmn
<1> DEFINE mcc == plmn.mcc
           mnc == plmn.mnc
           last == IF Len(mnc) = 2 THEN 15 ELSE mnc[3]
           bytes == PlmnIdToCdr(plmn)
<1>1. /\ plmn = [mcc |-> mcc, mnc |-> mnc]
      /\ mcc \in [1 .. 3 -> Under(10)]
      /\ mnc \in [1 .. 2 -> Under(10)] \/ mnc \in [1 .. 3 -> Under(10)]
    BY DEF PlmnId
<1>2. \A d \in Under(10) : d \in Nat /\ d < 16 /\ d # 15
    BY DEF Under
<1>3. bytes = <<16 * mcc[2] + mcc[1], 16 * last + mcc[3], 16 * mnc[2] + mnc[1]>>
    BY DEF PlmnIdToCdr
<1> HIDE DEF mcc, mnc, last, bytes
<1>4. mcc = <<mcc[1], mcc[2], mcc[3]>>
    <2>1. mcc \in Seq(Under(10)) /\ Len(mcc) = 3
        BY <1>1, OfLength
    <2> QED
        BY <2>1, Tuples
<1>5. /\ mcc[1] \in Under(10) /\ mcc[2] \in Under(10) /\ mcc[3] \in Under(10)
      /\ mnc[1] \in Under(10) /\ mnc[2] \in Under(10)
    BY <1>1
<1>6. /\ last \in Nat
      /\ mnc = <<mnc[1], mnc[2]>> \o (IF last = 15 THEN <<>> ELSE <<last>>)
    <2>1. CASE mnc \in [1 .. 2 -> Under(10)]
        <3>1. mnc \in Seq(Under(10)) /\ Len(mnc) = 2
            BY <2>1, OfLength
        <3>2. mnc = <<mnc[1], mnc[2]>> /\ last = 15
            BY <3>1, Tuples DEF last
        <3>3. <<mnc[1], mnc[2]>> \in Seq(Under(10))
            BY <1>5
        <3>4. <<mnc[1], mnc[2]>> \o <<>> = <<mnc[1], mnc[2]>>
            BY <3>3, ConcatEmptySeq
        <3> QED
            BY <3>2, <3>4
    <2>2. CASE mnc \in [1 .. 3 -> Under(10)]
        <3>1. mnc \in Seq(Under(10)) /\ Len(mnc) = 3
            BY <2>2, OfLength
        <3>2. mnc = <<mnc[1], mnc[2], mnc[3]>> /\ last = mnc[3] /\ mnc[3] \in Under(10)
            BY <2>2, <3>1, Tuples DEF last
        <3>3. last \in Nat /\ last # 15
            BY <1>2, <3>2
        <3>4. <<mnc[1], mnc[2]>> \o <<mnc[3]>> = <<mnc[1], mnc[2], mnc[3]>>
            BY <1>5, <3>2, DigitsTogether
        <3> QED
            BY <3>2, <3>3, <3>4
    <2> QED
        BY <1>1, <2>1, <2>2
<1>7. /\ bytes[1] % 16 = mcc[1] /\ bytes[1] \div 16 = mcc[2]
      /\ bytes[2] % 16 = mcc[3] /\ bytes[2] \div 16 = last
      /\ bytes[3] % 16 = mnc[1] /\ bytes[3] \div 16 = mnc[2]
    BY <1>2, <1>3, <1>5, <1>6, DigitsApart
<1>8. ReadPlmnId(bytes) = [mcc |-> <<mcc[1], mcc[2], mcc[3]>>,
                           mnc |-> <<mnc[1], mnc[2]>> \o (IF last = 15 THEN <<>> ELSE <<last>>)]
    BY <1>7 DEF ReadPlmnId
<1>9. ReadPlmnId(bytes) = plmn
    BY <1>1, <1>4, <1>6, <1>8
<1> QED
    BY <1>9 DEF bytes

\* Of a list of usages each is read as it was.
LEMMA UsageReadAgain ==
    ASSUME NEW usage \in CountedUsage
    PROVE  ReadUsage(UsageToCdr(usage)) = usage
<1> DEFINE list == usage.UsedUnitContainer
           made == [k \in DOMAIN list |-> UsedUnitContainerToCdr(list[k])]
           value == UsageToCdr(usage)
           Again(c) == [TotalVolume |-> c[1][1], UplinkVolume |-> c[2][1],
                        DownlinkVolume |-> c[3][1], ServiceSpecificUnits |-> c[4][1],
                        LocalSequenceNumber |-> c[5][1]]
<1>1. /\ usage = [RatingGroup |-> usage.RatingGroup, UsedUnitContainer |-> list,
                  UPFID |-> usage.UPFID]
      /\ list \in Seq(CountedUnits)
    BY DEF CountedUsage
<1>2. /\ value[1][1] = usage.RatingGroup /\ value[2][1] = made /\ value[3][1] = usage.UPFID
    BY DEF UsageToCdr, Some
<1> HIDE DEF value, list
<1>3. ASSUME NEW container \in CountedUnits
      PROVE  Again(UsedUnitContainerToCdr(container)) = container
    <2> DEFINE c == UsedUnitContainerToCdr(container)
    <2>1. /\ c[1][1] = container.TotalVolume /\ c[2][1] = container.UplinkVolume
          /\ c[3][1] = container.DownlinkVolume /\ c[4][1] = container.ServiceSpecificUnits
          /\ c[5][1] = container.LocalSequenceNumber
        BY DEF UsedUnitContainerToCdr, Some
    <2>2. container = [TotalVolume |-> container.TotalVolume,
                       UplinkVolume |-> container.UplinkVolume,
                       DownlinkVolume |-> container.DownlinkVolume,
                       ServiceSpecificUnits |-> container.ServiceSpecificUnits,
                       LocalSequenceNumber |-> container.LocalSequenceNumber]
        BY DEF CountedUnits
    <2> HIDE DEF c
    <2>3. Again(c) = container
        BY <2>1, <2>2
    <2> QED
        BY <2>3 DEF c
<1>4. ReadUsage(value) = [RatingGroup |-> value[1][1],
                          UsedUnitContainer |-> [k \in DOMAIN value[2][1] |-> Again(value[2][1][k])],
                          UPFID |-> value[3][1]]
    BY DEF ReadUsage
<1> HIDE DEF Again
<1>5. [k \in DOMAIN made |-> Again(made[k])] = list
    <2>1. list = [k \in 1 .. Len(list) |-> list[k]] /\ DOMAIN list = 1 .. Len(list)
        BY <1>1, Tabulated
    <2>2. \A k \in 1 .. Len(list) : Again(made[k]) = list[k]
        <3> TAKE k \in 1 .. Len(list)
        <3>1. list[k] \in CountedUnits /\ made[k] = UsedUnitContainerToCdr(list[k])
            BY <1>1, <2>1
        <3> HIDE DEF made
        <3> QED
            BY <1>3, <3>1
    <2>3. DOMAIN made = 1 .. Len(list)
        BY <2>1
    <2> HIDE DEF made
    <2> QED
        BY <2>1, <2>2, <2>3
<1> HIDE DEF made
<1>6. ReadUsage(value) = usage
    BY <1>1, <1>2, <1>4, <1>5
<1> QED
    BY <1>6 DEF value

\* All the usages of a list are read as what was reported.
LEMMA UsagesReadAgain ==
    ASSUME NEW usages \in Seq(CountedUsage)
    PROVE  LET made == MultiUnitUsageToCdr(usages)
           IN [i \in DOMAIN made |-> ReadUsage(made[i])] = usages
<1> DEFINE made == MultiUnitUsageToCdr(usages)
<1>1. made = [i \in DOMAIN usages |-> UsageToCdr(usages[i])]
    BY UsagesToCdr
<1>2. usages = [i \in 1 .. Len(usages) |-> usages[i]] /\ DOMAIN usages = 1 .. Len(usages)
    BY Tabulated
<1> HIDE DEF made
<1>3. \A i \in 1 .. Len(usages) : ReadUsage(made[i]) = usages[i]
    <2> TAKE i \in 1 .. Len(usages)
    <2>1. usages[i] \in CountedUsage /\ made[i] = UsageToCdr(usages[i])
        BY <1>1, <1>2
    <2> QED
        BY <2>1, UsageReadAgain
<1>4. DOMAIN made = 1 .. Len(usages)
    BY <1>1, <1>2
<1>5. [i \in DOMAIN made |-> ReadUsage(made[i])] = usages
    BY <1>2, <1>3, <1>4
<1> QED
    BY <1>5 DEF made

\* What is reported of a consumer's PLMN can be read in a record.
LEMMA ConsumerSaysPlmn ==
    ASSUME NEW nf \in NfIdentification, nf.NFPLMNID # Nil
    PROVE  ReadPlmnId(ConsumerInfo(nf)[4][1]) = nf.NFPLMNID[1]
<1> DEFINE value == ConsumerInfo(nf)
           plmn == nf.NFPLMNID[1]
<1>1. value[4] = Some(PlmnIdToCdr(plmn))
    BY ConsumerParts
<1>2. plmn \in PlmnId
    BY DEF NfIdentification, Optional, Nil
<1> HIDE DEF value, plmn
<1>3. value[4][1] = PlmnIdToCdr(plmn)
    BY <1>1, Optionals
<1>4. ReadPlmnId(PlmnIdToCdr(plmn)) = plmn
    BY <1>2, PlmnReadBack
<1> QED
    BY <1>3, <1>4 DEF value, plmn

\* So can the usages.
LEMMA RecordSaysUsages ==
    ASSUME NEW report, IsReport(report), NEW number
    PROVE  LET list == FieldsOf(report, number)[5]
               usages == IF list = Nil THEN <<>> ELSE list[1]
           IN [i \in DOMAIN usages |-> ReadUsage(usages[i])] = report.usages
<1> DEFINE list == FieldsOf(report, number)[5]
           usages == IF list = Nil THEN <<>> ELSE list[1]
           made == MultiUnitUsageToCdr(report.usages)
<1>1. list = IF report.usages = <<>> THEN Nil ELSE Some(made)
    BY FieldsOfReport
<1>2. report.usages \in Seq(CountedUsage)
    BY DEF IsReport
<1>3. [i \in DOMAIN made |-> ReadUsage(made[i])] = report.usages
    BY <1>2, UsagesReadAgain
<1> HIDE DEF made, list
<1>4. CASE report.usages = <<>>
    <2>1. usages = <<>>
        BY <1>1, <1>4
    <2>2. DOMAIN <<>> = {}
        OBVIOUS
    <2>3. [i \in {} |-> ReadUsage(usages[i])] = <<>>
        OBVIOUS
    <2>4. DOMAIN usages = {}
        BY <2>1, <2>2
    <2> HIDE DEF usages
    <2>5. [i \in DOMAIN usages |-> ReadUsage(usages[i])] = report.usages
        BY <2>3, <2>4, <1>4
    <2> QED
        BY <2>5 DEF usages, list
<1>5. CASE report.usages # <<>>
    <2>1. list # Nil /\ list[1] = made
        BY <1>1, <1>5, Optionals
    <2>2. usages = made
        BY <2>1
    <2> HIDE DEF usages
    <2>3. [i \in DOMAIN usages |-> ReadUsage(usages[i])] = report.usages
        BY <2>2, <1>3
    <2> QED
        BY <2>3 DEF usages, list
<1> QED
    BY <1>4, <1>5

\* The record of a report says what was reported.
LEMMA RecordSays ==
    ASSUME NEW report, IsReport(report), NEW number
    PROVE  SaysWhatWasReported(RecordOf(report, number), report)
<1> DEFINE v == FieldsOf(report, number)
           from == report.request.NfConsumerIdentification
           info == ConsumerInfo(from)
<1>1. RecordOf(report, number).Value = v
    BY DEF RecordOf
<1>2. /\ v[3] = SubscriberOf(report.request.Supi)
      /\ v[12] = IfPresent(report.request.SessionId)
      /\ v[15] = Some(report.request.ChargingId)
      /\ v[9] = Some(IF report.partial THEN 1 ELSE 0)
      /\ v[6] = Some(TimeStampToCdr(report.time))
      /\ v[4] = Some(info)
    BY FieldsOfReport
<1>3. v[6][1] = TimeStampToCdr(report.time) /\ v[4][1] = info
    BY <1>2, Optionals
<1>4. ReadTimeStamp(TimeStampToCdr(report.time)) = report.time
    BY TimeReadBack DEF IsReport
<1>5. from.NFPLMNID # Nil => ReadPlmnId(info[4][1]) = from.NFPLMNID[1]
    <2>1. from \in NfIdentification
        BY DEF IsReport, ReadableRequest, ReadableConsumer
    <2> QED
        BY <2>1, ConsumerSaysPlmn
<1>6. LET list == v[5]
          usages == IF list = Nil THEN <<>> ELSE list[1]
      IN [i \in DOMAIN usages |-> ReadUsage(usages[i])] = report.usages
    BY RecordSaysUsages
<1> HIDE DEF v, info
<1>7. ReadTimeStamp(v[6][1]) = report.time
    BY <1>3, <1>4
<1> QED
    BY <1>1, <1>2, <1>3, <1>5, <1>6, <1>7
       DEF SaysWhatWasReported, SubscriberIdentifier, ChargingSessionIdentifier, ChargingID,
           CauseForRecClosing, RecordOpeningTime, NFunctionConsumerInformation,
           ListOfMultipleUnitUsage, info

-----------------------------------------------------------------------------
(* What whoever reads a file finds in its CDRs. *)

\* The CDRs of a file are read as they were written, whatever its extensions.
LEMMA CdrsReadAlways ==
    ASSUME NEW f, TrueFile(f)
    PROVE  Decoding(Encoding(f)).CdrList = f.CdrList
<1> DEFINE a == FileHeaderEncoding(f.Hdr)
           b == FlattenSeq(Blocks(f.CdrList))
           data == Encoding(f)
           cdrs == f.CdrList
<1>1. data = a \o b /\ Parts(Byte, a, Len(a), b, Len(b)) /\ Len(a) \in Nat
    BY FileOctets
<1>2. TrueHeader(f.Hdr) /\ TrueCdrs(cdrs) /\ f.Hdr.NumberOfCdrsInFile = Len(cdrs)
    BY DEF TrueFile
<1> HIDE DEF data
<1>3. Holds(data, 0, a \o b)
    <2>1. a \o b \in Seq(Byte)
        <3> HIDE DEF a, b
        <3> QED
            BY <1>1, PartsTogether
    <2> HIDE DEF a, b
    <2> QED
        BY <1>1, <2>1, HoldsItself
<1>4. Holds(data, 0, a) /\ Holds(data, Len(a), b)
    <2> HIDE DEF a, b
    <2>1. Holds(data, 0, a) /\ Holds(data, 0 + Len(a), b)
        BY <1>1, <1>3, HoldsBoth
    <2> QED
        BY <1>1, <2>1
<1>5. Uint32At(data, 18) = Len(cdrs) /\ FirstCdr(data) = Len(a)
    BY <1>2, <1>4, FileHeaderReadBack
<1>6. FileHeaderAt(data).NumberOfCdrsInFile = Len(cdrs)
    <2>1. FileHeaderAt(data).NumberOfCdrsInFile = Uint32At(data, 18)
        BY DEF FileHeaderAt
    <2> QED
        BY <2>1, <1>5
<1>7. CdrsAt(data, Len(cdrs)) = cdrs
    <2>1. FirstCdr(data) \in Nat /\ Holds(data, FirstCdr(data), FlattenSeq(Blocks(cdrs)))
        BY <1>1, <1>4, <1>5
    <2> HIDE DEF cdrs
    <2> QED
        BY <1>2, <2>1, CdrsReadBack
<1>8. Decoding(data).CdrList = CdrsAt(data, Len(cdrs))
    BY <1>6 DEF Decoding
<1> QED
    BY <1>7, <1>8 DEF data

\* A CDR that is the encoding of the record of a report is parsed to a record that
\* says what was reported, if it is not too long to say how long it is.
LEMMA CdrSays ==
    ASSUME NEW report, IsReport(report), NEW number \in Nat, NEW e,
           e = Marshal(RecordOf(report, number), CHFRecord, Plain), Short(e)
    PROVE  LET parsed == ParseField(CHFRecord, e, Plain)
           IN parsed # <<>> /\ SaysWhatWasReported(parsed[1], report)
<1> DEFINE record == RecordOf(report, number)
           parsed == ParseField(CHFRecord, e, Plain)
<1>1. ReadsBack(record, CHFRecord, Plain)
    BY RecordReadsBack
<1>2. SaysWhatWasReported(record, report)
    BY RecordSays
<1> HIDE DEF record
<1>3. ParseField(CHFRecord, e, Plain) = <<record>>
    BY <1>1 DEF ReadsBack, record
<1> HIDE DEF parsed
<1>4. parsed = <<record>>
    BY <1>3 DEF parsed
<1>5. parsed # <<>> /\ parsed[1] = record
    BY <1>4
<1> QED
    BY <1>2, <1>5 DEF parsed

-----------------------------------------------------------------------------
(* The records and the files of a behaviour, and what was reported of them. *)

\* What requests report can be read: numbers are not negative, addresses readable,
\* times local times of zones of whole hours.
ReadableInputs ==
    /\ \A request \in Requests : ReadableRequest(request)
    /\ \A usage \in Usages : usage \in CountedUsage
    /\ \A time \in Times : time \in LocalTime

\* A record says what is reported of it, and so does a CDR.
Says(record, report) ==
    /\ IsReport(report)
    /\ \E number \in Nat : record = RecordOf(report, number)

SaysEncoded(e, report) ==
    /\ IsReport(report)
    /\ \E number \in Nat : e = Marshal(RecordOf(report, number), CHFRecord, Plain)

\* Records and what is reported of them, one to one.
AllSay(r, s) ==
    /\ IsSequence(r) /\ IsSequence(s) /\ Len(r) = Len(s)
    /\ \A i \in 1 .. Len(r) : Says(r[i], s[i])

\* The CDRs of the file and what was reported of them, one to one.
FileSays ==
    cdrFile # Nil =>
        \E n \in Nat :
            /\ IsOver(1 .. n, told) /\ DOMAIN told = 1 .. n
            /\ DOMAIN cdrFile[1].CdrList = 1 .. n
            /\ \A k \in 1 .. n : SaysEncoded(cdrFile[1].CdrList[k].CdrByte, told[k])

\* A further record and its report are one to one.
LEMMA AllSayAppended ==
    ASSUME NEW r, NEW s, AllSay(r, s), NEW record, NEW report, Says(record, report)
    PROVE  AllSay(Append(r, record), Append(s, report))
<1>1. PICK R, S : r \in Seq(R) /\ s \in Seq(S)
    BY DEF AllSay, IsSequence
<1>2. Len(r) \in Nat /\ Len(s) = Len(r) /\ \A i \in 1 .. Len(r) : Says(r[i], s[i])
    BY <1>1 DEF AllSay
<1> DEFINE X == R \cup {record}
           Y == S \cup {report}
           p == Append(r, record)
           q == Append(s, report)
<1>3. r \in Seq(X) /\ record \in X /\ s \in Seq(Y) /\ report \in Y
    BY <1>1
<1> HIDE DEF X, Y
<1>4. /\ p \in Seq(X) /\ Len(p) = Len(r) + 1
      /\ \A i \in 1 .. Len(r) : p[i] = r[i]
      /\ p[Len(r) + 1] = record
    BY <1>3, AppendProperties
<1>5. /\ q \in Seq(Y) /\ Len(q) = Len(s) + 1
      /\ \A i \in 1 .. Len(s) : q[i] = s[i]
      /\ q[Len(s) + 1] = report
    BY <1>3, AppendProperties
<1> HIDE DEF p, q
<1>6. ASSUME NEW i \in 1 .. Len(p) PROVE Says(p[i], q[i])
    <2>1. i \in 1 .. Len(r) \/ i = Len(r) + 1
        BY <1>2, <1>4
    <2> QED
        BY <2>1, <1>2, <1>4, <1>5
<1>7. AllSay(p, q)
    BY <1>2, <1>4, <1>5, <1>6 DEF AllSay, IsSequence
<1> QED
    BY <1>7 DEF p, q

\* So are they if one record is changed, and its report.
LEMMA AllSayChanged ==
    ASSUME NEW r, NEW s, AllSay(r, s), NEW i \in 1 .. Len(r),
           NEW record, NEW report, Says(record, report)
    PROVE  AllSay([r EXCEPT ![i] = record], [s EXCEPT ![i] = report])
<1>1. PICK R, S : r \in Seq(R) /\ s \in Seq(S)
    BY DEF AllSay, IsSequence
<1> DEFINE n == Len(r)
           X == R \cup {record}
           Y == S \cup {report}
           p == [r EXCEPT ![i] = record]
           q == [s EXCEPT ![i] = report]
<1>2. n \in Nat /\ Len(s) = n /\ \A k \in 1 .. n : Says(r[k], s[k])
    BY <1>1 DEF AllSay
<1>3. r \in [1 .. n -> R] /\ s \in [1 .. n -> S]
    BY <1>1, <1>2
<1> HIDE DEF n
<1>4. /\ p = [k \in 1 .. n |-> IF k = i THEN record ELSE r[k]]
      /\ q = [k \in 1 .. n |-> IF k = i THEN report ELSE s[k]]
    BY <1>3
<1>5. p \in [1 .. n -> X] /\ q \in [1 .. n -> Y]
    BY <1>3, <1>4
<1>6. \A k \in 1 .. n : Says(p[k], q[k])
    BY <1>2, <1>4
<1> HIDE DEF p, q, X, Y
<1>7. p \in Seq(X) /\ Len(p) = n
    BY <1>2, <1>5, OfLength
<1>8. q \in Seq(Y) /\ Len(q) = n
    BY <1>2, <1>5, OfLength
<1>9. AllSay(p, q)
    BY <1>6, <1>7, <1>8 DEF AllSay, IsSequence
<1> QED
    BY <1>9 DEF p, q

\* The record of a session that is opened says what its request reports.
LEMMA OpenedSays ==
    ASSUME NEW request, ReadableRequest(request), NEW time \in LocalTime, NEW number \in Nat
    PROVE  Says(UpdateCDR(OpenCDR(request, NfId, time, number), request.MultipleUnitUsage),
                [request |-> request, time |-> time, usages |-> request.MultipleUnitUsage,
                 partial |-> FALSE])
<1> DEFINE usages == request.MultipleUnitUsage
           report == [request |-> request, time |-> time, usages |-> <<>>, partial |-> FALSE]
           after == [report EXCEPT !.usages = @ \o usages]
<1>1. usages \in Seq(CountedUsage)
    BY DEF ReadableRequest
<1>2. IsReport(report)
    <2>1. <<>> \in Seq(CountedUsage)
        BY EmptySeq
    <2> QED
        BY <2>1 DEF IsReport
<1>3. OpenCDR(request, NfId, time, number) = RecordOf(report, number)
    BY OpenedOf
<1>4. <<>> \o usages = usages
    <2> HIDE DEF usages
    <2> QED
        BY <1>1, ConcatEmptySeq
<1>5. after = [request |-> request, time |-> time, usages |-> usages, partial |-> FALSE]
    <2>1. ASSUME NEW r, NEW t, NEW u, NEW p, NEW x
          PROVE  [[request |-> r, time |-> t, usages |-> u, partial |-> p] EXCEPT !.usages = x]
                   = [request |-> r, time |-> t, usages |-> x, partial |-> p]
        BY SMT
    <2>2. after = [report EXCEPT !.usages = <<>> \o usages]
        <3>1. report.usages = <<>>
            OBVIOUS
        <3> HIDE DEF report, usages
        <3> QED
            BY <3>1
    <2> HIDE DEF after
    <2>3. after = [report EXCEPT !.usages = usages]
        <3> HIDE DEF report, usages
        <3> QED
            BY <2>2, <1>4
    <2> HIDE DEF usages
    <2> QED
        BY <2>1, <2>3
<1> HIDE DEF usages
<1>6. IsReport(after) /\ UpdateCDR(RecordOf(report, number), usages) = RecordOf(after, number)
    <2> HIDE DEF report
    <2> QED
        BY <1>1, <1>2, UpdatedOf
<1> HIDE DEF report, after
<1>7. Says(UpdateCDR(OpenCDR(request, NfId, time, number), usages), after)
    BY <1>3, <1>6 DEF Says
<1> QED
    BY <1>5, <1>7 DEF usages

\* A record that is updated says the usages too.
LEMMA UpdatedSays ==
    ASSUME NEW record, NEW report, Says(record, report), NEW usage \in CountedUsage
    PROVE  Says(UpdateCDR(record, <<usage>>), [report EXCEPT !.usages = Append(@, usage)])
<1>1. PICK number \in Nat : record = RecordOf(report, number)
    BY DEF Says
<1>2. IsReport(report)
    BY DEF Says
<1>3. <<usage>> \in Seq(CountedUsage)
    OBVIOUS
<1>4. report.usages \in Seq(CountedUsage)
    BY <1>2 DEF IsReport
<1>5. Append(report.usages, usage) = report.usages \o <<usage>>
    BY <1>4, AppendIsConcat
<1> DEFINE after == [report EXCEPT !.usages = @ \o <<usage>>]
<1>6. IsReport(after) /\ UpdateCDR(RecordOf(report, number), <<usage>>) = RecordOf(after, number)
    BY <1>2, <1>3, UpdatedOf
<1>7. [report EXCEPT !.usages = Append(@, usage)] = after
    BY <1>5
<1> HIDE DEF after
<1>8. Says(UpdateCDR(record, <<usage>>), after)
    BY <1>1, <1>6 DEF Says
<1> QED
    BY <1>7, <1>8

\* A record that is closed says why.
LEMMA ClosedSays ==
    ASSUME NEW record, NEW report, Says(record, report), NEW partial \in BOOLEAN
    PROVE  Says(CloseCDR(record, partial), [report EXCEPT !.partial = partial])
<1>1. PICK number \in Nat : record = RecordOf(report, number)
    BY DEF Says
<1>2. IsReport(report)
    BY DEF Says
<1> DEFINE after == [report EXCEPT !.partial = partial]
<1>3. IsReport(after) /\ CloseCDR(RecordOf(report, number), partial) = RecordOf(after, number)
    BY <1>2, ClosedOf
<1> HIDE DEF after
<1>4. Says(CloseCDR(record, partial), after)
    BY <1>1, <1>3 DEF Says
<1> QED
    BY <1>4 DEF after

\* What reading a file finds in it.
AllSaid == AllSay(records, reported) /\ FileSays

\* Nothing is reported at first.
LEMMA AllSaidInit == Init => AllSaid
<1> SUFFICES ASSUME Init PROVE AllSaid
    OBVIOUS
<1>1. records = <<>> /\ reported = <<>> /\ cdrFile = Nil
    BY DEF Init
<1>2. <<>> \in Seq({}) /\ Len(<<>>) = 0
    BY EmptySeq
<1>3. AllSay(records, reported)
    BY <1>1, <1>2 DEF AllSay, IsSequence
<1> QED
    BY <1>1, <1>3 DEF AllSaid, FileSays

\* Every step that changes the records changes what is reported of them likewise.
LEMMA AllSayStep ==
    ASSUME ReadableInputs, AllSay(records, reported), [Next]_vars
    PROVE  AllSay(records, reported)'
<1>1. /\ Len(records) \in Nat /\ DOMAIN records = 1 .. Len(records)
      /\ DOMAIN reported = 1 .. Len(records)
      /\ \A i \in 1 .. Len(records) : Says(records[i], reported[i])
    BY SequenceDomain DEF AllSay
<1>2. CASE Open
    <2>1. PICK request \in Requests, time \in Times :
             /\ records' = Append(records,
                    UpdateCDR(OpenCDR(request, NfId, time, Len(records) + 1),
                              request.MultipleUnitUsage))
             /\ reported' = Append(reported,
                    [request |-> request, time |-> time, usages |-> request.MultipleUnitUsage,
                     partial |-> FALSE])
        BY <1>2 DEF Open
    <2>2. ReadableRequest(request) /\ time \in LocalTime /\ Len(records) + 1 \in Nat
        BY <1>1 DEF ReadableInputs
    <2> DEFINE record == UpdateCDR(OpenCDR(request, NfId, time, Len(records) + 1),
                                   request.MultipleUnitUsage)
               report == [request |-> request, time |-> time,
                          usages |-> request.MultipleUnitUsage, partial |-> FALSE]
    <2>3. Says(record, report)
        <3> DEFINE number == Len(records) + 1
        <3>1. number \in Nat
            BY <2>2
        <3> HIDE DEF number
        <3>2. Says(UpdateCDR(OpenCDR(request, NfId, time, number), request.MultipleUnitUsage),
                   report)
            BY <2>2, <3>1, OpenedSays
        <3> QED
            BY <3>2 DEF number
    <2>4. records' = Append(records, record) /\ reported' = Append(reported, report)
        BY <2>1
    <2> HIDE DEF record, report
    <2>5. AllSay(Append(records, record), Append(reported, report))
        BY <2>3, AllSayAppended
    <2> QED
        BY <2>4, <2>5
<1>3. CASE Update
    <2>1. PICK i \in DOMAIN records, usage \in Usages :
             /\ records' = [records EXCEPT ![i] = UpdateCDR(@, <<usage>>)]
             /\ reported' = [reported EXCEPT ![i].usages = Append(@, usage)]
        BY <1>3 DEF Update
    <2>2. usage \in CountedUsage
        BY DEF ReadableInputs
    <2> DEFINE record == UpdateCDR(records[i], <<usage>>)
               report == [reported[i] EXCEPT !.usages = Append(@, usage)]
    <2>3. Says(record, report)
        BY <1>1, <2>2, UpdatedSays
    <2>4. records' = [records EXCEPT ![i] = record] /\ reported' = [reported EXCEPT ![i] = report]
        BY <2>1
    <2> HIDE DEF record, report
    <2>5. AllSay([records EXCEPT ![i] = record], [reported EXCEPT ![i] = report])
        BY <1>1, <2>3, AllSayChanged
    <2> QED
        BY <2>4, <2>5
<1>4. CASE Close
    <2>1. PICK i \in DOMAIN records, partial \in BOOLEAN :
             /\ records' = [records EXCEPT ![i] = CloseCDR(@, partial)]
             /\ reported' = [reported EXCEPT ![i].partial = partial]
        BY <1>4 DEF Close
    <2> DEFINE record == CloseCDR(records[i], partial)
               report == [reported[i] EXCEPT !.partial = partial]
    <2>2. Says(record, report)
        BY <1>1, ClosedSays
    <2>3. records' = [records EXCEPT ![i] = record] /\ reported' = [reported EXCEPT ![i] = report]
        BY <2>1
    <2> HIDE DEF record, report
    <2>4. AllSay([records EXCEPT ![i] = record], [reported EXCEPT ![i] = report])
        BY <1>1, <2>2, AllSayChanged
    <2> QED
        BY <2>3, <2>4
<1>5. CASE UNCHANGED <<records, reported>>
    BY <1>5
<1>6. CASE DumpCdrFile \/ StoreFile \/ ReadFile
    BY <1>5, <1>6 DEF DumpCdrFile, StoreFile, ReadFile, Write
<1> QED
    BY <1>2, <1>3, <1>4, <1>5, <1>6 DEF Next, vars

\* A file that is written says what was reported of the records it is made of.
LEMMA FileSaysWritten ==
    ASSUME AllSay(records, reported), NEW header, NEW h, NEW n \in Nat, NEW chosen,
           DOMAIN chosen = 1 .. n, \A k \in 1 .. n : chosen[k] \in DOMAIN records,
           Write(header, h, chosen)
    PROVE  FileSays'
<1> DEFINE cdrs == [k \in DOMAIN chosen |-> MakeCdr(records[chosen[k]], h)]
           made == MakeFile(header, cdrs)
<1>1. cdrFile' = Some(made) /\ told' = [k \in DOMAIN chosen |-> reported[chosen[k]]]
    BY DEF Write
<1>2. made.CdrList = cdrs
    BY DEF MakeFile
<1>3. \A k \in 1 .. n : SaysEncoded(cdrs[k].CdrByte, reported[chosen[k]])
    <2> TAKE k \in 1 .. n
    <2>1. chosen[k] \in 1 .. Len(records)
        BY SequenceDomain DEF AllSay
    <2>2. Says(records[chosen[k]], reported[chosen[k]])
        BY <2>1 DEF AllSay
    <2>3. cdrs[k].CdrByte = Marshal(records[chosen[k]], CHFRecord, Plain)
        BY DEF MakeCdr
    <2> HIDE DEF cdrs
    <2> QED
        BY <2>2, <2>3 DEF Says, SaysEncoded
<1>4. DOMAIN cdrs = 1 .. n
    OBVIOUS
<1> HIDE DEF cdrs, made
<1>5. cdrFile'[1] = made
    BY <1>1 DEF Some
<1>6. /\ IsOver(1 .. n, told') /\ DOMAIN told' = 1 .. n
      /\ \A k \in 1 .. n : told'[k] = reported[chosen[k]]
    BY <1>1 DEF IsOver
<1>7. \A k \in 1 .. n : SaysEncoded(cdrFile'[1].CdrList[k].CdrByte, told'[k])
    BY <1>2, <1>3, <1>5, <1>6
<1>8. DOMAIN cdrFile'[1].CdrList = 1 .. n
    BY <1>2, <1>4, <1>5
<1> QED
    BY <1>6, <1>7, <1>8 DEF FileSays

\* No step makes a file say something else.
LEMMA FileSaysStep ==
    ASSUME AllSay(records, reported), FileSays, [Next]_vars
    PROVE  FileSays'
<1>1. PICK n \in Nat : DOMAIN records = 1 .. n
    BY SequenceDomain DEF AllSay
<1>2. CASE UNCHANGED <<cdrFile, told>>
    BY <1>2 DEF FileSays
<1>3. CASE DumpCdrFile
    <2>1. CASE Write(NoHeader, NoRelease, [i \in DOMAIN records |-> i])
        <3> DEFINE chosen == [i \in DOMAIN records |-> i]
        <3>1. DOMAIN chosen = 1 .. n /\ \A k \in 1 .. n : chosen[k] \in DOMAIN records
            BY <1>1
        <3>2. Write(NoHeader, NoRelease, chosen)
            BY <2>1
        <3> HIDE DEF chosen
        <3> QED
            BY <3>1, <3>2, FileSaysWritten
    <2>2. ASSUME NEW i \in DOMAIN records, Write(NoHeader, NoRelease, <<i>>)
          PROVE  FileSays'
        <3> DEFINE chosen == <<i>>
        <3>1. DOMAIN chosen = 1 .. 1 /\ \A k \in 1 .. 1 : chosen[k] \in DOMAIN records
            BY <2>2
        <3>2. Write(NoHeader, NoRelease, chosen) /\ 1 \in Nat
            BY <2>2
        <3> HIDE DEF chosen
        <3> QED
            BY <3>1, <3>2, FileSaysWritten
    <2> QED
        BY <1>3, <2>1, <2>2 DEF DumpCdrFile
<1>4. CASE StoreFile
    <2>1. PICK h \in FileHeaders : Write(h.file, h.cdr, [i \in DOMAIN records |-> i])
        BY <1>4 DEF StoreFile
    <2> DEFINE chosen == [i \in DOMAIN records |-> i]
    <2>2. DOMAIN chosen = 1 .. n /\ \A k \in 1 .. n : chosen[k] \in DOMAIN records
        BY <1>1
    <2>3. Write(h.file, h.cdr, chosen)
        BY <2>1
    <2> HIDE DEF chosen
    <2> QED
        BY <2>2, <2>3, FileSaysWritten
<1>5. CASE Open \/ Update \/ Close \/ ReadFile \/ UNCHANGED vars
    BY <1>2, <1>5 DEF Open, Update, Close, ReadFile, vars
<1> QED
    BY <1>3, <1>4, <1>5 DEF Next

\* Who reads a file that says what was reported, and fits, finds it there.
LEMMA FileToldWhole ==
    ASSUME FileMade, FileSays, CdrsFit
    PROVE  CdrsSayWhatWasReported
<1> SUFFICES ASSUME read # Nil PROVE CdrsSayWhatWasReported
    BY DEF CdrsSayWhatWasReported
<1>1. cdrFile # Nil /\ read = Some(Decoding(file))
    BY DEF FileMade
<1>2. TrueFile(cdrFile[1]) /\ file = Encoding(cdrFile[1])
    BY <1>1, FitFileTrue
<1> DEFINE cdrs == cdrFile[1].CdrList
<1>3. read[1].CdrList = cdrs
    <2>1. read[1] = Decoding(file)
        BY <1>1, Optionals
    <2>2. Decoding(file).CdrList = cdrs
        BY <1>2, CdrsReadAlways
    <2> QED
        BY <2>1, <2>2
<1>4. PICK n \in Nat :
        /\ IsOver(1 .. n, told) /\ DOMAIN told = 1 .. n /\ DOMAIN cdrs = 1 .. n
        /\ \A k \in 1 .. n : SaysEncoded(cdrs[k].CdrByte, told[k])
    BY <1>1 DEF FileSays
<1>5. \A k \in 1 .. n : Short(cdrs[k].CdrByte)
    BY <1>1, <1>4 DEF CdrsFit, Fit, Short
<1>6. Len(cdrs) = n
    <2>1. IsOver(1 .. Len(cdrs), cdrs) /\ Len(cdrs) \in Nat
        BY <1>2 DEF TrueFile, TrueCdrs, IsOver
    <2> HIDE DEF cdrs
    <2>2. DOMAIN cdrs = 1 .. Len(cdrs)
        BY <2>1 DEF IsOver
    <2> QED
        BY <1>4, <2>1, <2>2
<1>7. Len(told) = n
    <2> DEFINE S == {told[k] : k \in 1 .. n}
    <2>1. told \in [1 .. n -> S]
        BY <1>4 DEF IsOver
    <2> HIDE DEF S
    <2> QED
        BY <2>1, OfLength
<1>8. ASSUME NEW k \in 1 .. n
      PROVE  LET parsed == ParseField(CHFRecord, cdrs[k].CdrByte, Plain)
             IN parsed # <<>> /\ SaysWhatWasReported(parsed[1], told[k])
    <2> DEFINE e == cdrs[k].CdrByte
               report == told[k]
    <2>1. SaysEncoded(e, report) /\ Short(e)
        BY <1>4, <1>5
    <2> HIDE DEF e, report
    <2>2. PICK number \in Nat : e = Marshal(RecordOf(report, number), CHFRecord, Plain)
        BY <2>1 DEF SaysEncoded
    <2>3. IsReport(report)
        BY <2>1 DEF SaysEncoded
    <2>4. LET parsed == ParseField(CHFRecord, e, Plain)
          IN parsed # <<>> /\ SaysWhatWasReported(parsed[1], report)
        BY <2>1, <2>2, <2>3, CdrSays
    <2> QED
        BY <2>4 DEF e, report
<1> QED
    BY <1>3, <1>4, <1>6, <1>7, <1>8 DEF CdrsSayWhatWasReported

\* Whoever reads a file finds in its CDRs, in their order, what the requests reported,
\* however many requests, usages and records there were, as long as the file and its
\* CDRs fit the lengths they are written with and what is reported can be read
\* (OpenCDR, UpdateCDR, CloseCDR, dumpCdrFile, BerMarshal and Unmarshal).
THEOREM EveryCdrSaysWhatWasReported ==
    ReadableInputs => (Spec => [](CdrsFit => CdrsSayWhatWasReported))
<1> SUFFICES ASSUME ReadableInputs PROVE Spec => [](CdrsFit => CdrsSayWhatWasReported)
    OBVIOUS
<1>1. Init => AllSaid
    BY AllSaidInit
<1>2. AllSaid /\ [Next]_vars => AllSaid'
    BY AllSayStep, FileSaysStep DEF AllSaid
<1>3. FileMade /\ AllSaid => (CdrsFit => CdrsSayWhatWasReported)
    BY FileToldWhole DEF AllSaid
<1> QED
    BY <1>1, <1>2, <1>3, FileRecorded, PTL DEF Spec
=============================================================================
