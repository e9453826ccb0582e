------------------------------- MODULE CdrCodec -------------------------------
(***************************************************************************)
(* CDRs on their way into a file and out of it: what requests report is    *)
(* converted to CDR types, encoded in BER, put into a CDR file by          *)
(* dumpCdrFile, and read back with the repository's own decoders.          *)
(***************************************************************************)
EXTENDS CdrConvert

CONSTANTS
    NfId,           \* the CHF's NF instance identifier
    Requests,       \* charging data requests that open a session
    Usages,         \* usage reports, the MultipleUnitUsage of later requests
    Times,          \* local times at which records are opened
    FileHeaders,    \* file headers and releases of CDRs other than dumpCdrFile's
    MaxRecords,     \* bound: records
    MaxReports      \* bound: usage reports of a record

ASSUME RequestsAssumption ==
    /\ NfId \in Text
    /\ \A request \in Requests : request \in ChargingDataRequest
    /\ \A usage \in Usages : usage \in UnitUsage
    /\ MaxRecords \in Nat

ASSUME FileHeadersAssumption ==
    \A h \in FileHeaders :
        /\ TrueHeader(h.file)
        /\ h.cdr \in [release : Under(8), version : Under(32), tsNumber : Under(32),
                       extension : Byte]

VARIABLES
    records,        \* the subscriber's CDRs
    reported,       \* history: what was reported, of each of them
    cdrFile,        \* <<>>, or the CDR file last made
    told,           \* what was reported of its CDRs
    file,           \* its octets, on the disk
    read            \* <<>>, or what has been read from it

vars == <<records, reported, cdrFile, told, file, read>>

Init ==
    /\ records = <<>>
    /\ reported = <<>>
    /\ cdrFile = Nil
    /\ told = <<>>
    /\ file = <<>>
    /\ read = Nil

\* A behaviour makes CDRs, and then files of them: what a file keeps of CDRs
\* that change later is a matter of ChargingSessions.
Making == cdrFile = Nil

Open ==
    /\ Making
    /\ Len(records) < MaxRecords
    /\ \E request \in Requests, time \in Times :
          /\ records' = Append(records,
                 UpdateCDR(OpenCDR(request, NfId, time, Len(records) + 1), request.MultipleUnitUsage))
          /\ reported' = Append(reported,
                 [request |-> request, time |-> time, usages |-> request.MultipleUnitUsage,
                  partial |-> FALSE])
    /\ UNCHANGED <<cdrFile, told, file, read>>

Update ==
    /\ Making
    /\ \E i \in DOMAIN records, usage \in Usages :
          /\ Len(reported[i].usages) < MaxReports
          /\ records' = [records EXCEPT ![i] = UpdateCDR(@, <<usage>>)]
          /\ reported' = [reported EXCEPT ![i].usages = Append(@, usage)]
    /\ UNCHANGED <<cdrFile, told, file, read>>

Close ==
    /\ Making
    /\ \E i \in DOMAIN records, partial \in BOOLEAN :
          /\ records' = [records EXCEPT ![i] = CloseCDR(@, partial)]
          /\ reported' = [reported EXCEPT ![i].partial = partial]
    /\ UNCHANGED <<cdrFile, told, file, read>>

-----------------------------------------------------------------------------
(* dumpCdrFile. *)

Epoch == [MonthLocal |-> 0, DateLocal |-> 0, HourLocal |-> 0, MinuteLocal |-> 0,
          SignOfTheLocalTimeDifferentialFromUtc |-> 0, HourDeviation |-> 0,
          MinuteDeviation |-> 0]

NoHeader == [FileLength |-> 0, HeaderLength |-> 0,
             HighReleaseIdentifier |-> 0, HighVersionIdentifier |-> 0,
             LowReleaseIdentifier |-> 0, LowVersionIdentifier |-> 0,
             FileOpeningTimestamp |-> Epoch, TimestampWhenLastCdrWasAppendedToFIle |-> Epoch,
             NumberOfCdrsInFile |-> 0, FileSequenceNumber |-> 0, FileClosureTriggerReason |-> 0,
             IpAddressOfNodeThatGeneratedFile |-> [i \in 1 .. 20 |-> 0], LostCdrIndicator |-> 0,
             LengthOfCdrRouteingFilter |-> 0, CDRRouteingFilter |-> <<>>,
             LengthOfPrivateExtension |-> 0, PrivateExtension |-> <<>>,
             HighReleaseIdentifierExtension |-> 0, LowReleaseIdentifierExtension |-> 0]

BasicEncodingRules == 1

\* The release identifiers, which dumpCdrFile leaves at 0, lengthen a header by 1.
Extension(release) == IF release = 7 THEN 1 ELSE 0

\* A CDR and its header: version, TS number and release are h's.
MakeCdr(record, h) ==
    LET cdrBytes == Marshal(record, CHFRecord, Plain)
    IN [Hdr |-> [CdrLength |-> Len(cdrBytes) % 65536,
                 ReleaseIdentifier |-> h.release, VersionIdentifier |-> h.version,
                 DataRecordFormat |-> BasicEncodingRules, TsNumber |-> h.tsNumber,
                 ReleaseIdentifierExtension |-> IF h.release = 7 THEN h.extension ELSE 0],
        CdrByte |-> cdrBytes]

\* Fault: the length of the CDR headers is left out of the file's.
LengthOfCdrsAlone(cdrs) ==
    LET L[k \in 0 .. Len(cdrs)] ==
            IF k = 0 THEN 0
            ELSE L[k - 1] + Len(cdrs[k].CdrByte) + Extension(cdrs[k].Hdr.ReleaseIdentifier)
    IN L[Len(cdrs)]

LengthOfCdrs(cdrs) ==
    LET L[k \in 0 .. Len(cdrs)] ==
            IF k = 0 THEN 0
            ELSE L[k - 1] + Len(cdrs[k].CdrByte) + 4 + Extension(cdrs[k].Hdr.ReleaseIdentifier)
    IN L[Len(cdrs)]

MakeFile(header, cdrs) ==
    LET headerLength == ((52 + header.LengthOfCdrRouteingFilter
                             + header.LengthOfPrivateExtension) % 65536)
                        + Extension(header.HighReleaseIdentifier)
                        + Extension(header.LowReleaseIdentifier)
    IN [Hdr |-> [header EXCEPT !.HeaderLength = headerLength,
                               !.NumberOfCdrsInFile = Len(cdrs),
                               !.FileLength = headerLength + LengthOfCdrs(cdrs)],
        CdrList |-> cdrs]

Write(header, h, chosen) ==
    LET made == MakeFile(header, [k \in DOMAIN chosen |-> MakeCdr(records[chosen[k]], h)])
    IN /\ cdrFile' = Some(made)
       /\ file' = Encoding(made)
       /\ told' = [k \in DOMAIN chosen |-> reported[chosen[k]]]
       /\ read' = Nil
       /\ UNCHANGED <<records, reported>>

NoRelease == [release |-> 0, version |-> 0, tsNumber |-> 0, extension |-> 0]

\* All the subscriber's records, or the one that is closed.
DumpCdrFile ==
    \/ records # <<>> /\ Write(NoHeader, NoRelease, [i \in DOMAIN records |-> i])
    \/ \E i \in DOMAIN records : Write(NoHeader, NoRelease, <<i>>)

\* Files of other makers, as the tests of the package write them.
StoreFile ==
    \E h \in FileHeaders : Write(h.file, h.cdr, [i \in DOMAIN records |-> i])

\* Decoding panics where it reads past the end for the release extension.
ReadFile ==
    /\ file # <<>>
    /\ read = Nil
    /\ At(file, 9) \div 32 = 7 => ExtensionEnd(file) + 1 < Len(file)
    /\ read' = Some(Decoding(file))
    /\ UNCHANGED <<records, reported, cdrFile, told, file>>

Next == Open \/ Update \/ Close \/ DumpCdrFile \/ StoreFile \/ ReadFile

Spec == Init /\ [][Next]_vars

-----------------------------------------------------------------------------

\* The encoder takes every record the CHF makes: no CHOICE of nothing, no
\* structure without a field, of which one would panic and the other be
\* written as an empty CDR.
RecordsCanBeEncoded ==
    \A i \in DOMAIN records : Outcome(records[i], CHFRecord, Plain) = "ok"

\* The lengths in a file's header and in those of its CDRs are the lengths.
LengthsAreTrue ==
    cdrFile # Nil =>
        /\ cdrFile[1].Hdr.FileLength = Len(file)
        /\ cdrFile[1].Hdr.HeaderLength = Len(FileHeaderEncoding(cdrFile[1].Hdr))
        /\ \A i \in DOMAIN cdrFile[1].CdrList :
              cdrFile[1].CdrList[i].Hdr.CdrLength = Len(cdrFile[1].CdrList[i].CdrByte)

\* The extension of the low release identifier, if there is one, follows that
\* of the high one, where the decoder looks for it.
HasHighExtension(h) == h.LowReleaseIdentifier = 7 => h.HighReleaseIdentifier = 7

\* A file is read as what was written, every field of its headers and every
\* CDR, if it has no extension of the low release identifier alone.
FilesReadBack ==
    read # Nil /\ HasHighExtension(cdrFile[1].Hdr) => read = cdrFile

SaysWhatWasReported(record, report) ==
    LET v == record.Value
        nf == v[NFunctionConsumerInformation][1]
        from == report.request.NfConsumerIdentification
    IN /\ v[SubscriberIdentifier] = SubscriberOf(report.request.Supi)
       /\ v[ChargingSessionIdentifier] = IfPresent(report.request.SessionId)
       /\ v[ChargingID] = Some(report.request.ChargingId)
       /\ v[CauseForRecClosing] = Some(IF report.partial THEN 1 ELSE 0)
       /\ ReadTimeStamp(v[RecordOpeningTime][1]) = report.time
       /\ nf = ConsumerInfo(from)
       /\ from.NFPLMNID # Nil => ReadPlmnId(nf[4][1]) = from.NFPLMNID[1]
       /\ LET list == v[ListOfMultipleUnitUsage]
              usages == IF list = Nil THEN <<>> ELSE list[1]
          IN [i \in DOMAIN usages |-> ReadUsage(usages[i])] = report.usages

\* Whoever reads the file finds in its CDRs, in their order, what the requests
\* reported: the subscriber, the session, the consumer and its PLMN, the time,
\* and each usage with its volumes, none missing and none twice.
CdrsSayWhatWasReported ==
    read # Nil =>
        /\ Len(read[1].CdrList) = Len(told)
        /\ \A i \in DOMAIN told :
              LET parsed == ParseField(CHFRecord, read[1].CdrList[i].CdrByte, Plain)
              IN parsed # <<>> /\ SaysWhatWasReported(parsed[1], told[i])

\* "format: YYMMDDhhmmssShhmm BCD encoded" (TimeStampToCdr).
OpeningTimesAreBcd ==
    \A i \in DOMAIN records :
        LET ts == records[i].Value[RecordOpeningTime][1]
        IN /\ \A k \in DOMAIN ts \ {7} : IsBcd(ts[k])
           /\ ReadTimeStamp(ts) = reported[i].time
=============================================================================
