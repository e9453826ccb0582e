------------------------------ MODULE CdrConvert ------------------------------
(***************************************************************************)
(* What a CDR says: the CDR types of cdr/cdrType that the CHF fills in, as *)
(* types of Ber, and the conversion of a charging data request into them   *)
(* by cdr/cdrConvert/sbiToCdr.go and internal/sbi/processor/cdr.go.  The   *)
(* fields the CHF never fills in are left out of the types.  Names are     *)
(* sequences of octets, PLMN identities sequences of digits.               *)
(***************************************************************************)
EXTENDS Ber, CdrFile

SubscriptionID == Struct(<<Field(0, EnumeratedType), Field(1, StringType)>>)

IPAddress == Choice(<<
    Field(0, OctetStringType), Field(1, OctetStringType),
    Field(2, StringType), Field(3, StringType)>>)

NodeAddress == Choice(<<Field(0, IPAddress), Field(1, StringType)>>)

NetworkFunctionInformation == Struct(<<
    Field(0, EnumeratedType),   \* NetworkFunctionality
    Field(1, StringType),       \* NetworkFunctionName
    Field(2, IPAddress),        \* NetworkFunctionIPv4Address
    Field(3, OctetStringType),  \* NetworkFunctionPLMNIdentifier
    Field(4, IPAddress),        \* NetworkFunctionIPv6Address
    Field(5, NodeAddress)>>)    \* NetworkFunctionFQDN

UsedUnitContainer == Struct(<<
    Field(4, Integer),          \* DataTotalVolume
    Field(5, Integer),          \* DataVolumeUplink
    Field(6, Integer),          \* DataVolumeDownlink
    Field(7, Integer),          \* ServiceSpecificUnits
    Field(9, Integer)>>)        \* LocalSequenceNumber

MultipleUnitUsage == Struct(<<
    Field(0, Integer),          \* RatingGroup
    Field(1, Slice(UsedUnitContainer)),
    Field(2, StringType)>>)     \* UPFID

SingleNSSAI == Struct(<<Field(0, Integer), Field(1, OctetStringType)>>)

PDUSessionChargingInformation == Struct(<<
    Field(0, Integer),          \* PDUSessionChargingID
    Field(6, Integer),          \* PDUSessionId
    Field(7, SingleNSSAI),      \* NetworkSliceInstanceID
    Field(13, StringType)>>)    \* DataNetworkNameIdentifier

RegistrationChargingInformation == Struct(<<Field(0, EnumeratedType)>>)

ChargingRecord == Struct(<<
    Field(0, Integer),                      \* RecordType
    Field(1, StringType),                   \* RecordingNetworkFunctionID
    Field(2, SubscriptionID),               \* SubscriberIdentifier
    Field(3, NetworkFunctionInformation),   \* NFunctionConsumerInformation
    Field(5, Slice(MultipleUnitUsage)),     \* ListOfMultipleUnitUsage
    Field(6, OctetStringType),              \* RecordOpeningTime
    Field(7, Integer),                      \* Duration
    Field(8, Integer),                      \* RecordSequenceNumber
    Field(9, Integer),                      \* CauseForRecClosing
    Field(11, Integer),                     \* LocalRecordSequenceNumber
    Field(13, PDUSessionChargingInformation),
    Field(16, OctetStringType),             \* ChargingSessionIdentifier
    Field(17, OctetStringType),             \* ServiceSpecificationInformation
    Field(19, RegistrationChargingInformation),
    Field(27, Integer)>>)                   \* ChargingID

\* Where the fields are among those of ChargingRecord.
SubscriberIdentifier == 3
NFunctionConsumerInformation == 4
ListOfMultipleUnitUsage == 5
RecordOpeningTime == 6
RecordSequenceNumber == 8
CauseForRecClosing == 9
ChargingSessionIdentifier == 12
ChargingID == 15

CHFRecord == Choice(<<Field(200, ChargingRecord)>>)

Nil == <<>>
Some(value) == <<value>>
IfPresent(value) == IF value = <<>> THEN Nil ELSE Some(value)

-----------------------------------------------------------------------------
(* What a charging data request has for the conversion. *)

Text == Seq(Byte)
Optional(S) == {s \in Seq(S) : Len(s) <= 1}

PlmnId == [mcc : [1 .. 3 -> Under(10)],
           mnc : [1 .. 2 -> Under(10)] \cup [1 .. 3 -> Under(10)]]

UsedUnits == [TotalVolume : Int, UplinkVolume : Int, DownlinkVolume : Int,
              ServiceSpecificUnits : Int, LocalSequenceNumber : Int]

UnitUsage == [RatingGroup : Int, UsedUnitContainer : Seq(UsedUnits), UPFID : Text]

NfIdentification == [
    NodeFunctionality : STRING, NFName : Text, NFIPv4Address : Text, NFIPv6Address : Text,
    NFFqdn : Text, NFPLMNID : Optional(PlmnId)]

PduInformation == [ChargingId : Int, PduSessionID : Int, Sst : Int, Sd : Text, DnnId : Text]

ChargingDataRequest == [
    Supi : [type : STRING, data : Text], SessionId : Text, ChargingId : Int,
    NfConsumerIdentification : NfIdentification, Pdu : Optional(PduInformation),
    ServiceSpecificationInfo : Text, Registration : BOOLEAN, MultipleUnitUsage : Seq(UnitUsage)]

-----------------------------------------------------------------------------
(* cdrConvert. *)

UsedUnitContainerToCdr(container) == <<
    Some(container.TotalVolume), Some(container.UplinkVolume), Some(container.DownlinkVolume),
    Some(container.ServiceSpecificUnits), Some(container.LocalSequenceNumber)>>

MultiUnitUsageToCdr(usages) ==
    [i \in DOMAIN usages |-> <<
        Some(usages[i].RatingGroup),
        Some([k \in DOMAIN usages[i].UsedUnitContainer |->
                UsedUnitContainerToCdr(usages[i].UsedUnitContainer[k])]),
        Some(usages[i].UPFID)>>]

\* Go's integer division and remainder, which round towards zero.
Quotient(a, b) == IF a >= 0 THEN a \div b ELSE -((-a) \div b)
Remainder(a, b) == a - b * Quotient(a, b)

\* a | b, of octets.
Or(a, b) ==
    LET One(weight) == IF 1 \in {(a \div weight) % 2, (b \div weight) % 2} THEN weight ELSE 0
    IN One(1) + One(2) + One(4) + One(8) + One(16) + One(32) + One(64) + One(128)

\* byte(n / 10) << 4 | byte(n % 10)
Bcd(n) == Or((16 * Quotient(n, 10)) % 256, Remainder(n, 10) % 256)

\* The time zone is in seconds.
TimeStampToCdr(t) == <<
    Bcd(t.year % 100), Bcd(t.month), Bcd(t.day), Bcd(t.hour), Bcd(t.minute), Bcd(t.second),
    IF t.zone >= 0 THEN 43 ELSE 45,
    Bcd(Quotient(t.zone, 3600)), Bcd(Remainder(t.zone, 3600))>>

\* Fault: the digits of each octet are taken from left to right.
PlmnIdToCdrUnswapped(plmn) ==
    LET mcc == plmn.mcc mnc == plmn.mnc
    IN <<16 * mcc[1] + mcc[2],
         16 * (IF Len(mnc) = 2 THEN 15 ELSE mnc[3]) + mcc[3],
         16 * mnc[1] + mnc[2]>>

PlmnIdToCdr(plmn) ==
    LET mcc == plmn.mcc mnc == plmn.mnc
    IN <<16 * mcc[2] + mcc[1],
         16 * (IF Len(mnc) = 2 THEN 15 ELSE mnc[3]) + mcc[3],
         16 * mnc[2] + mnc[1]>>

-----------------------------------------------------------------------------
(* OpenCDR, UpdateCDR and CloseCDR, for the requests they accept. *)

NetworkFunctionality(name) ==
    CASE name = "SMF" -> 1 [] name = "AMF" -> 2 [] name = "SMSF" -> 3 [] name = "SGW" -> 4
      [] name = "I_SMF" -> 5 [] name = "ePDG" -> 6 [] name = "CEF" -> 7 [] name = "NEF" -> 8
      [] name = "PGW_C_SMF" -> 9 [] name = "MnS_Producer" -> 10 [] OTHER -> 0

\* The part of a SUPI after its type; an NAI is what is neither an IMSI nor unknown.
SubscriberOf(supi) ==
    CASE supi.type = "imsi" -> Some(<<Some(1), Some(supi.data)>>)
      [] supi.type \in {"nai", "gci", "gli"} -> Some(<<Some(3), Some(supi.data)>>)
      [] OTHER -> Nil

\* Fault: the text addresses are set, and Present is not.
ConsumerInfoNotPresent(nf) == <<
    Some(NetworkFunctionality(nf.NodeFunctionality)),
    IfPresent(nf.NFName),
    IF nf.NFIPv4Address = <<>> THEN Nil ELSE Some([Present |-> 0, Value |-> nf.NFIPv4Address]),
    IF nf.NFPLMNID = Nil THEN Nil ELSE Some(PlmnIdToCdr(nf.NFPLMNID[1])),
    IF nf.NFIPv6Address = <<>> THEN Nil ELSE Some([Present |-> 0, Value |-> nf.NFIPv6Address]),
    IF nf.NFFqdn = <<>> THEN Nil ELSE Some([Present |-> 2, Value |-> nf.NFFqdn])>>

ConsumerInfo(nf) == <<
    Some(NetworkFunctionality(nf.NodeFunctionality)),
    IfPresent(nf.NFName),
    IF nf.NFIPv4Address = <<>> THEN Nil ELSE Some([Present |-> 3, Value |-> nf.NFIPv4Address]),
    IF nf.NFPLMNID = Nil THEN Nil ELSE Some(PlmnIdToCdr(nf.NFPLMNID[1])),
    IF nf.NFIPv6Address = <<>> THEN Nil ELSE Some([Present |-> 4, Value |-> nf.NFIPv6Address]),
    IF nf.NFFqdn = <<>> THEN Nil ELSE Some([Present |-> 2, Value |-> nf.NFFqdn])>>

PduInfo(pdu) == <<
    Some(pdu.ChargingId), Some(pdu.PduSessionID), Some(<<Some(pdu.Sst), Some(pdu.Sd)>>),
    Some(pdu.DnnId)>>

OpenCDR(request, nfId, time, number) == [
    Present |-> 1,
    Value |-> <<
        Some(200), Some(nfId), SubscriberOf(request.Supi),
        Some(ConsumerInfo(request.NfConsumerIdentification)), Nil, Some(TimeStampToCdr(time)),
        Some(0), Nil, Some(0), Some(number),
        IF request.Pdu = Nil THEN Nil ELSE Some(PduInfo(request.Pdu[1])),
        IfPresent(request.SessionId), IfPresent(request.ServiceSpecificationInfo),
        IF request.Registration THEN Some(<<Some(0)>>) ELSE Nil, Some(request.ChargingId)>>]

UpdateCDR(record, usages) ==
    IF usages = <<>> THEN record
    ELSE LET old == record.Value[ListOfMultipleUnitUsage]
         IN [record EXCEPT !.Value[ListOfMultipleUnitUsage] =
               Some((IF old = Nil THEN <<>> ELSE old[1]) \o MultiUnitUsageToCdr(usages))]

CloseCDR(record, partial) ==
    [record EXCEPT !.Value[CauseForRecClosing] = Some(IF partial THEN 1 ELSE 0)]

-----------------------------------------------------------------------------
(* The documents' reading of what the conversions write: time stamps are   *)
(* "YYMMDDhhmmssShhmm BCD encoded" (sbiToCdr.go), PLMN identities those of *)
(* TS 24.008.                                                              *)

ReadBcd(octet) == 10 * (octet \div 16) + (octet % 16)
IsBcd(octet) == octet \div 16 <= 9 /\ octet % 16 <= 9

ReadTimeStamp(ts) ==
    [year |-> ReadBcd(ts[1]), month |-> ReadBcd(ts[2]), day |-> ReadBcd(ts[3]),
     hour |-> ReadBcd(ts[4]), minute |-> ReadBcd(ts[5]), second |-> ReadBcd(ts[6]),
     zone |-> (IF ts[7] = 43 THEN 1 ELSE -1) * (3600 * ReadBcd(ts[8]) + 60 * ReadBcd(ts[9]))]

ReadPlmnId(plmn) ==
    [mcc |-> <<plmn[1] % 16, plmn[1] \div 16, plmn[2] % 16>>,
     mnc |-> <<plmn[3] % 16, plmn[3] \div 16>> \o
             (IF plmn[2] \div 16 = 15 THEN <<>> ELSE <<plmn[2] \div 16>>)]

ReadUsage(usage) ==
    [RatingGroup |-> usage[1][1],
     UsedUnitContainer |->
        [k \in DOMAIN usage[2][1] |-> LET c == usage[2][1][k] IN
           [TotalVolume |-> c[1][1], UplinkVolume |-> c[2][1], DownlinkVolume |-> c[3][1],
            ServiceSpecificUnits |-> c[4][1], LocalSequenceNumber |-> c[5][1]]],
     UPFID |-> usage[3][1]]
=============================================================================
