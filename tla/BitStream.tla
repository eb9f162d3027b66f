----------------------------- MODULE BitStream ------------------------------
(***************************************************************************)
(* The scanners of decoder/video_decoder.cpp: NAL units of a packet, the   *)
(* user data in its SEI messages, and the repair of the profile in an SPS. *)
(*                                                                         *)
(* Data is a sequence of bytes; positions are offsets from 0 as in the     *)
(* code.  A read outside the data is an error TLC reports, so every check  *)
(* of a property is also one of the bounds.  The state is an input that    *)
(* grows byte by byte, so that a run visits every input up to MaxLength.   *)
(***************************************************************************)
EXTENDS Integers, Sequences, FiniteSetsExt

CONSTANTS
    Bytes,          \* the bytes inputs consist of, of 0 .. 255
    MaxLength,      \* bound on the length of an input
    Paddings        \* lengths of what is put after an input to make it long

VARIABLE bytes

Init == bytes = <<>>
Next == Len(bytes) < MaxLength /\ \E b \in Bytes : bytes' = Append(bytes, b)
Spec == Init /\ [][Next]_bytes
-----------------------------------------------------------------------------
At(data, i) == data[i + 1]
From(data, i, j) == SubSeq(data, i + 1, j)      \* the bytes i to j - 1

\* size_t(-1): greater than every size.
Npos == 2147483647

LongCode(data, p) == p + 4 <= Len(data) /\ From(data, p, p + 4) = <<0, 0, 0, 1>>
ShortCode(data, p) == p + 3 <= Len(data) /\ From(data, p, p + 3) = <<0, 0, 1>>

isAnnexBFormat(data) ==
    /\ Len(data) >= 4
    /\ At(data, 0) = 0 /\ At(data, 1) = 0
    /\ (At(data, 2) = 0 /\ At(data, 3) = 1) \/ At(data, 2) = 1

\* Seeded bug: only the long start codes are found.
findLongCode(data, pos) ==
    LET found == {p \in pos .. Len(data) - 3 : LongCode(data, p)}
    IN  IF found = {} THEN Npos ELSE Min(found)

findStartCode(data, pos) ==
    LET found == {p \in pos .. Len(data) - 3 : LongCode(data, p) \/ ShortCode(data, p)}
    IN  IF found = {} THEN Npos ELSE Min(found)

\* The units from the start code at pos.  "No start code" is Npos, which is
\* not less than 0: the unit that ends with the data is not in the result.
RECURSIVE NalusFrom(_, _)
NalusFrom(data, pos) ==
    IF pos >= Len(data) THEN <<>>
    ELSE LET nalStart == pos + (IF LongCode(data, pos) THEN 4 ELSE 3)
             next == findStartCode(data, nalStart)
         IN  (IF nalStart < next /\ next <= Len(data) THEN <<From(data, nalStart, next)>> ELSE <<>>)
             \o NalusFrom(data, next)

splitAnnexBNalus(data) == NalusFrom(data, findStartCode(data, 0))

\* The length at pos; lengths above 65535 are longer than any data here.
nalSize(data, pos) ==
    IF At(data, pos) # 0 \/ At(data, pos + 1) # 0 THEN Npos - Len(data)
    ELSE 256 * At(data, pos + 2) + At(data, pos + 3)

\* Seeded bug: the length counts its own four bytes.
RECURSIVE AvccFromWhole(_, _)
AvccFromWhole(data, pos) ==
    IF pos + 4 > Len(data) \/ pos + nalSize(data, pos) > Len(data) THEN <<>>
    ELSE <<From(data, pos + 4, pos + nalSize(data, pos))>>
         \o AvccFromWhole(data, pos + 4 + nalSize(data, pos))

RECURSIVE AvccFrom(_, _)
AvccFrom(data, pos) ==
    IF pos + 4 > Len(data) \/ pos + 4 + nalSize(data, pos) > Len(data) THEN <<>>
    ELSE LET end == pos + 4 + nalSize(data, pos)
         IN  <<From(data, pos + 4, end)>> \o AvccFrom(data, end)

splitAvccNalus(data) == AvccFrom(data, 0)

\* Seeded bug: a 3 that ends the data is kept.
RECURSIVE RbspFrom(_, _)
RbspFrom(data, i) ==
    IF i >= Len(data) THEN <<>>
    ELSE IF i + 2 < Len(data) /\ From(data, i, i + 3) = <<0, 0, 3>> THEN <<0, 0>> \o RbspFrom(data, i + 3)
    ELSE <<At(data, i)>> \o RbspFrom(data, i + 1)

removeEPB(data) == RbspFrom(data, 0)
-----------------------------------------------------------------------------
(* SEI messages.                                                           *)

\* Seeded bug: a number is one byte.
NumberOfOne(rbsp, off) == [value |-> At(rbsp, off), off |-> off + 1]

\* A number at off: bytes are added up to the first that is not 255.
RECURSIVE Number(_, _)
Number(rbsp, off) ==
    IF off >= Len(rbsp) THEN [value |-> 0, off |-> off]
    ELSE IF At(rbsp, off) # 255 THEN [value |-> At(rbsp, off), off |-> off + 1]
    ELSE LET rest == Number(rbsp, off + 1) IN [rest EXCEPT !.value = 255 + @]

\* payloadType 5 is user_data_unregistered, which begins with a UUID.
userData(type, payload) ==
    IF type = 5 /\ Len(payload) >= 16
    THEN <<[uuid |-> From(payload, 0, 16), payload |-> From(payload, 16, Len(payload))]>>
    ELSE <<>>

RECURSIVE MessagesFrom(_, _)
MessagesFrom(rbsp, off) ==
    IF off + 2 >= Len(rbsp) THEN <<>>
    ELSE LET type == Number(rbsp, off)
             size == Number(rbsp, type.off)
             end == size.off + size.value
         IN  IF end > Len(rbsp) THEN <<>>
             ELSE userData(type.value, From(rbsp, size.off, end)) \o MessagesFrom(rbsp, end)

headerSize(hevc) == IF hevc THEN 2 ELSE 1

isSei(nal, hevc) ==
    IF hevc THEN Len(nal) >= 2 /\ (At(nal, 0) \div 2) % 64 \in {39, 40}
    ELSE Len(nal) >= 1 /\ At(nal, 0) % 32 = 6

parseSeiFromNal(nal, hevc) ==
    IF isSei(nal, hevc) THEN MessagesFrom(removeEPB(From(nal, headerSize(hevc), Len(nal))), 0) ELSE <<>>

RECURSIVE SeiOfAll(_, _)
SeiOfAll(nalus, hevc) ==
    IF nalus = <<>> THEN <<>> ELSE parseSeiFromNal(Head(nalus), hevc) \o SeiOfAll(Tail(nalus), hevc)

parseSEIFromPacket(data, hevc) ==
    SeiOfAll(IF isAnnexBFormat(data) THEN splitAnnexBNalus(data) ELSE splitAvccNalus(data), hevc)
-----------------------------------------------------------------------------
(* The profile of an SPS.                                                  *)

validProfiles == {44, 66, 77, 88, 100, 110, 118, 122, 128, 144, 244}

\* The start of the first SPS seen from current on, or Npos.
RECURSIVE SpsFrom(_, _)
SpsFrom(data, current) ==
    IF current >= Len(data) - 4 THEN Npos
    ELSE IF ~(LongCode(data, current) \/ ShortCode(data, current)) THEN SpsFrom(data, current + 1)
    ELSE LET nal == current + (IF ShortCode(data, current) THEN 3 ELSE 4)
         IN  IF At(data, nal) % 32 = 7 /\ nal + 2 < Len(data) THEN nal ELSE SpsFrom(data, nal)

findSPSInAnnexB(data) == IF Len(data) < 8 THEN Npos ELSE SpsFrom(data, 0)

\* Seeded bug: the bytes of the header and the profile are changed.
fixProfileBefore(data, at) ==
    IF At(data, at) \in validProfiles THEN data ELSE [data EXCEPT ![at] = 66, ![at + 1] = 192]

\* The profile at position at and the constraints after it.
fixH264ProfileCommon(data, at) ==
    IF At(data, at) \in validProfiles THEN data ELSE [data EXCEPT ![at + 1] = 66, ![at + 2] = 192]

fixAnnexBSPSProfileInPacket(data) ==
    LET sps == findSPSInAnnexB(data)
    IN  IF sps = Npos THEN data ELSE fixH264ProfileCommon(data, sps + 1)

\* The same for the extradata, which may be an AVCC configuration.
fixH264ProfileIfNeeded(data) ==
    IF Len(data) < 8 THEN data
    ELSE IF At(data, 0) = 1 THEN fixH264ProfileCommon(data, 1)
    ELSE fixAnnexBSPSProfileInPacket(data)
-----------------------------------------------------------------------------
(* What the standards say, for comparison.                                 *)

\* Annex B: a start code prefix at p; a unit begins after it and ends at the
\* next prefix, without the zero byte that may stand before that one.
Prefixes(data) == {p \in 0 .. Len(data) - 3 : From(data, p, p + 3) = <<0, 0, 1>>}

UnitAt(data, p) ==
    LET q == Min({n \in Prefixes(data) : n > p})
    IN  From(data, p + 3, IF q > p + 3 /\ At(data, q - 1) = 0 THEN q - 1 ELSE q)

\* The units that another one follows, in order, the empty ones left out.
RECURSIVE UnitsOf(_, _)
UnitsOf(data, prefixes) ==
    IF prefixes = {} \/ prefixes = {Max(Prefixes(data))} THEN <<>>
    ELSE LET p == Min(prefixes)
         IN  (IF UnitAt(data, p) = <<>> THEN <<>> ELSE <<UnitAt(data, p)>>) \o UnitsOf(data, prefixes \ {p})

\* A byte of at most 3 after two zero bytes is preceded by a 3; so is the end.
RECURSIVE Escape(_, _)
Escape(rbsp, zeros) ==
    IF rbsp = <<>> THEN IF zeros = 2 THEN <<3>> ELSE <<>>
    ELSE LET b == Head(rbsp)
         IN  IF zeros = 2 /\ b <= 3 THEN <<3>> \o Escape(rbsp, 0)
             ELSE <<b>> \o Escape(Tail(rbsp), IF b = 0 THEN zeros + 1 ELSE 0)

NumberOf(n) == [i \in 1 .. n \div 255 + 1 |-> IF i <= n \div 255 THEN 255 ELSE n % 255]

Message(type, payload) == NumberOf(type) \o NumberOf(Len(payload)) \o payload
LengthField(n) == <<0, 0, n \div 256, n % 256>>

\* The input and the ways to make it longer or to cut it in two.
Padded(n) == bytes \o [i \in 1 .. n |-> 9]
Cuts == {<<SubSeq(bytes, 1, i), SubSeq(bytes, i + 1, Len(bytes))>> : i \in 0 .. Len(bytes)}
-----------------------------------------------------------------------------
\* splitAnnexBNalus returns exactly the units that another start code follows,
\* whatever mixture of long and short start codes and zero bytes there is.
UnitsFound ==
    \A before \in {<<>>, <<0, 0, 1>>}, after \in {<<>>, <<0, 0, 1, 9>>} :
        LET data == before \o bytes \o after
        IN  splitAnnexBNalus(data) = UnitsOf(data, Prefixes(data))

\* splitAvccNalus undoes the framing with lengths, also when the last unit is
\* cut off.
FramingUndone ==
    \A c \in Cuts, n \in Paddings :
        LET last == c[2] \o [i \in 1 .. n |-> 9]
            framed == LengthField(Len(c[1])) \o c[1] \o LengthField(Len(last)) \o last
        IN  /\ splitAvccNalus(framed) = <<c[1], last>>
            /\ last # <<>> => splitAvccNalus(SubSeq(framed, 1, Len(framed) - 1)) = <<c[1]>>

\* removeEPB undoes the escaping of an encoder.
EscapeUndone == removeEPB(Escape(bytes, 0)) = bytes

\* The parser undoes both encodings of a unit: its framing with a length, whose
\* end may be cut off, and the escaping inside it.
EncodingUndone == FramingUndone /\ EscapeUndone

\* parseSEIFromPacket finds the user data of a packet with a unit of two SEI
\* messages and another unit after it, in both framings and for both codecs;
\* a type of 255 or more takes several bytes.
UserDataFound ==
    \A n \in Paddings, type \in {1, 5, 260}, hevc \in BOOLEAN :
        LET header == IF hevc THEN <<78, 1>> ELSE <<6>>
            rbsp == Message(type, bytes) \o Message(5, Padded(n)) \o <<128>>
            sei == header \o Escape(rbsp, 0)
            other == IF hevc THEN <<2, 1>> ELSE <<65>>
            expected == userData(type, bytes) \o userData(5, Padded(n))
        IN  /\ parseSEIFromPacket(<<0, 0, 0, 1>> \o sei \o <<0, 0, 1>> \o other, hevc) = expected
            /\ parseSEIFromPacket(LengthField(Len(sei)) \o sei \o LengthField(Len(other)) \o other, hevc)
                    = expected

\* After fixAnnexBSPSProfileInPacket and fixH264ProfileIfNeeded the first SPS
\* has a valid profile, no other byte has changed than the profile and the
\* constraints after it, and doing it again changes nothing.
ProfileRepaired ==
    \A n \in Paddings :
        LET data == Padded(n)
            spss == {p \in Prefixes(data) : p + 5 < Len(data) /\ At(data, p + 3) % 32 = 7}
            fixed == fixAnnexBSPSProfileInPacket(data)
            extra == fixH264ProfileIfNeeded(data)
        IN  Len(data) >= 8 =>
            /\ IF spss = {} THEN fixed = data
               ELSE /\ At(fixed, Min(spss) + 4) \in validProfiles
                    /\ \A i \in 1 .. Len(data) : fixed[i] # data[i] => i - 1 \in {Min(spss) + 4, Min(spss) + 5}
            /\ fixAnnexBSPSProfileInPacket(fixed) = fixed
            /\ extra # fixed => data[1] = 1 /\ extra[2] \in validProfiles
=============================================================================
