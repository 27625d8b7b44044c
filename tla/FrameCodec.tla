----------------------------- MODULE FrameCodec -----------------------------
(***************************************************************************)
(* The characters of a frame: how both clients encode a request, how they  *)
(* decode a reply, and what damage on the line a checksum and a length let *)
(* through (encode_command, parse_response_frame in protocol.rs;           *)
(* _encode_cmd, _decode_hw_frame and _decode_frame in transport.py).       *)
(* Modules encode their replies as the Rust adapter encodes its requests.  *)
(*                                                                         *)
(* FrameReader takes for granted that a line is decoded to what was sent   *)
(* or not at all.  Here one character of a frame is changed, dropped or    *)
(* inserted, and the line is decoded character by character.  Characters   *)
(* are their ASCII codes.                                                  *)
(***************************************************************************)
EXTENDS Integers, FiniteSets, SequencesExt

CONSTANTS
    Frames,     \* the frames of the modules
    Followers,  \* those that may come behind another
    Noise,      \* the characters the line may make of another, or add
    MaxDamaged, \* bound: longer frames are not damaged
    Rejected,   \* the result of a line that is no frame
    Unclear     \* and of one that is left open

Byte == 0..255

\* The hex digits of the info are at most 0xFFF.
ASSUME FramesAssumption ==
    /\ \A f \in Frames : /\ f \in [address : Byte, cid2 : Byte, info : Seq(Byte)]
                         /\ Len(f.info) <= 2047
    /\ Followers \subseteq Frames /\ Noise \subseteq Byte

VARIABLES
    sent,    \* the frame that is read
    behind,  \* the frame behind it
    line,    \* the characters of both on the wire
    fault    \* "none", or what has happened to the first

codecVars == <<sent, behind, line, fault>>

Start == 126 \* '~'
End == 13    \* the carriage return
Version == 32
Group == 70
-----------------------------------------------------------------------------
(* Encoding.                                                               *)

HexDigit(d) == IF d < 10 THEN 48 + d ELSE 55 + d
Hex2(b) == <<HexDigit(b \div 16), HexDigit(b % 16)>>
Hex4(w) == Hex2(w \div 256) \o Hex2(w % 256)
HexOf(bytes) ==
    [k \in 1..2 * Len(bytes) |-> Hex2(bytes[(k + 1) \div 2])[IF k % 2 = 1 THEN 1 ELSE 2]]

\* The sum of the hex digits of a length below 2^12
DigitSum(n) == (n % 16) + ((n \div 16) % 16) + ((n \div 256) % 16)

\* encode_info_length: the shift drops what does not fit into 16 bits.
LengthField(n) ==
    IF n = 0 THEN 0 ELSE (((16 - (DigitSum(n) % 16)) * 4096) % 65536) + n

\* The sum of the codes: each character makes as many pairs as its code says.
Sum(chars) == Cardinality(UNION {{k} \X (1..chars[k]) : k \in DOMAIN chars})

\* Mutant: the sum without the conversion to u16 at the end.
ChecksumWide(chars) == 65535 - (Sum(chars) % 65536) + 1

\* frame_checksum: the two's complement of the sum, as u16
Checksum(chars) == (65535 - (Sum(chars) % 65536) + 1) % 65536

Header(f, length) ==
    Hex2(Version) \o Hex2(f.address) \o Hex2(Group) \o Hex2(f.cid2) \o Hex4(length)

\* encode_command
Encode(f) ==
    LET info == HexOf(f.info)
        body == Header(f, LengthField(Len(info))) \o info
    IN  <<Start>> \o body \o Hex4(Checksum(body)) \o <<End>>

\* Formatting with {:04X}, which takes a fifth digit for 2^16 and above
PythonHex4(w) == IF w < 65536 THEN Hex4(w) ELSE <<HexDigit(w \div 65536)>> \o Hex4(w % 65536)

\* get_info_length and get_frame_checksum do not wrap.
PythonLengthField(n) == IF n = 0 THEN 0 ELSE (16 - (DigitSum(n) % 16)) * 4096 + n

PythonChecksum(chars) == 65535 - (Sum(chars) % 65536) + 1

\* _encode_cmd
PythonEncode(f) ==
    LET info == HexOf(f.info)
        length == PythonHex4(PythonLengthField(Len(info)))
        body == SubSeq(Header(f, 0), 1, 8) \o length \o info
    IN  <<Start>> \o body \o PythonHex4(PythonChecksum(body)) \o <<End>>
-----------------------------------------------------------------------------
(* Decoding.                                                               *)

IsHex(c) == c \in 48..57 \/ c \in 65..70 \/ c \in 97..102

HexValue(c) ==
    CASE c \in 48..57 -> c - 48
      [] c \in 65..70 -> c - 55
      [] c \in 97..102 -> c - 87

\* from_str_radix takes a plus sign in front of the digits.
Digits(chars) == IF Head(chars) = 43 THEN Tail(chars) ELSE chars

IsNumber(chars) == \A k \in DOMAIN Digits(chars) : IsHex(Digits(chars)[k])

\* The digit that is k places from the end of the digits of chars
Digit(chars, k) ==
    LET digits == Digits(chars)
    IN  IF k < Len(digits) THEN HexValue(digits[Len(digits) - k]) ELSE 0

\* All fields have two or four characters.
Number(chars) ==
    Digit(chars, 0) + 16 * Digit(chars, 1) + 256 * Digit(chars, 2) + 4096 * Digit(chars, 3)

\* hex::decode
IsHexString(chars) == Len(chars) % 2 = 0 /\ \A k \in DOMAIN chars : IsHex(chars[k])

Bytes(chars) ==
    [k \in 1..Len(chars) \div 2 |-> 16 * HexValue(chars[2 * k - 1]) + HexValue(chars[2 * k])]

\* Mutant: the length is not compared with the number of characters.
ValidLengthUnchecked(field, actual) == TRUE

\* validate_info_length
ValidLength(field, actual) ==
    /\ field % 4096 = actual
    /\ actual # 0 => field = LengthField(actual)

\* The characters that the checksum covers, and the checksum
Covered(raw) == SubSeq(raw, 2, Len(raw) - 5)
Trailer(raw) == SubSeq(raw, Len(raw) - 4, Len(raw) - 1)

\* parse_response_frame up to the comparison of the checksums
IsIntact(raw) ==
    /\ Len(raw) >= 18 /\ raw[1] = Start /\ raw[Len(raw)] = End
    /\ IsNumber(Trailer(raw)) /\ Number(Trailer(raw)) = Checksum(Covered(raw))

\* and the rest of it; data is the covered part
Accepts(data) ==
    LET field(a, b) == SubSeq(data, a, b)
        info == SubSeq(data, 13, Len(data))
    IN  /\ IsNumber(field(1, 2)) /\ Number(field(1, 2)) = Version
        /\ IsNumber(field(3, 4))
        /\ IsNumber(field(5, 6)) /\ Number(field(5, 6)) = Group
        /\ IsNumber(field(7, 8)) /\ IsNumber(field(9, 12))
        /\ ValidLength(Number(field(9, 12)), Len(info))
        /\ IsHexString(info)

Content(data) ==
    [address |-> Number(SubSeq(data, 3, 4)), cid2 |-> Number(SubSeq(data, 7, 8)),
     info |-> Bytes(SubSeq(data, 13, Len(data)))]

Decode(raw) ==
    IF IsIntact(raw) /\ Accepts(Covered(raw)) THEN Content(Covered(raw)) ELSE Rejected

\* What bytes.fromhex skips
Blanks == {9, 10, 11, 12, 13, 32}

\* fromhex makes something of data, but not of every character in it.
IsLoose(data) ==
    /\ \A k \in DOMAIN data : IsHex(data[k]) \/ data[k] \in Blanks
    /\ \E k \in DOMAIN data : data[k] \in Blanks

\* _decode_frame: the version, the group and the length are not looked at.
PythonContent(data) ==
    IF IsHexString(data) THEN Content(data)
    ELSE IF IsLoose(data) THEN Unclear ELSE Rejected

\* Mutant: the start character is taken for a part of the data.
PythonDecodeShifted(raw) ==
    LET data == SubSeq(raw, 1, Len(raw) - 5)
        content == PythonContent(data)
    IN  IF Len(raw) < 18 THEN {Rejected}
        ELSE IF ~IsNumber(Trailer(raw)) THEN {content, Rejected}
        ELSE {IF Number(Trailer(raw)) = PythonChecksum(data) THEN content ELSE Rejected}

\* What _decode_hw_frame may return.  The first character is not looked at,
\* nor is the last.  int() takes a few more texts for numbers than IsNumber
\* does: whether such a checksum is right is left open.
PythonDecode(raw) ==
    LET data == Covered(raw)
        content == PythonContent(data)
    IN  IF Len(raw) < 18 THEN {Rejected}
        ELSE IF ~IsNumber(Trailer(raw)) THEN {content, Rejected}
        ELSE {IF Number(Trailer(raw)) = PythonChecksum(data) THEN content ELSE Rejected}
-----------------------------------------------------------------------------
(* The line.                                                               *)

\* The characters up to the first carriage return, none if there is none
UpToEnd(s) == SubSeq(s, 1, SelectInSeq(s, LAMBDA c : c = End))

\* read_raw_frame begins at the first start character, readln does not.
Raw(s) ==
    LET k == SelectInSeq(s, LAMBDA c : c = Start)
    IN  IF k = 0 THEN <<>> ELSE UpToEnd(SubSeq(s, k, Len(s)))

CodecInit ==
    /\ sent \in Frames /\ behind \in Followers
    /\ line = Encode(sent) \o Encode(behind)
    /\ fault = "none"

\* The positions of the frame on the line that may be damaged
Place ==
    LET n == Len(Encode(sent))
    IN  IF fault = "none" /\ n <= MaxDamaged THEN 1..n ELSE {}

Change ==
    \E k \in Place, c \in Noise :
        /\ c # line[k]
        /\ line' = [line EXCEPT ![k] = c]
        /\ fault' = IF c = End THEN "end" ELSE "change"
        /\ UNCHANGED <<sent, behind>>

Lose ==
    \E k \in Place :
        /\ line' = RemoveAt(line, k)
        /\ fault' = "loss"
        /\ UNCHANGED <<sent, behind>>

Add ==
    \E k \in Place, c \in Noise :
        /\ line' = InsertAt(line, k, c)
        /\ fault' = IF c = End THEN "end" ELSE "addition"
        /\ UNCHANGED <<sent, behind>>

CodecNext == Change \/ Lose \/ Add

CodecSpec == CodecInit /\ [][CodecNext]_codecVars
-----------------------------------------------------------------------------
(* A frame that arrives as it was sent is decoded to what it says, also    *)
(* when its digits or its characters add up to a multiple of what the      *)
(* field of the sum can hold.                                              *)
RoundTrip == fault = "none" => Decode(Raw(line)) = sent

(* No single fault makes another frame of the line: it is decoded to what  *)
(* was sent, or to the frame behind it when its beginning is lost, or not  *)
(* at all.  A frame whose end is lost is read together with the next one   *)
(* and rejected with it (parse_response_frame).                            *)
DamageNoticed == Decode(Raw(line)) \in {sent, behind, Rejected}

\* The Python transport has only the checksum to go by.  It decodes what is
\* intact but for frames whose sum is a multiple of 2^16, and notices a
\* single fault unless that makes a carriage return: what is in front of it
\* may happen to end with its own checksum.
PythonDecodesSame ==
    LET raw == UpToEnd(line)
        wraps == Checksum(Covered(raw)) = 0
    IN  CASE fault = "none" -> PythonDecode(raw) = {IF wraps THEN Rejected ELSE sent}
          [] fault = "end" -> TRUE
          [] OTHER -> PythonDecode(raw) \subseteq {sent, Rejected}

\* A request carries at most one byte.
PythonEncodesSame == Len(sent.info) <= 1 => PythonEncode(sent) = Encode(sent)

(* Modules and lines are the same to both programs: they send the same     *)
(* characters for a request, and read the same replies except those whose  *)
(* checksum is 0, which Python never accepts.  Damage is noticed by both   *)
(* unless it cuts a frame off, which Rust sees by the length (_encode_cmd  *)
(* and encode_command, _decode_hw_frame and parse_response_frame).         *)
PythonAgrees == PythonDecodesSame /\ PythonEncodesSame
=============================================================================
