----------------------------- MODULE Transport ------------------------------
(***************************************************************************)
(* The bytes of a TCP connection: how DetectTransport recognises which of  *)
(* four framings the client speaks, plain or obfuscated, and how the       *)
(* codecs frame payloads and take them apart, in both directions.          *)
(*                                                                         *)
(* Lengths and headers are digits of base Base (256 in the code): the      *)
(* markers 0xef, 0xee, 0xdd and 0x7f become Base - 1, Base - 2, Base - 3    *)
(* and Base / 2 - 1, which keeps their remainders modulo 4.  A read blocks *)
(* until its bytes are there, so a frame is read in one step.              *)
(***************************************************************************)
EXTENDS Integers, Sequences, SequencesExt

CONSTANTS
    Base,             \* values of a byte
    kMaxMessageSize,
    KeyLen,           \* key and iv bytes of an obfuscated2 init (48)
    Sizes,            \* payload lengths
    LastBytes,        \* last bytes of payloads
    MaxWrites,        \* bound on the frames of a direction
    Losses,           \* how many bytes may be lost when the client goes
    NoCodec

U32Range == Base * Base * Base * Base

(* kMaxMessageSize is 1 << 24.  Full numbers its frames with an int32.  A  *)
(* length whose first byte in a Full frame is 0xef would be taken for the  *)
(* start of Abridged; MTProto's lengths are multiples of four, 0xef is not.*)
ASSUME TransportConstants ==
    /\ Base \in Nat /\ Base >= 8
    /\ kMaxMessageSize \in Nat /\ kMaxMessageSize <= Base * Base * Base
    /\ KeyLen \in Nat
    /\ MaxWrites \in Nat /\ MaxWrites <= U32Range \div 2
    /\ Sizes \subseteq Nat /\ Losses \subseteq Nat /\ LastBytes \subseteq 0 .. Base - 1
    /\ \A n \in Sizes : (4 + 4 + n + 4) % Base # Base - 1

Ends == {"client", "server"}

Peer(e) == IF e = "client" THEN "server" ELSE "client"

Codecs == {"abridged", "intermediate", "padded", "full"}

ASSUME NoCodecIsNone == NoCodec \notin Codecs

VARIABLES
    wire,   \* bytes that an end has written and the other has not read
    end,    \* codec, cipher positions and sequence numbers of an end
    sent,   \* history: payloads written by an end
    got     \* payloads read by an end

transportVars == <<wire, end, sent, got>>

NewEnd == [codec |-> NoCodec, obfuscated |-> FALSE, write_seq_no |-> 0, read_seq_no |-> 0,
           write_pos |-> 0, read_pos |-> 0, why |-> ""]

TransportInit ==
    /\ wire = [e \in Ends |-> <<>>]
    /\ end = [e \in Ends |-> NewEnd]
    /\ sent = [e \in Ends |-> <<>>]
    /\ got = [e \in Ends |-> <<>>]

-----------------------------------------------------------------------------
(* Numbers, keystreams and checksums.                                      *)

High(n) == n \div Base  \* n >> 8

U32(n) == <<n % Base, High(n) % Base, High(High(n)) % Base, High(High(High(n))) % Base>>

FromU32(s) == s[1] + Base * (s[2] + Base * (s[3] + Base * s[4]))

(* The cast to int32_t.                                                    *)
Int32(n) == IF n < U32Range \div 2 THEN n ELSE n - U32Range

(* AES-CTR: the keystream of a direction depends on the position alone.    *)
Pad(e, pos) == (((pos * (pos + 1)) \div 2) + (IF e = "client" THEN 0 ELSE 1)) % Base

(* The keystream that encrypts what e writes, from position pos on.        *)
Encrypt(e, pos, s) == <<>> \o [i \in 1 .. Len(s) |-> (s[i] + Pad(e, pos + i)) % Base]

Decrypt(e, pos, s) == <<>> \o [i \in 1 .. Len(s) |-> (s[i] + Base - Pad(e, pos + i)) % Base]

(* Some function of the bytes it covers.                                   *)
Crc32(s) == U32(Len(s) + s[5] + Last(s))

-----------------------------------------------------------------------------
(* Codec::Write                                                            *)

AbridgedStart == Base - 1

Marker(codec) == CASE codec = "abridged"     -> AbridgedStart
                   [] codec = "intermediate" -> Base - 2
                   [] codec = "padded"       -> Base - 3

Tag(codec) == [i \in 1 .. 4 |-> Marker(codec)]

LongWords == (Base \div 2) - 1  \* 0x7f

(* A mutation: a length of exactly 0x7f words is still written as a byte.  *)
AbridgedHeader_OffByOne(n) ==
    LET words == n \div 4 IN
    IF words <= LongWords THEN <<words>>
    ELSE <<LongWords, words % Base, High(words) % Base, High(High(words)) % Base>>

AbridgedHeader(n) ==
    LET words == n \div 4 IN
    IF words < LongWords THEN <<words>>
    ELSE <<LongWords, words % Base, High(words) % Base, High(High(words)) % Base>>

(* CheckOutgoingMessage and CheckAlign: Write throws otherwise.            *)
Writable(codec, payload) ==
    /\ Len(payload) \in 1 .. kMaxMessageSize
    /\ codec = "full" \/ Len(payload) % 4 = 0

(* Padding takes as many random bytes as the payload's last byte says.     *)
Framed(codec, seq_no, payload) ==
    CASE codec = "abridged"     -> AbridgedHeader(Len(payload)) \o payload
      [] codec = "intermediate" -> U32(Len(payload)) \o payload
      [] codec = "padded"       ->
            LET pad == Last(payload) % 4
            IN  U32(Len(payload) + pad) \o payload \o [i \in 1 .. pad |-> i]
      [] codec = "full"         ->
            LET body == U32(4 + 4 + Len(payload) + 4) \o U32(seq_no) \o payload
            IN  body \o Crc32(body)

-----------------------------------------------------------------------------
(* Codec::Read                                                             *)

More == [status |-> "more"]
Invalid == [status |-> "invalid"]
Chunk(used, payload) == [status |-> "frame", used |-> used, payload |-> payload]

ValidLength(n) == n \in 1 .. kMaxMessageSize

(* Where the payload of an abridged frame begins, and its length; the high *)
(* bit of the first byte asks for a quick ack and is no part of it.        *)
AbridgedLength(s) ==
    LET words == s[1] % (Base \div 2)
        long  == s[2] + Base * (s[3] + Base * s[4])
    IN  IF words < LongWords THEN <<1, words * 4>>
        ELSE IF Len(s) < 4 THEN <<>>
        ELSE IF long < LongWords THEN <<4, 0>> ELSE <<4, long * 4>>

Body(s, from, n) == IF Len(s) < from + n THEN More
                    ELSE Chunk(from + n, SubSeq(s, from + 1, from + n))

(* A mutation: the padding is taken for a part of the payload.             *)
Trimmed_Not(chunk) == chunk

Trimmed(chunk) ==
    IF chunk.status # "frame" THEN chunk
    ELSE [chunk EXCEPT !.payload = SubSeq(@, 1, Len(@) - (Len(@) % 4))]

ReadFull(s, seq_no) ==
    LET n == FromU32(s) IN
    IF ~ValidLength(n) \/ n < 12 THEN Invalid
    ELSE IF Len(s) < n THEN More
    ELSE IF \/ Int32(FromU32(SubSeq(s, 5, 8))) # seq_no
            \/ SubSeq(s, n - 3, n) # Crc32(SubSeq(s, 1, n - 4))
    THEN Invalid
    ELSE Chunk(n, SubSeq(s, 9, n - 4))

ReadFrame(codec, seq_no, s) ==
    CASE codec = "abridged" ->
            IF s = <<>> \/ AbridgedLength(s) = <<>> THEN More
            ELSE IF ~ValidLength(AbridgedLength(s)[2]) THEN Invalid
            ELSE Body(s, AbridgedLength(s)[1], AbridgedLength(s)[2])
      [] codec # "abridged" /\ Len(s) < 4 -> More
      [] codec \in {"intermediate", "padded"} /\ Len(s) >= 4 ->
            IF ~ValidLength(FromU32(s)) THEN Invalid
            ELSE IF codec = "padded" THEN Trimmed(Body(s, 4, FromU32(s)))
            ELSE Body(s, 4, FromU32(s))
      [] codec = "full" /\ Len(s) >= 4 -> ReadFull(s, seq_no)

-----------------------------------------------------------------------------
(* DetectTransport                                                         *)

Reserved == {<<4, 3, 2, 1>>, <<5, 4, 3, 2>>}  \* "GET ", "POST" and others

InitLen == 8 + KeyLen + 8

Detected(codec, used, obfuscated) ==
    [status |-> "codec", codec |-> codec, used |-> used, obfuscated |-> obfuscated]

(* AcceptObfuscated2 decrypts the whole init to be in step afterwards.     *)
AcceptedPos == InitLen

AcceptedTag(init) == SubSeq(Decrypt("client", 0, init), 9 + KeyLen, 12 + KeyLen)

DetectTransport(s) ==
    IF s = <<>> THEN More
    ELSE IF s[1] = AbridgedStart THEN Detected("abridged", 1, FALSE)
    ELSE IF Len(s) < 4 THEN More
    ELSE LET first4 == SubSeq(s, 1, 4) IN
         IF first4 = Tag("intermediate") THEN Detected("intermediate", 4, FALSE)
         ELSE IF first4 = Tag("padded") THEN Detected("padded", 4, FALSE)
         ELSE IF first4 \in Reserved THEN Invalid
         ELSE IF Len(s) < 8 THEN More
         ELSE IF SubSeq(s, 5, 8) = U32(0) THEN Detected("full", 0, FALSE)  \* replayed
         ELSE IF Len(s) < InitLen THEN More
         ELSE LET tag == AcceptedTag(SubSeq(s, 1, InitLen)) IN
              IF \E codec \in Codecs \ {"full"} : tag = Tag(codec)
              THEN Detected(CHOOSE codec \in Codecs \ {"full"} : tag = Tag(codec), InitLen, TRUE)
              ELSE Invalid

-----------------------------------------------------------------------------
(* Steps.                                                                  *)

Fail(e, why) ==
    /\ end' = [end EXCEPT ![e].why = why]
    /\ UNCHANGED <<wire, sent, got>>

(* What follows the random start of an init: the tag and a dc, encrypted.  *)
ObfuscatedInit(codec) ==
    LET nonce == <<1, 2, 3, 4, 0, 0, 1, 0>>
        clear == nonce \o [i \in 1 .. KeyLen |-> i % Base]
    IN  clear \o Encrypt("client", Len(clear), Tag(codec) \o <<2, 0, 5, 5>>)

(* WriteHeader of the client; Full has none.                               *)
Start(codec, obfuscated) ==
    /\ end["client"].codec = NoCodec
    /\ obfuscated => codec # "full"
    /\ end' = [end EXCEPT !["client"].codec = codec, !["client"].obfuscated = obfuscated,
                          !["client"].write_pos = IF obfuscated THEN InitLen ELSE 0]
    /\ wire' = [wire EXCEPT !["client"] = IF obfuscated THEN ObfuscatedInit(codec)
                                          ELSE IF codec = "full" THEN <<>>
                                          ELSE IF codec = "abridged" THEN <<AbridgedStart>>
                                          ELSE Tag(codec)]
    /\ UNCHANGED <<sent, got>>

Running(e) == end[e].why = ""

Detect ==
    LET found == DetectTransport(wire["client"]) IN
    /\ end["server"].codec = NoCodec /\ Running("server")
    /\ \/ /\ found.status = "codec"
          /\ end' = [end EXCEPT !["server"].codec = found.codec,
                                !["server"].obfuscated = found.obfuscated,
                                !["server"].read_pos = IF found.obfuscated
                                                       THEN AcceptedPos ELSE 0]
          /\ wire' = [wire EXCEPT !["client"] = SubSeq(@, found.used + 1, Len(@))]
          /\ UNCHANGED <<sent, got>>
       \/ found.status = "invalid" /\ Fail("server", "invalid")
       \/ found.status = "more" /\ ~Running("client") /\ Fail("server", "closed")

(* Codec::Write through the connection's WriteBytes.                       *)
Write(e, payload) ==
    LET x == end[e]
        frame == Framed(x.codec, x.write_seq_no, payload)
    IN
    /\ x.codec # NoCodec /\ Running(e) /\ Running(Peer(e))
    /\ Len(sent[e]) < MaxWrites
    /\ Writable(x.codec, payload)
    /\ wire' = [wire EXCEPT ![e] = @ \o (IF x.obfuscated THEN Encrypt(e, x.write_pos, frame)
                                         ELSE frame)]
    /\ end' = [end EXCEPT ![e].write_seq_no = @ + 1, ![e].write_pos = @ + Len(frame)]
    /\ sent' = [sent EXCEPT ![e] = Append(@, payload)]
    /\ UNCHANGED got

(* What Read makes of the bytes that are there.                            *)
Incoming(e) ==
    LET x == end[e]
        from == Peer(e)
        bytes == IF x.obfuscated THEN Decrypt(from, x.read_pos, wire[from]) ELSE wire[from]
    IN  ReadFrame(x.codec, x.read_seq_no, bytes)

(* Codec::Read; four bytes are an error code, and thrown as one.           *)
Read(e) ==
    LET from == Peer(e)
        frame == Incoming(e)
    IN
    /\ end[e].codec # NoCodec /\ Running(e)
    /\ \/ /\ frame.status = "frame"
          /\ wire' = [wire EXCEPT ![from] = SubSeq(@, frame.used + 1, Len(@))]
          /\ end' = [end EXCEPT ![e].read_seq_no = @ + 1, ![e].read_pos = @ + frame.used,
                                ![e].why = IF Len(frame.payload) = 4 THEN "protocol" ELSE ""]
          /\ got' = IF Len(frame.payload) = 4 THEN got
                    ELSE [got EXCEPT ![e] = Append(@, frame.payload)]
          /\ UNCHANGED sent
       \/ frame.status = "invalid" /\ Fail(e, "invalid")
       \/ frame.status = "more" /\ ~Running(from) /\ Fail(e, "closed")

(* The client goes, and a tail of what it wrote does not arrive.           *)
HangUp ==
    /\ end["client"].codec # NoCodec /\ Running("client")
    /\ end' = [end EXCEPT !["client"].why = "closed"]
    /\ \E lost \in Losses :
        /\ lost <= Len(wire["client"])
        /\ wire' = [wire EXCEPT !["client"] = SubSeq(@, 1, Len(@) - lost)]
    /\ UNCHANGED <<sent, got>>

Payloads(e) == {<<>> \o [i \in 1 .. n |-> IF i = n THEN b ELSE Len(sent[e]) % Base] :
                    n \in Sizes, b \in LastBytes}

Stopped ==
    /\ \A e \in Ends : ~Running(e)
    /\ UNCHANGED transportVars

TransportNext ==
    \/ \E codec \in Codecs, obfuscated \in BOOLEAN : Start(codec, obfuscated)
    \/ Detect
    \/ \E e \in Ends : Read(e) \/ \E payload \in Payloads(e) : Write(e, payload)
    \/ HangUp
    \/ Stopped

TransportSpec == TransportInit /\ [][TransportNext]_transportVars

-----------------------------------------------------------------------------
(* Properties.                                                             *)

(* The server speaks what the client chose, and both ends read exactly the *)
(* payloads that were written, in order, also when the client goes in the  *)
(* middle of a frame: the bytes that detection consumed are replayed or    *)
(* dropped as the codec needs, the keystreams stay in step.                *)
FramesInOrder ==
    /\ end["server"].codec # NoCodec =>
        /\ end["server"].codec = end["client"].codec
        /\ end["server"].obfuscated = end["client"].obfuscated
    /\ \A e \in Ends : IsPrefix(got[e], sent[Peer(e)])

(* Read compares the limit with a length that Write has increased.         *)
TooLong(codec, payload) ==
    LET added == CASE codec = "full"   -> 12
                   [] codec = "padded" -> Last(payload) % 4
                   [] OTHER            -> 0
    IN  Len(payload) + added > kMaxMessageSize

(* What Write accepts, Read accepts: no length is refused, at the limits   *)
(* of a header's form neither, except within what Full and the padding add *)
(* of the largest one; only four bytes are taken for an error code; and    *)
(* nobody waits for bytes that a header announced and no one will send.    *)
WrittenIsReadable ==
    \A e \in Ends :
        LET next == sent[Peer(e)][Len(got[e]) + 1] IN
        /\ end[e].why = "invalid" => TooLong(end[e].codec, next)
        /\ end[e].why = "protocol" => Len(next) = 4
        /\ end[e].codec # NoCodec /\ Running(e) /\ Running(Peer(e)) =>
            (Incoming(e).status = "more" <=> Len(got[e]) = Len(sent[Peer(e)]))
=============================================================================
