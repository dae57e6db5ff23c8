--------------------------- MODULE FilenameCodec ---------------------------
(***************************************************************************)
(* File names on their way into the service: the browser encodes a name as *)
(* UTF-8 and base64url into a header, the server decodes it, and the name  *)
(* of a symbol file becomes a segment of the store path.                   *)
(*                                                                         *)
(* A name is a sequence of UTF-16 code units, a header a sequence of the   *)
(* 6-bit values of its base64url characters.  One scenario per behaviour:  *)
(* a name is sent, or bytes that no browser made arrive.                   *)
(***************************************************************************)
EXTENDS Integers, FiniteSets, SequencesExt

CONSTANTS
  Units,        \* code units of the names
  Bytes,        \* bytes of a header that did not come from the encoder
  MaxName,      \* MAX_UPLOAD_FILENAME_LENGTH, in code units
  MaxSegment,   \* SEGMENT_MAX_LENGTH, in code points
  MaxHeader,    \* MAX_DUMP_FILENAME_HEADER_LENGTH
  LongestName,  \* length of the names that are tried
  LongestBytes  \* length of the byte strings that are tried

\* What the constants are taken to be.
FilenameBounds ==
  /\ Units \subseteq 0..65535 /\ Bytes \subseteq 0..255
  /\ MaxName \in Nat /\ MaxSegment \in Nat /\ MaxHeader \in Nat /\ LongestName \in Nat /\ LongestBytes \in Nat

VARIABLES
  name,    \* the name of the file
  header,  \* the header as sent
  raw      \* bytes under test

filenameVars == <<name, header, raw>>

HighSurrogate == 55296..56319
LowSurrogate == 56320..57343
Surrogate == HighSurrogate \cup LowSurrogate
Replacement == 65533

-----------------------------------------------------------------------------
(* UTF-8.                                                                  *)

\* The code point that starts at unit i; a lone surrogate becomes U+FFFD.
PairAt(s, i) == i < Len(s) /\ s[i] \in HighSurrogate /\ s[i + 1] \in LowSurrogate
CodeAt(s, i) ==
  IF PairAt(s, i) THEN 65536 + (s[i] - 55296) * 1024 + (s[i + 1] - 56320)
  ELSE IF s[i] \in Surrogate THEN Replacement ELSE s[i]

Utf8(code) ==
  CASE code < 128 -> <<code>>
    [] code >= 128 /\ code < 2048 -> <<192 + (code \div 64), 128 + (code % 64)>>
    [] code >= 2048 /\ code < 65536 ->
         <<224 + (code \div 4096), 128 + ((code \div 64) % 64), 128 + (code % 64)>>
    [] OTHER ->
         <<240 + (code \div 262144), 128 + ((code \div 4096) % 64),
           128 + ((code \div 64) % 64), 128 + (code % 64)>>

Utf8Encode(s) ==
  FlattenSeq([i \in 1..Len(s) |->
    IF i > 1 /\ PairAt(s, i - 1) THEN <<>> ELSE Utf8(CodeAt(s, i))])

\* What the first byte of a sequence announces; extra 99 where it is invalid.
Lead(b) ==
  CASE b < 128 -> [bits |-> b, extra |-> 0, least |-> 0]
    [] b \in 194..223 -> [bits |-> b % 32, extra |-> 1, least |-> 128]
    [] b \in 224..239 -> [bits |-> b % 16, extra |-> 2, least |-> 2048]
    [] b \in 240..244 -> [bits |-> b % 8, extra |-> 3, least |-> 65536]
    [] OTHER -> [bits |-> 0, extra |-> 99, least |-> 0]

\* Code of the sequence at byte i, valid or not.
CodeOf(b, i) ==
  LET l == Lead(b[i]) IN
  FoldLeft(LAMBDA code, c : code * 64 + (c % 64), l.bits, SubSeq(b, i + 1, i + l.extra))

SequenceOK(b, i) ==
  LET l == Lead(b[i]) IN
  /\ i + l.extra <= Len(b)
  /\ \A j \in (i + 1)..(i + l.extra) : b[j] \div 64 = 2
  /\ CodeOf(b, i) >= l.least /\ CodeOf(b, i) <= 1114111 /\ CodeOf(b, i) \notin Surrogate

UnitsOf(code) ==
  IF code > 65535 THEN <<55296 + ((code - 65536) \div 1024), 56320 + ((code - 65536) % 1024)>>
                  ELSE <<code>>

Malformed == <<-1>>

\* Strict decoding from byte i on.
Utf8Decode(b) ==
  LET from[i \in 1..(Len(b) + 1)] ==
        IF i = Len(b) + 1 THEN <<>>
        ELSE IF ~SequenceOK(b, i) THEN Malformed
        ELSE LET rest == from[i + Lead(b[i]).extra + 1]
             IN  IF rest = Malformed THEN Malformed ELSE UnitsOf(CodeOf(b, i)) \o rest
  IN  from[1]

-----------------------------------------------------------------------------
(* base64url, without padding.                                             *)

ByteAt(b, i) == IF i <= Len(b) THEN b[i] ELSE 0

BytesToBase64Url(b) ==
  FlattenSeq([k \in 1..((Len(b) + 2) \div 3) |->
    LET at == 3 * k - 2
        group == ByteAt(b, at) * 65536 + ByteAt(b, at + 1) * 256 + ByteAt(b, at + 2)
        all == <<group \div 262144, (group \div 4096) % 64, (group \div 64) % 64, group % 64>>
    IN  SubSeq(all, 1, 1 + (IF at + 2 <= Len(b) THEN 3 ELSE Len(b) - at + 1))])

Base64UrlToBytes(h) ==
  FlattenSeq([k \in 1..((Len(h) + 3) \div 4) |->
    LET at == 4 * k - 3
        group == ByteAt(h, at) * 262144 + ByteAt(h, at + 1) * 4096
                   + ByteAt(h, at + 2) * 64 + ByteAt(h, at + 3)
        all == <<group \div 65536, (group \div 256) % 256, group % 256>>
    IN  SubSeq(all, 1, IF at + 3 <= Len(h) THEN 3 ELSE Len(h) - at)])

-----------------------------------------------------------------------------
(* The header.                                                             *)

Slash == 47
Backslash == 92
Dot == 46
Control(u) == u < 32 \/ u = 127

IsSafeUploadFilename(s) ==
  /\ Len(s) > 0 /\ Len(s) <= MaxName
  /\ \A i \in 1..Len(s) : ~Control(s[i]) /\ s[i] \notin {Slash, Backslash}

EncodeFilenameBase64url(s) == BytesToBase64Url(Utf8Encode(s))

HeaderOK(h) == Len(h) > 0 /\ Len(h) <= MaxHeader

DecodeFilenameBase64url(h) ==
  IF ~HeaderOK(h) \/ Len(h) % 4 = 1 THEN Malformed
  ELSE LET s == Utf8Decode(Base64UrlToBytes(h))
       IN  IF s # Malformed /\ IsSafeUploadFilename(s) THEN s ELSE Malformed

-----------------------------------------------------------------------------
(* The name of a symbol file as a segment of the store path.               *)

\* Code points, as [...value].length counts them.
CodePoints(s) == Cardinality({i \in 1..Len(s) : i = 1 \/ ~PairAt(s, i - 1)})

\* storeSegmentProblem, asked when a symbol is ingested.
StoreSegment(s) ==
  /\ Len(s) > 0 /\ CodePoints(s) <= MaxSegment
  /\ \A i \in 1..Len(s) : ~Control(s[i]) /\ s[i] \notin {Slash, Backslash}
  /\ \A i \in 1..(Len(s) - 1) : ~(s[i] = Dot /\ s[i + 1] = Dot)
  /\ s[1] # Dot /\ s[Len(s)] # Dot

\* isBasenameSegment, asked again on each fetch.
IsBasenameSegment(s) ==
  LET chars == ToSet(s) IN
  /\ s # <<>> /\ CodePoints(s) <= MaxSegment
  /\ {Slash, Backslash} \cap chars = {}
  /\ ~\E i \in DOMAIN s : i + 1 \in DOMAIN s /\ SubSeq(s, i, i + 1) = <<Dot, Dot>>
  /\ Head(s) # Dot /\ Last(s) # Dot
  /\ \A u \in chars : ~Control(u)

\* fileNameFromPath: the last segment of a path that is not empty.
FileNameFromPath(s) ==
  LET sep == {i \in 1..Len(s) : s[i] \in {Slash, Backslash}}
      kept == {i \in 1..Len(s) : i \notin sep}
      end == CHOOSE i \in kept : \A j \in kept : j <= i
      start == CHOOSE i \in kept : i <= end /\ (i..end) \cap sep = {} /\ (i = 1 \/ i - 1 \in sep)
  IN  IF kept = {} THEN <<>> ELSE SubSeq(s, start, end)

-----------------------------------------------------------------------------

FilenameInit == name = <<>> /\ header = <<>> /\ raw = <<>>

SendName ==
  /\ name = <<>> /\ raw = <<>>
  /\ \E n \in 1..LongestName : name' \in [1..n -> Units]
  /\ header' = EncodeFilenameBase64url(name')
  /\ UNCHANGED raw

SendBytes ==
  /\ name = <<>> /\ raw = <<>>
  /\ \E n \in 1..LongestBytes : raw' \in [1..n -> Bytes]
  /\ header' = BytesToBase64Url(raw')
  /\ UNCHANGED name

FilenameNext == SendName \/ SendBytes
FilenameSpec == FilenameInit /\ [][FilenameNext]_filenameVars

WellFormed(s) ==
  \A i \in 1..Len(s) :
    s[i] \in Surrogate => PairAt(s, i) \/ (i > 1 /\ PairAt(s, i - 1))

\* A name of the greatest length the server takes still fits the header, and
\* a well-formed name that is safe to store arrives as it was sent
\* (encodeFilenameBase64url, decodeFilenameBase64url).
NamesArrive ==
  name # <<>> /\ IsSafeUploadFilename(name) /\ WellFormed(name) =>
    DecodeFilenameBase64url(header) = name

\* Two byte strings are never one name: what the strict decoder accepts is the
\* encoder's own output, so no overlong form and no encoded surrogate passes.
DecodingIsStrict ==
  raw # <<>> /\ Utf8Decode(raw) # Malformed => Utf8Encode(Utf8Decode(raw)) = raw

\* A symbol file that ingest takes under its name can be fetched by that name,
\* and the name of a path it was linked under, taken apart by the parser, never
\* keeps a separator.
IngestedIsServable ==
  /\ StoreSegment(name) => IsBasenameSegment(name)
  /\ name # <<>> => \A u \in ToSet(FileNameFromPath(name)) : u \notin {Slash, Backslash}

\* The encoder's comment promises that any string round-trips; restricted here
\* to the names the server calls safe.
AnyNameArrives ==
  name # <<>> /\ IsSafeUploadFilename(name) => DecodeFilenameBase64url(header) = name

\* A name survives its header and the store (uploads.ts, symbol-routes.ts).
NamesSurvive == NamesArrive /\ DecodingIsStrict /\ IngestedIsServable
=============================================================================
