------------------------------- MODULE Codec -------------------------------
(***************************************************************************)
(* The COS SDK's paths, URLs, encodings and digests, and the guess whether *)
(* a command argument is UTF-8 or GBK (encode.cpp).  Strings are sequences *)
(* of bytes.  Pure functions.                                              *)
(***************************************************************************)
EXTENDS Integers, Sequences, SequencesExt, FiniteSetsExt

CONSTANTS
  FileIdSize,       \* 2048: the buffer of the path that is signed (Auth.cpp)
  SHA_BLOCKSIZE,    \* 64 in Sha1.h
  LengthBytes       \* 8: the bytes of the bit count at the end of a message

ASSUME CodecAssumption == FileIdSize \in Nat \ {0} /\ SHA_BLOCKSIZE \in Nat /\ LengthBytes \in 1 .. SHA_BLOCKSIZE - 1

Slash == 47
Space == 32
Percent == 37
\* / ? * : | \ < > and the double quote.
Reserved == {47, 63, 42, 58, 124, 92, 60, 62, 34}
isalnum_(b) == b \in (48 .. 57) \cup (65 .. 90) \cup (97 .. 122)

-----------------------------------------------------------------------------
(* FileUtil: paths.                                                        *)

\* FormatPath: one slash first and one for every run of slashes.
FormatPath(path) ==
  IF path = <<>> THEN path
  ELSE <<Slash>> \o FoldLeft(LAMBDA acc, b : IF b = Slash /\ (acc = <<>> \/ acc[Len(acc)] = Slash)
                                               THEN acc ELSE Append(acc, b),
                             <<>>, path)

EndsInSlash(path) == path # <<>> /\ path[Len(path)] = Slash
FormatFolderPath(path) == FormatPath(IF path = <<>> \/ EndsInSlash(path) THEN path ELSE Append(path, Slash))
FormatFilePath(path) == FormatPath(IF EndsInSlash(path) THEN SubSeq(path, 1, Len(path) - 1) ELSE path)

IsLegalFilePath(path) == path # <<>> /\ path[1] = Slash /\ ~EndsInSlash(path)
isValidFolderName(name) ==
  /\ name # <<>> /\ \E i \in 1 .. Len(name) : name[i] # Space
  /\ \A i \in 1 .. Len(name) : name[i] \notin Reserved

\* The parts between slashes, the empty ones included.
Parts(path) ==
  LET cuts == SelectSeq([i \in 1 .. Len(path) + 2 |-> i - 1],
                        LAMBDA i : i = 0 \/ i = Len(path) + 1 \/ path[i] = Slash)
  IN [k \in 1 .. Len(cuts) - 1 |-> SubSeq(path, cuts[k] + 1, cuts[k + 1] - 1)]
\* isLegalFolderPath: slashes at both ends and a valid name between any two.
isLegalFolderPath(path) ==
  /\ path # <<>> /\ path[1] = Slash /\ EndsInSlash(path)
  /\ LET parts == Parts(path) IN \A k \in 2 .. Len(parts) - 1 : isValidFolderName(parts[k])

-----------------------------------------------------------------------------
(* CodecUtil and HttpUtil: URLs.                                           *)

ToHex(x) == IF x > 9 THEN x - 10 + 65 ELSE x + 48
\* Letters, digits and - _ . ~ /
Unreserved(b) == isalnum_(b) \/ b \in {45, 95, 46, 126, Slash}
UrlEncode(str) ==
  FlattenSeq([i \in 1 .. Len(str) |->
                IF Unreserved(str[i]) THEN <<str[i]>>
                ELSE <<Percent, ToHex(str[i] \div 16), ToHex(str[i] % 16)>>])

Nonempty(parts) == SelectSeq(parts, LAMBDA p : p # <<>>)
\* FileUtil::EncodePath: the parts that are not empty, encoded; a leading
\* slash only when the path has none, a last one only when the path has one.
EncodePath(path) ==
  LET names == Nonempty(Parts(path))
      whole == FlattenSeq([k \in 1 .. Len(names) |-> Append(UrlEncode(names[k]), Slash)])
      full == (IF path[1] = Slash THEN <<>> ELSE <<Slash>>) \o whole
  IN IF path = <<>> THEN <<>>
     ELSE IF EndsInSlash(path) THEN full ELSE SubSeq(full, 1, Len(full) - 1)

\* GetEncodedCosUrl, of the uploads, stat, delete and list requests, and
\* GetEncodedDownloadCosUrl: appid and domain are one byte each here.
GetEncodedCosUrl(endpoint, appid, bucket, path) ==
  endpoint \o EncodePath(<<Slash, appid, Slash>> \o bucket \o <<Slash>> \o path)
GetEncodedDownloadCosUrl(appid, bucket, path, domain, sign) ==
  <<Slash>> \o EncodePath(bucket \o <<45, appid, 46, domain, Slash>> \o path) \o <<63>> \o sign
\* StringUtil::Trim.
Trim(s) ==
  LET solid == {i \in 1 .. Len(s) : s[i] # Space}
  IN IF solid = {} THEN <<>> ELSE SubSeq(s, Min(solid), Max(solid))

\* get_cos_path_from_disk_path of cosswitch.cpp: cwd is without a last slash.
get_cos_path_from_disk_path(cwd, name) ==
  (IF name = <<>> \/ name[1] # Slash THEN Append(cwd, Slash) ELSE <<>>) \o name

\* FileUploadReq: the path as it is, and refused unless legal.
UploadUrl(endpoint, appid, bucket, path) == GetEncodedCosUrl(endpoint, appid, bucket, path)
\* FileStatReq: no path is refused (isLegalFilePath is ReqBase's), a last
\* slash goes.
StatUrl(endpoint, appid, bucket, path) == GetEncodedCosUrl(endpoint, appid, bucket, FormatFilePath(path))
\* FileDeleteReq: the path as it is, whatever it ends in.
DeleteUrl(endpoint, appid, bucket, path) == GetEncodedCosUrl(endpoint, appid, bucket, path)
\* What AppSignOnce signs for a delete: f=/appid/bucket/path, cut by snprintf.
SignedFile(appid, bucket, path) ==
  LET file_id == <<Slash, appid, Slash>> \o bucket \o <<Slash>> \o EncodePath(FormatPath(path))
  IN SubSeq(file_id, 1, Min({Len(file_id), FileIdSize - 1}))
\* FileDownloadReq: blanks at the ends of the path go.
DownloadUrl(appid, bucket, path, domain, sign) == GetEncodedDownloadCosUrl(appid, bucket, Trim(path), domain, sign)
\* The folder requests, refused unless the path is legal; cosswitch.cpp gives
\* the path a last slash first.
FolderPath(path) == IF EndsInSlash(path) THEN path ELSE Append(path, Slash)
FolderCreateUrl(endpoint, appid, bucket, path) == GetEncodedCosUrl(endpoint, appid, bucket, FormatFolderPath(path))
FolderListUrl(endpoint, appid, bucket, path) == GetEncodedCosUrl(endpoint, appid, bucket, path)

-----------------------------------------------------------------------------
(* CodecUtil::Base64Encode, used for signatures: six bits at a time.       *)

Pad == 64
LeftOver(acc, bits) == (acc * 2 ^ (6 - bits)) % 64

\* Values 0 .. 63 stand for the characters of b64_table.  Of the accumulator
\* only the bits not yet put out matter.
Base64Encode(plainText) ==
  LET put(s) == \* as many groups of six as there are
        LET RECURSIVE more(_, _, _)
            more(out, acc, bits) ==
              IF bits < 6 THEN [out |-> out, acc |-> acc, bits |-> bits]
              ELSE more(Append(out, (acc \div 2 ^ (bits - 6)) % 64), acc % (2 ^ (bits - 6)), bits - 6)
        IN more(s.out, s.acc, s.bits)
      end == FoldLeft(LAMBDA s, b : put([out |-> s.out, acc |-> s.acc * 256 + b, bits |-> s.bits + 8]),
                      [out |-> <<>>, acc |-> 0, bits |-> 0], plainText)
      out == IF end.bits > 0 THEN Append(end.out, LeftOver(end.acc, end.bits)) ELSE end.out
      size == ((Len(plainText) + 2) \div 3) * 4
  IN out \o [i \in 1 .. size - Len(out) |-> Pad]

-----------------------------------------------------------------------------
(* Sha1.  The compression function is not modelled: a digest is the        *)
(* sequence of the blocks it was given.                                    *)

sha_init == [digest |-> <<>>, data |-> <<>>, count |-> 0]
\* data has a whole block.
sha_transform(sha) == [sha EXCEPT !.digest = Append(@, sha.data)]

\* Mutant: bytes that wait in data are forgotten when a block gets full.
FillNot(sha, buffer) == [sha EXCEPT !.data = SubSeq(buffer, 1, Min({SHA_BLOCKSIZE, Len(buffer)}))]
\* As much of the buffer as the block takes.
Fill(sha, buffer) == [sha EXCEPT !.data = @ \o SubSeq(buffer, 1, Min({SHA_BLOCKSIZE - Len(@), Len(buffer)}))]

RECURSIVE sha_blocks(_, _)
sha_blocks(sha, buffer) ==
  IF Len(buffer) < SHA_BLOCKSIZE THEN [sha EXCEPT !.data = buffer]
  ELSE sha_blocks(sha_transform([sha EXCEPT !.data = SubSeq(buffer, 1, SHA_BLOCKSIZE)]),
                  SubSeq(buffer, SHA_BLOCKSIZE + 1, Len(buffer)))
\* sha_update: fill the block begun before, then whole blocks, then the rest.
sha_update(sha, buffer) ==
  LET counted == [sha EXCEPT !.count = @ + Len(buffer)]
      filled == Fill(counted, buffer)
      rest == SubSeq(buffer, Len(filled.data) - Len(sha.data) + 1, Len(buffer))
  IN IF sha.data = <<>> THEN sha_blocks(counted, buffer)
     ELSE IF Len(filled.data) < SHA_BLOCKSIZE THEN filled
     ELSE sha_blocks(sha_transform(filled), rest)

End == -1       \* the byte 0x80
Zero == -2      \* a byte of the padding
Count == -3     \* a byte of the bit count
Run(n, b) == [i \in 1 .. n |-> b]
\* sha_final: 0x80, zeros and the bit count, in one block or in two.
sha_final(sha) ==
  LET data == Append(sha.data, End)
      room == SHA_BLOCKSIZE - LengthBytes
      tail == Run(LengthBytes, Count)
  IN IF Len(data) > room
       THEN sha_transform([sha_transform([sha EXCEPT !.data = data \o Run(SHA_BLOCKSIZE - Len(data), Zero)])
                             EXCEPT !.data = Run(room, Zero) \o tail])
       ELSE sha_transform([sha EXCEPT !.data = data \o Run(room - Len(data), Zero) \o tail])

\* conv_file_to_upload_parts: for each slice its offset, its length and the
\* digest up to its end, and the digest of the file with the last one.
RECURSIVE PartsFrom(_, _, _, _)
PartsFrom(file, offset, slice_size, sha) ==
  LET readLen == Min({slice_size, Len(file) - offset})
      next == sha_update(sha, SubSeq(file, offset + 1, offset + readLen))
      last == readLen < slice_size \/ offset + readLen = Len(file)
      part == [offset |-> offset, datalen |-> readLen, datasha |-> (IF last THEN sha_final(next) ELSE next).digest]
  IN IF offset >= Len(file) THEN <<>>
     ELSE <<part>> \o PartsFrom(file, offset + readLen, slice_size, next)
conv_file_to_upload_parts(file, slice_size) == PartsFrom(file, 0, slice_size, sha_init)

-----------------------------------------------------------------------------
(* encode.cpp and cos_conv_gbk_2_utf.                                      *)

\* How many bytes follow a first byte of UTF-8.
Follow(b) == CASE b >= 252 -> 5 [] b \in 248 .. 251 -> 4 [] b \in 240 .. 247 -> 3 [] b \in 224 .. 239 -> 2 [] OTHER -> 1

\* dwCount + i <= dwLen with i from 0: the byte after the last one is the
\* terminating zero.
Room(str, i) == Follow(str[i]) + (i - 1) <= Len(str)

\* The counts of the bytes of UTF-8 sequences and of others, from place i.
RECURSIVE Utf8Counts(_, _, _, _)
Utf8Counts(str, i, good, bad) ==
  LET at(j) == IF j <= Len(str) THEN str[j] ELSE 0
      run == Min({j \in 0 .. Follow(str[i]) : j = Follow(str[i]) \/ at(i + 1 + j) \notin 128 .. 191})
  IN CASE i > Len(str) -> [good |-> good, bad |-> bad]
       [] i <= Len(str) /\ str[i] < 127 -> Utf8Counts(str, i + 1, good, bad)
       [] i <= Len(str) /\ str[i] \in (127 .. 191) \cup {254, 255} -> Utf8Counts(str, i + 1, good, bad + 1)
       [] i <= Len(str) /\ str[i] \in 192 .. 253 /\ ~Room(str, i) -> Utf8Counts(str, i + 1, good, bad + 1)
       [] OTHER -> IF run = Follow(str[i]) THEN Utf8Counts(str, i + 1 + run, good + run + 1, bad)
                   ELSE Utf8Counts(str, i + 1 + run, good, bad + 2)

\* good >= (bad + good) * 0.9
IsUtf8(str) == str # <<>> /\ LET n == Utf8Counts(str, 1, 0, 0) IN 10 * n.good >= 9 * (n.bad + n.good)

\* The argument of a command: converted unless it is empty or UTF-8.
\* converted is what iconv makes of it.
cos_conv_gbk_2_utf(arg, converted) == IF arg = <<>> \/ IsUtf8(arg) THEN arg ELSE converted
=============================================================================
