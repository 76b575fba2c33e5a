----------------------------- MODULE RSAKeyPair -----------------------------
(***************************************************************************)
(* The byte-level behaviour of RSAKeyPair.cpp: the QDataStream layout      *)
(* writeToFile and publicKey produce, the base64 text written to rsa_key,  *)
(* what readFromFile and setPublicKey recover from a (possibly truncated)  *)
(* byte string, and the chunking loops of encrypt and decrypt.             *)
(*                                                                         *)
(* A key is a record of the rsa_context fields the code streams; an mpi is *)
(* a natural number, 0 standing for both the value 0 and an mpi whose      *)
(* limb pointer is NULL (both are streamed as an empty QByteArray and an   *)
(* empty QByteArray is read back as a freed, NULL mpi).  A byte is a       *)
(* number in 0..255.  QDataStream is big-endian; a read past the end       *)
(* yields 0 (an empty QByteArray) and consumes the rest of the data.       *)
(***************************************************************************)
EXTENDS Integers, Sequences, SequencesExt

\* RSAKeyPairPrivate::KeyMagic, 'BMPI'.
KeyMagic == 1112363081

\* The mpi fields in the order writeToFile and readFromFile stream them, and
\* the ones publicKey and setPublicKey stream.
KeyFields == <<"N", "E", "D", "P", "Q", "DP", "DQ", "QP", "RN", "RP", "RQ">>
PublicFields == <<"N", "E", "RN">>

\* rsa_init memsets the context: every field 0 / NULL.
EmptyKey == [f \in {"ver", "len"} \cup Range(KeyFields) |-> 0]

--------------------------------------------------------------------------
(* Writing: QDataStream::operator<< for quint32 / qint32 / QByteArray and   *)
(* the file's operator<<(QDataStream&, const mpi&).                         *)

\* Four big-endian bytes; with floored \div and %, a negative qint32 comes
\* out in two's complement.
U32(n) == <<(n \div 2^24) % 256, (n \div 2^16) % 256, (n \div 2^8) % 256, n % 256>>

\* mpi_write_binary into a buffer of mpi_size bytes: minimal big-endian.
RECURSIVE MpiBytes(_)
MpiBytes(n) == IF n = 0 THEN <<>> ELSE MpiBytes(n \div 256) \o <<n % 256>>

\* operator<<(QDataStream&, const mpi&): a length-prefixed QByteArray.
MpiOut(n) == U32(Len(MpiBytes(n))) \o MpiBytes(n)

\* The stream body shared by writeToFile and publicKey.
KeyStream(k, fields) ==
    FoldLeft(LAMBDA out, f : out \o MpiOut(k[f]),
             U32(KeyMagic) \o U32(k.ver) \o U32(k.len), fields)

\* Mutant: writeToFile streams DQ before DP.
RawKeyDQFirst(k) ==
    KeyStream(k, <<"N", "E", "D", "P", "Q", "DQ", "DP", "QP", "RN", "RP", "RQ">>)

RawKey(k) == KeyStream(k, KeyFields)
publicKey(k) == KeyStream(k, PublicFields)

\* QByteArray::toBase64 of n bytes is 4 * ceil(n / 3) characters; a prefix
\* of c of them decodes (QByteArray::fromBase64 skips '=' padding and emits
\* a byte for every 8 bits it has collected) to the first 3c / 4 bytes.
Base64Len(n) == 4 * ((n + 2) \div 3)
FromBase64Prefix(raw, c) ==
    SubSeq(raw, 1, IF (3 * c) \div 4 < Len(raw) THEN (3 * c) \div 4 ELSE Len(raw))

--------------------------------------------------------------------------
(* Reading: a read returns the value and the bytes left after it.           *)

BigEndian(s) == FoldLeft(LAMBDA v, b : v * 256 + b, 0, s)

\* QDataStream >> quint32 / qint32.  The value is given in its signed
\* (qint32) reading; a quint32 of 2^31 or more, which TLC's integers could
\* not hold, never occurs in the streams modelled here.
ReadU32(s) ==
    IF Len(s) >= 4
      THEN [v |-> (IF s[1] >= 128 THEN (s[1] - 256) * 2^24 ELSE s[1] * 2^24)
                  + BigEndian(SubSeq(s, 2, 4)),
            rest |-> SubSeq(s, 5, Len(s))]
      ELSE [v |-> 0, rest |-> <<>>]

ReadI32(s) == ReadU32(s)

\* QDataStream >> QByteArray, then operator>>(QDataStream&, mpi&):
\* 0xFFFFFFFF is a null array, a body shorter than its length clears it.
ReadMpi(s) ==
    LET l == ReadU32(s)
    IN  CASE Len(s) >= 4 /\ SubSeq(s, 1, 4) = <<255, 255, 255, 255>>
                                  -> [v |-> 0, rest |-> SubSeq(s, 5, Len(s))]
          [] Len(l.rest) >= l.v   -> [v |-> BigEndian(SubSeq(l.rest, 1, l.v)),
                                      rest |-> SubSeq(l.rest, l.v + 1, Len(l.rest))]
          [] OTHER                -> [v |-> 0, rest |-> <<>>]

\* The reads after the magic check of readFromFile / setPublicKey: every
\* field is assigned, in order, whatever is left of the stream.
ReadKey(k, s, fields) ==
    LET ver == ReadI32(s)
        len == ReadI32(ver.rest)
        mpis == FoldLeft(LAMBDA acc, f :
                           LET r == ReadMpi(acc.rest)
                           IN  [key |-> [acc.key EXCEPT ![f] = r.v], rest |-> r.rest],
                         [key |-> [k EXCEPT !.ver = ver.v, !.len = len.v], rest |-> len.rest],
                         fields)
    IN  mpis.key

\* readFromFile(filename) on a file holding text that decodes to data:
\* FALSE on a bad magic, TRUE otherwise, however short the data is.  (The
\* "-----BEGIN" check cannot match base64 of a BMPI stream.)
ReadFromFile(k, data) ==
    IF ReadU32(data).v # KeyMagic THEN [ok |-> FALSE, key |-> k]
    ELSE [ok |-> TRUE, key |-> ReadKey(k, ReadU32(data).rest, KeyFields)]

setPublicKey(k, data) ==
    IF ReadU32(data).v # KeyMagic THEN [ok |-> FALSE, key |-> k]
    ELSE [ok |-> TRUE, key |-> ReadKey(k, ReadU32(data).rest, PublicFields)]

--------------------------------------------------------------------------
(* encrypt / decrypt.  rsa_pkcs1_encrypt (PolarSSL) turns dlen <= rsize-11  *)
(* bytes into an rsize-byte block and fails, leaving the output buffer as  *)
(* it was, for longer input; rsa_pkcs1_decrypt reads one rsize-byte block  *)
(* and, when it is a valid block, sets dec to its payload length.  A block  *)
(* is modelled as its (non-empty) payload followed by rsize-1 padding      *)
(* cells; a padding cell, and a cell of a buffer nobody wrote, is <<>>.    *)
(* QByteArray(chunk, dec) with dec never set is <<"undefined">>.           *)

Block(payload, rsize) == <<payload>> \o [i \in 1..rsize - 1 |-> <<>>]
Junk(rsize) == [i \in 1..rsize |-> <<>>]

RECURSIVE EncryptLoop(_, _, _, _)
EncryptLoop(plaintext, rsize, flen, chunk) ==
    IF Len(plaintext) = 0 THEN <<>>
    ELSE LET dlen == IF flen < Len(plaintext) THEN flen ELSE Len(plaintext)
             out  == IF dlen + 11 <= rsize THEN Block(SubSeq(plaintext, 1, dlen), rsize)
                     ELSE chunk
         IN  out \o EncryptLoop(SubSeq(plaintext, dlen + 1, Len(plaintext)), rsize, flen, out)

\* Mutant: flen = rsize - 10, one byte more than PKCS#1 v1.5 padding allows.
encryptFlenOff(plaintext, rsize) == EncryptLoop(plaintext, rsize, rsize - 10, Junk(rsize))

encrypt(plaintext, rsize) == EncryptLoop(plaintext, rsize, rsize - 11, Junk(rsize))

RECURSIVE decrypt(_, _)
decrypt(cryptotext, rsize) ==
    IF Len(cryptotext) = 0 THEN <<>>
    ELSE LET block == SubSeq(cryptotext, 1, rsize)
             dec   == IF block[1] = <<>> THEN <<"undefined">> ELSE block[1]
         IN  dec \o decrypt(SubSeq(cryptotext, rsize + 1, Len(cryptotext)), rsize)
=============================================================================
