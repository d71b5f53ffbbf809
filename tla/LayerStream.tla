----------------------------- MODULE LayerStream -----------------------------
(***************************************************************************)
(* The stream of one layer, from the encryption of its blob (ocicrypt-rs,  *)
(* blockcipher) to the directory it is unpacked in (image-rs, decrypt.rs,  *)
(* decoder, stream, pull.rs).  A pull has four readers one inside the      *)
(* other: the blob is decrypted and its HMAC kept, decompressed, hashed,   *)
(* and read as a tar archive; each read goes through all of them, and the  *)
(* verdicts (HMAC, digest) come only when the outermost asks for the end.  *)
(*                                                                         *)
(* A block of ciphertext is a record of the key, nonce and position it was *)
(* made with: decrypting it with the same gives the block, anything else   *)
(* gives garbage.  HMACs and digests are what they are computed over.      *)
(***************************************************************************)
EXTENDS Naturals, Sequences, SequencesExt, FiniteSets, TLC

CONSTANTS
  Archives,    \* tar archives: sequences of blocks, "end" being the zeros that end one
  Ciphers,     \* names of cipher types
  AES256CTR    \* the supported one

ASSUME StreamAssumption == /\ AES256CTR \in Ciphers
                           /\ \A a \in Archives : a \in Seq(STRING) /\ Len(a) > 0

\* Media types: what packs the archive and whether the blob is encrypted; "docker" is
\* the name Docker has for gzip, "other" is unknown.
Packings == {"plain", "gzip", "zstd", "docker", "other"}
Hashes == {"sha256:", "sha512:", "md5:"}

VARIABLES
  streamPc,   \* "begin", "encrypting", "published", "reading", "stored", "plaintext", "failed"
  source,     \* what is published: archive, media type and diff_id
  blob,       \* the blocks of the blob
  opts,       \* LayerBlockCipherOptions
  cipher,     \* AESCTRBlockCipher: its state
  received,   \* the blocks that reached the hasher and the archive reader
  member,     \* decoder: "open" in a member, "closed" after one
  layerDir,   \* the directory is there
  damaged,    \* history: the registry does not serve what was published
  faulty      \* history: something the layer is not to blame for failed

streamVars == <<streamPc, source, blob, opts, cipher, received, member, layerDir, damaged, faulty>>

NoSource == [archive |-> <<>>, packing |-> "plain", encrypted |-> FALSE, hash |-> "sha256:"]
NoOpts == [cipherType |-> "none", hmac |-> <<>>, publicNonce |-> 0, key |-> 0, nonce |-> 0]
NewOpts == [cipherType |-> AES256CTR, hmac |-> <<>>, publicNonce |-> 0, key |-> 1, nonce |-> 1]
NoCipher == [encrypt |-> FALSE, done |-> FALSE, mac |-> <<>>, expHmac |-> <<>>, key |-> 0, nonce |-> 0]

StreamInit ==
  /\ streamPc = "begin"
  /\ source = NoSource
  /\ blob = <<>>
  /\ opts = NoOpts
  /\ cipher = NoCipher
  /\ received = <<>>
  /\ member = "closed"
  /\ layerDir = FALSE
  /\ damaged = FALSE
  /\ faulty = FALSE

-----------------------------------------------------------------------------
(* Publishing *)

\* The archive as blocks of the compressed stream: of one member, or of two.
Pack(a, packing, cut) ==
  [i \in DOMAIN a |-> [packing |-> IF packing = "docker" THEN "gzip" ELSE packing,
                       data |-> a[i], last |-> i \in {cut, Len(a)}]]

Publish(a, packing, cut, hash, enc) ==
  /\ streamPc = "begin"
  /\ streamPc' = IF enc THEN "encrypting" ELSE "published"
  /\ source' = [archive |-> a, packing |-> packing, encrypted |-> enc, hash |-> hash]
  /\ blob' = Pack(a, packing, cut)
  /\ UNCHANGED <<opts, cipher, received, member, layerDir, damaged, faulty>>

\* AESCTRBlockCipher::init: what the options must have; the nonce of the public
\* options comes before that of the private ones.
GetOptNonce(o) == IF o.publicNonce # 0 THEN o.publicNonce ELSE o.nonce
InitCipher(encrypt, o) ==
  [encrypt |-> encrypt, done |-> FALSE, mac |-> <<>>, expHmac |-> o.hmac,
   key |-> o.key, nonce |-> GetOptNonce(o)]

\* LayerBlockCipherHandler::encrypt: a new key and nonce.
Encrypt(typ) ==
  /\ streamPc = "encrypting"
  /\ cipher = NoCipher
  /\ IF typ = AES256CTR
     THEN /\ opts' = NewOpts
          /\ cipher' = InitCipher(TRUE, NewOpts)
          /\ UNCHANGED <<streamPc, faulty>>
     ELSE /\ streamPc' = "failed" /\ faulty' = TRUE
          /\ UNCHANGED <<opts, cipher>>
  /\ UNCHANGED <<source, blob, received, member, layerDir, damaged>>

\* A read of the encrypting stream gives one more block of ciphertext, or its end.
EncryptRead ==
  /\ streamPc = "encrypting"
  /\ cipher.encrypt /\ ~ cipher.done
  /\ LET pos == Len(cipher.mac) + 1 IN
     cipher' = IF pos <= Len(blob)
               THEN [cipher EXCEPT !.mac = Append(@, [key |-> cipher.key, nonce |-> cipher.nonce,
                                                      pos |-> pos, data |-> blob[pos]])]
               ELSE [cipher EXCEPT !.done = TRUE,
                                   !.expHmac = <<cipher.key>> \o cipher.mac]
  /\ UNCHANGED <<streamPc, source, blob, opts, received, member, layerDir, damaged, faulty>>

\* finalized_lbco: only a stream read to its end has an HMAC.
FinalizeLayer ==
  /\ streamPc = "encrypting"
  /\ cipher.encrypt
  /\ IF cipher.done THEN /\ opts' = [opts EXCEPT !.hmac = cipher.expHmac]
                         /\ blob' = cipher.mac
                         /\ streamPc' = "published"
                         /\ UNCHANGED faulty
                    ELSE /\ streamPc' = "failed" /\ faulty' = TRUE
                         /\ UNCHANGED <<opts, blob>>
  /\ cipher' = NoCipher
  /\ UNCHANGED <<source, received, member, layerDir, damaged>>

\* The blob or the annotations are not what was published.
Damage(b, o) ==
  /\ streamPc = "published"
  /\ ~ damaged
  /\ b # blob \/ o # opts
  /\ blob' = b
  /\ opts' = o
  /\ damaged' = TRUE
  /\ UNCHANGED <<streamPc, source, cipher, received, member, layerDir, faulty>>

-----------------------------------------------------------------------------
(* Opening the layer *)

\* Decryptor::from_media_type knows plain and gzip layers as encrypted ones.
IsEncrypted == source.encrypted /\ source.packing \in {"plain", "gzip"}

\* Compression::try_from: a media type that names encryption is none it knows.
Decoder == IF source.encrypted /\ ~ IsEncrypted THEN "other"
           ELSE IF source.packing = "docker" THEN "gzip" ELSE source.packing

\* The private options have come out of the annotations (a wrong key when another was
\* wrapped) and with the public ones they set up the cipher.
Decryptable(o) == o.cipherType = AES256CTR /\ o.key # 0 /\ o.hmac # <<>>

\* The digests stream_processing can make.
Hashed == source.hash \in {"sha256:", "sha512:"}

\* async_handle_layer up to the first read; key is what get_decrypt_key returns.
OpenLayer(key) ==
  LET o == [opts EXCEPT !.key = key] IN
  /\ streamPc = "published"
  /\ IF (IsEncrypted => Decryptable(o)) /\ Decoder # "other" /\ Hashed
     THEN /\ cipher' = IF IsEncrypted THEN InitCipher(FALSE, o) ELSE cipher
          /\ layerDir' = TRUE
          /\ streamPc' = "reading"
     ELSE /\ streamPc' = "failed"
          /\ UNCHANGED <<cipher, layerDir>>
  /\ faulty' = (IsEncrypted /\ key # opts.key)
  /\ UNCHANGED <<source, blob, opts, received, member, damaged>>

\* get_plaintext_layer decrypts a layer that is in memory, and leaves it as it is.
OpenPlaintext(key) ==
  LET o == [opts EXCEPT !.key = key] IN
  /\ streamPc = "published"
  /\ IF IsEncrypted /\ Decryptable(o)
     THEN /\ cipher' = InitCipher(FALSE, o)
          /\ streamPc' = "reading"
     ELSE /\ streamPc' = "failed"
          /\ UNCHANGED cipher
  /\ faulty' = TRUE
  /\ UNCHANGED <<source, blob, opts, received, member, layerDir, damaged>>

\* A build without the feature refuses an encrypted layer.
RefuseEncrypted ==
  /\ streamPc = "published"
  /\ IsEncrypted
  /\ streamPc' = "failed"
  /\ faulty' = TRUE
  /\ UNCHANGED <<source, blob, opts, cipher, received, member, layerDir, damaged>>

-----------------------------------------------------------------------------
(* Reading *)

Garbage == [packing |-> "garbage", data |-> "garbage", last |-> FALSE]
Decrypted(c, pos) ==
  IF c.key = cipher.key /\ c.nonce = cipher.nonce /\ c.pos = pos THEN c.data ELSE Garbage

\* The next block as it leaves the cipher.
Taken == Len(received)
NextBlock == IF IsEncrypted THEN Decrypted(blob[Taken + 1], Taken + 1) ELSE blob[Taken + 1]

\* The zstd decoder ends with the first frame, the gzip one with the stream.
AtEnd == \/ Taken = Len(blob)
         \/ layerDir /\ Decoder = "zstd" /\ Taken > 0 /\ member = "closed"

\* What is not packed as it should be stops the decoder.
Decodes(c) == layerDir => Decoder \in {"plain", c.packing}

\* async_processing: when unpacking fails the directory is removed, which may fail too.
RollBack(removed) ==
  /\ streamPc' = "failed"
  /\ layerDir' = (layerDir /\ ~ removed)
  /\ UNCHANGED <<source, blob, opts, cipher, received, member, damaged>>

\* One block through all the readers; the HMAC is over the ciphertext.
ReadBlock ==
  /\ streamPc = "reading"
  /\ ~ AtEnd
  /\ Decodes(NextBlock)
  /\ received' = Append(received, NextBlock.data)
  /\ member' = IF NextBlock.last THEN "closed" ELSE "open"
  /\ cipher' = IF IsEncrypted THEN [cipher EXCEPT !.mac = Append(@, blob[Taken + 1])] ELSE cipher
  /\ UNCHANGED <<streamPc, source, blob, opts, layerDir, damaged, faulty>>

\* The decoder, or the archive reader, finds garbage.
BadBlock(removed) ==
  /\ streamPc = "reading"
  /\ ~ AtEnd
  /\ ~ Decodes(NextBlock) \/ (layerDir /\ NextBlock = Garbage)
  /\ RollBack(removed)
  /\ UNCHANGED faulty

\* The connection breaks, or the entry cannot be written.
ReadFails(removed) ==
  /\ streamPc = "reading"
  /\ RollBack(removed)
  /\ faulty' = TRUE

\* The end of the blob: the comparison of the HMAC gives the verdict.
MacVerified == IsEncrypted => cipher.expHmac = <<cipher.key>> \o cipher.mac

\* Mutant of Complete: the stream ends without a comparison.
CompleteWithoutMac == layerDir => Decoder = "plain" \/ member = "closed"

\* A stream ends well with its HMAC verified and outside any member.
Complete == MacVerified /\ (layerDir => Decoder = "plain" \/ member = "closed")

EndFails(removed) ==
  /\ streamPc = "reading"
  /\ AtEnd
  /\ ~ Complete
  /\ RollBack(removed)
  /\ UNCHANGED faulty

\* The digest of what was read must be the layer's diff_id; if not, what was unpacked
\* stays where it is.
EndOfStream ==
  /\ streamPc = "reading"
  /\ AtEnd
  /\ Complete
  /\ streamPc' = IF ~ layerDir THEN "plaintext"
                 ELSE IF received = source.archive THEN "stored" ELSE "failed"
  /\ cipher' = [cipher EXCEPT !.done = TRUE]
  /\ UNCHANGED <<source, blob, opts, received, member, layerDir, damaged, faulty>>

-----------------------------------------------------------------------------

\* Damage: a block more, one less, two in another order, other options.
Damages ==
  {<<b, opts>> : b \in {RemoveAt(blob, i) : i \in DOMAIN blob}
                       \cup {Append(blob, blob[i]) : i \in DOMAIN blob}
                       \cup {[blob EXCEPT ![1] = blob[i], ![i] = blob[1]] : i \in DOMAIN blob}}
  \cup {<<blob, [opts EXCEPT !.hmac = h, !.publicNonce = n]>> :
          h \in {opts.hmac, <<>>, <<1>>}, n \in {0, 2}}
  \cup {<<blob, [opts EXCEPT !.cipherType = c]>> : c \in Ciphers}

StreamNext ==
  \/ \E a \in Archives, p \in Packings, h \in Hashes, enc \in BOOLEAN :
       \E cut \in {1, Len(a)} : Publish(a, p, cut, h, enc)
  \/ \E typ \in Ciphers : Encrypt(typ)
  \/ EncryptRead
  \/ FinalizeLayer
  \/ \E d \in Damages : Damage(d[1], d[2])
  \/ \E key \in {0, 1, 2} : OpenLayer(key) \/ OpenPlaintext(key)
  \/ RefuseEncrypted
  \/ ReadBlock
  \/ \E removed \in BOOLEAN : BadBlock(removed) \/ ReadFails(removed) \/ EndFails(removed)
  \/ EndOfStream

StreamSpec == StreamInit /\ [][StreamNext]_streamVars

-----------------------------------------------------------------------------
(* Properties *)

\* Nothing comes out of an encrypted layer, unpacked or in memory, unless its HMAC was
\* compared, equal, over every block of the blob: the readers around the cipher, which
\* stop when they have what they need, always get to its end.
EndIsAuthenticated ==
  streamPc \in {"stored", "plaintext"} /\ IsEncrypted =>
    /\ cipher.mac = blob
    /\ opts.hmac = <<cipher.key>> \o blob

\* A layer that is as it was published, of a known type and in one frame when it is
\* zstd, is stored unless something else fails.
PublishedIsStored ==
  /\ ~ damaged /\ ~ faulty
  /\ source.hash # "md5:" /\ source.packing # "other"
  /\ source.packing \in {"zstd", "docker"} => ~ source.encrypted
  /\ source.packing = "zstd" => \A i \in 1 .. Len(blob) - 1 : ~ blob[i].last
  => streamPc # "failed"

\* Both: what comes out is what was published, nothing else and nothing less.
StoredIsPublished == EndIsAuthenticated /\ PublishedIsStored
=============================================================================
