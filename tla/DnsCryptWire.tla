---------------------------- MODULE DnsCryptWire ----------------------------
(***************************************************************************)
(* The DNSCrypt wire protocol of src/src/client/dnscrypt/crypto.rs: padding,*)
(* the two directions of an encrypted exchange, and certificates.           *)
(*                                                                         *)
(* Cryptography is symbolic.  A key pair is one token; the box two parties  *)
(* share is the set of their tokens, and opens only what was sealed by the  *)
(* same box under the same nonce; a signature names its signer and what was *)
(* signed.  Messages are sequences of bytes.                                *)
(***************************************************************************)
EXTENDS Naturals, Sequences, FiniteSetsExt

CONSTANT Block   \* PAD_BLOCK_SIZE, 64 in the code

ASSUME BlockAssumption == Block \in Nat \ {0}

Byte == 0..255

\* The Result of a conversion.
Ok(v) == [ok |-> TRUE, val |-> v]
Err == [ok |-> FALSE, val |-> <<>>]

----------------------------------------------------------------------------
Marker == 128

\* The message, its marker, and zeros up to the next multiple of Block.
PaddedLen(n) ==
  LET rem == (n + 1) % Block IN IF rem = 0 THEN n + 1 ELSE n + 1 + (Block - rem)

pad(msg) ==
  [i \in 1..PaddedLen(Len(msg)) |->
     IF i <= Len(msg) THEN msg[i] ELSE IF i = Len(msg) + 1 THEN Marker ELSE 0]

\* Mutant of unpad: the message ends at its first marker.
UnpadFirst(padded) ==
  LET marks == {i \in DOMAIN padded : padded[i] = Marker} IN
  IF marks # {} THEN Ok(SubSeq(padded, 1, Min(marks) - 1)) ELSE Err

\* The last byte that is not zero must be the marker.
unpad(padded) ==
  LET nonzero == {i \in DOMAIN padded : padded[i] # 0} IN
  IF nonzero # {} /\ padded[Max(nonzero)] = Marker
  THEN Ok(SubSeq(padded, 1, Max(nonzero) - 1))
  ELSE Err

----------------------------------------------------------------------------
shared_box(secret, peer) == {secret, peer}

\* SalsaBox::encrypt and decrypt.
Seal(box, nonce, text) == [box |-> box, nonce |-> nonce, text |-> text]
Open(box, nonce, sealed) ==
  IF sealed.box = box /\ sealed.nonce = nonce THEN Ok(sealed.text) ELSE Err

NoNonce == 0              \* the resolver's half in the nonce of a query
RESOLVER_MAGIC == "r6fnvWj8"

encrypt_query(cert, client, nonce, msg) ==
  [client_magic |-> cert.client_magic, client_pk |-> client, nonce |-> nonce,
   sealed |-> Seal(shared_box(client, cert.resolver_public_key),
                   <<nonce, NoNonce>>, pad(msg))]

decrypt_query(secret, client_magic, framed) ==
  LET padded == Open(shared_box(secret, framed.client_pk),
                     <<framed.nonce, NoNonce>>, framed.sealed)
  IN IF framed.client_magic = client_magic /\ padded.ok THEN unpad(padded.val) ELSE Err

encrypt_server_response(secret, client, nonce, resolver_nonce, msg) ==
  [magic |-> RESOLVER_MAGIC, nonce |-> nonce, resolver_nonce |-> resolver_nonce,
   sealed |-> Seal(shared_box(secret, client), <<nonce, resolver_nonce>>, pad(msg))]

decrypt_response(cert, client, nonce, resp) ==
  LET padded == Open(shared_box(client, cert.resolver_public_key),
                     <<nonce, resp.resolver_nonce>>, resp.sealed)
  IN IF resp.magic = RESOLVER_MAGIC /\ resp.nonce = nonce /\ padded.ok
     THEN unpad(padded.val)
     ELSE Err

\* The bytes of an encrypted response: magic, nonces, and the box's tag.
FramedLen(msg) == 8 + 24 + 16 + PaddedLen(Len(msg))

----------------------------------------------------------------------------
CERT_MAGIC == "DNSC"
ES_VERSION_XSALSA20POLY1305 == 1

sign_certificate(signing_key, resolver_public_key, client_magic, serial, ts_start, ts_end) ==
  LET signed == [resolver_public_key |-> resolver_public_key,
                 client_magic |-> client_magic, serial |-> serial,
                 ts_start |-> ts_start, ts_end |-> ts_end]
  IN [magic |-> CERT_MAGIC, es_version |-> ES_VERSION_XSALSA20POLY1305,
      signature |-> [by |-> signing_key, over |-> signed], signed |-> signed]

\* Whether parse_one_certificate keeps a record; what it makes of it is the
\* part that is signed.
parse_one_certificate(rec, verifying_key) ==
  /\ rec.magic = CERT_MAGIC
  /\ rec.es_version = ES_VERSION_XSALSA20POLY1305
  /\ rec.signature = [by |-> verifying_key, over |-> rec.signed]

\* The order is refresh_cert's to use: see Newest.
parse_certificates(records, provider_public_key) ==
  {r.signed : r \in {r \in records : parse_one_certificate(r, provider_public_key)}}

\* The head of the list sorted by descending serial: which of two with one
\* serial comes first is left to the order of the records.
Newest(certs) == {c \in certs : \A d \in certs : d.serial <= c.serial}

\* Mutant of is_valid_at: the last second is counted in.
ValidTooLong(cert, t) == cert.ts_start <= t /\ t <= cert.ts_end

is_valid_at(cert, t) == cert.ts_start <= t /\ t < cert.ts_end
=============================================================================
