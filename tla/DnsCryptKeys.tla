---------------------------- MODULE DnsCryptKeys ----------------------------
(***************************************************************************)
(* How a DNSCrypt resolver's keys reach its server and its clients: the     *)
(* sdns:// stamp (src/src/client/dnscrypt/stamp.rs, keygen.rs) and the key  *)
(* file (config.rs).                                                        *)
(*                                                                         *)
(* A stamp is a sequence of bytes; the base64 around it is left out.  A     *)
(* character of an address or a name is a byte, and so is a whole IP        *)
(* address or port within an address: only lengths and brackets matter.     *)
(***************************************************************************)
EXTENDS DnsCryptWire

CONSTANTS
  HighBit,   \* 0x80: the bit of a length byte that says more follows
  KeyLen     \* bytes of a public key, 32 in the code

\* A key and an address fit a segment of one length byte.
ASSUME StampAssumption ==
  /\ HighBit \in Nat /\ HighBit > 5
  /\ KeyLen \in Nat \ {0} /\ KeyLen < HighBit

----------------------------------------------------------------------------
\* Addresses: [ip |-> IpV4 or IpV6, port |-> ...].
IpV4 == 1
IpV6 == 2
Ports == {53, 443}
Addrs == [ip : {IpV4, IpV6}, port : Ports]
DEFAULT_PORT_DNSCRYPT == 443

Colon == 58
Open_ == 91
Close_ == 93

\* SocketAddr::to_string: an IPv6 address is bracketed.
AddrString(a) ==
  IF a.ip = IpV6 THEN <<Open_, a.ip, Close_, Colon, a.port>> ELSE <<a.ip, Colon, a.port>>

\* The ways parse_stamp_addr reads an address: a socket address, a bare or a
\* bracketed IP with the default port, a bracketed IP with a port.
AddrForms(a) ==
  {AddrString(a), <<Open_, a.ip, Close_, Colon, a.port>>}
    \cup (IF a.port = DEFAULT_PORT_DNSCRYPT THEN {<<a.ip>>, <<Open_, a.ip, Close_>>} ELSE {})

parse_stamp_addr(s) ==
  IF \E a \in Addrs : s \in AddrForms(a) THEN Ok(CHOOSE a \in Addrs : s \in AddrForms(a)) ELSE Err

----------------------------------------------------------------------------
\* `len as u8`, then the bytes.
LengthPrefixed(s) == <<Len(s) % (2 * HighBit)>> \o s

build_stamp(addr, provider_public_key, provider_name) ==
  <<1>> \o [i \in 1..8 |-> 0] \o LengthPrefixed(AddrString(addr))
    \o LengthPrefixed(provider_public_key) \o LengthPrefixed(provider_name)

\* The segment at pos, and where the next one starts.  A length byte with the
\* high bit set is continued by the segment that follows.
read_lp(buf, pos) ==
  LET seg[p \in 1..(Len(buf) + 1)] ==
        IF p > Len(buf) \/ p + (buf[p] % HighBit) > Len(buf)
        THEN Err
        ELSE LET end  == p + (buf[p] % HighBit)
                 here == SubSeq(buf, p + 1, end)
             IN IF buf[p] < HighBit
                THEN Ok([bytes |-> here, pos |-> end + 1])
                ELSE IF seg[end + 1].ok
                     THEN Ok([bytes |-> here \o seg[end + 1].val.bytes,
                              pos |-> seg[end + 1].val.pos])
                     ELSE Err
  IN seg[pos]

\* The three fields after the type and the properties, in order.
parse_dnscrypt_stamp(bytes) ==
  IF Len(bytes) < 9 \/ bytes[1] # 1
  THEN Err
  ELSE LET addr == read_lp(bytes, 10)
           key  == IF addr.ok THEN read_lp(bytes, addr.val.pos) ELSE Err
           name == IF key.ok THEN read_lp(bytes, key.val.pos) ELSE Err
       IN IF name.ok /\ Len(key.val.bytes) = KeyLen /\ parse_stamp_addr(addr.val.bytes).ok
          THEN Ok([addr |-> parse_stamp_addr(addr.val.bytes).val,
                   provider_public_key |-> key.val.bytes,
                   provider_name |-> name.val.bytes])
          ELSE Err

----------------------------------------------------------------------------
(***************************************************************************)
(* The key file: a text, which is a sequence of characters.  A number that  *)
(* is no character stands for the name of a key, and one for each byte that *)
(* is written in base64.                                                    *)
(***************************************************************************)
KeyNames == {"provider_name", "provider_signing_key", "resolver_secret_key"}
KeyChar ==
  [provider_name |-> 2000001, provider_signing_key |-> 2000002, resolver_secret_key |-> 2000003]
Base64 == 3000000

Newline == 10
Space == 32
Hash == 35
Equals == 61
\* char::is_whitespace
Blanks == (9..13) \cup (8192..8202) \cup {32, 133, 160, 5760, 8232, 8233, 8239, 8287, 12288}

\* A key's base64 ends in one sign of padding, as 32 bytes make it.
encode(bytes) == [i \in 1..Len(bytes) |-> Base64 + bytes[i]] \o <<Equals>>
decode(value) ==
  IF /\ Len(value) = KeyLen + 1 /\ value[KeyLen + 1] = Equals
     /\ \A i \in 1..KeyLen : value[i] >= Base64
  THEN Ok([i \in 1..KeyLen |-> value[i] - Base64])
  ELSE Err

Entry(k, value) == <<KeyChar[k], Space, Equals, Space>> \o value \o <<Newline>>

save(config) ==
  Entry("provider_name", config.provider_name)
    \o Entry("provider_signing_key", encode(config.provider_signing_key))
    \o Entry("resolver_secret_key", encode(config.resolver_secret_key))

\* str::lines: where each line starts, and the line that starts at p.
LineStarts(text) == {p \in DOMAIN text : p = 1 \/ text[p - 1] = Newline}
LineAt(text, p) ==
  SubSeq(text, p, Min({i \in p..Len(text) : text[i] = Newline} \cup {Len(text) + 1}) - 1)

trim(s) ==
  LET solid == {i \in DOMAIN s : s[i] \notin Blanks}
  IN IF solid = {} THEN <<>> ELSE SubSeq(s, Min(solid), Max(solid))

\* split_once('='), and what stands on either side of it.
Signs(line) == {i \in DOMAIN line : line[i] = Equals}
KeyOf(line) == trim(SubSeq(line, 1, Min(Signs(line)) - 1))
ValueOf(line) == trim(SubSeq(line, Min(Signs(line)) + 1, Len(line)))

\* A name is taken as it is.
Decoded(k, value) == IF k = "provider_name" THEN Ok(value) ELSE decode(value)

\* Every line but blank ones and comments is a known key that decodes, every
\* key is there, and the last line of a key counts.
load(text) ==
  LET line(p) == trim(LineAt(text, p))
      pairs == {p \in LineStarts(text) : line(p) # <<>> /\ line(p)[1] # Hash}
      of(k) == {p \in pairs : Signs(line(p)) # {} /\ KeyOf(line(p)) = <<KeyChar[k]>>}
  IN IF /\ \A p \in pairs : \E k \in KeyNames : p \in of(k) /\ Decoded(k, ValueOf(line(p))).ok
        /\ \A k \in KeyNames : of(k) # {}
     THEN Ok([k \in KeyNames |-> Decoded(k, ValueOf(line(Max(of(k))))).val])
     ELSE Err

\* A name that the file can hold: one line, with no blanks around it.
Tidy(name) ==
  /\ \A i \in DOMAIN name : name[i] # Newline
  /\ name # <<>> => name[1] \notin Blanks /\ name[Len(name)] \notin Blanks
=============================================================================
