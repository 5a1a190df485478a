------------------------------- MODULE UrlRules -------------------------------
(***************************************************************************)
(* Which bodies POST /audit accepts: auditRequestSchema with the address   *)
(* rules of ip.util.ts. The URL parser is external: it has turned a host   *)
(* into an IPv4 address in dotted decimals, an IPv6 address in brackets or *)
(* a name in lower case. An IPv6 address is given by its first group, a    *)
(* name by its beginning and by whether it is one of the local names.      *)
(***************************************************************************)
EXTENDS Integers

Byte == 0..255

V4(a, b, c, d) == [kind |-> "v4", bytes |-> <<a, b, c, d>>]
V6(group, loopback) == [kind |-> "v6", group |-> group, loopback |-> loopback]
Name(start, local) == [kind |-> "name", start |-> start, local |-> local]

Url(protocol, host) == [form |-> "url", protocol |-> protocol, host |-> host]
NoUrl == [form |-> "noUrl"]      \* no field url, no string, or an empty one
NoParse == [form |-> "noParse"]  \* new URL throws

-----------------------------------------------------------------------------
(* ipToNumber, less its lower 16 bits: no mask is longer. *)
ipToNumber(bytes) == bytes[1] * 256 + bytes[2]

(* The addresses a mask makes one, in units of 65536. *)
Block(mask) ==
    IF mask = 4 THEN 4096 ELSE
    IF mask = 8 THEN 256 ELSE
    IF mask = 10 THEN 64 ELSE
    IF mask = 12 THEN 16 ELSE 1

PRIVATE_CIDR_RANGES ==
    { [prefix |-> <<127, 0>>, mask |-> 8],
      [prefix |-> <<10, 0>>, mask |-> 8],
      [prefix |-> <<172, 16>>, mask |-> 12],
      [prefix |-> <<192, 168>>, mask |-> 16],
      [prefix |-> <<169, 254>>, mask |-> 16],
      [prefix |-> <<100, 64>>, mask |-> 10],
      [prefix |-> <<224, 0>>, mask |-> 4],
      [prefix |-> <<240, 0>>, mask |-> 4] }

(* Equal under the mask: the bits to its right are dropped. *)
matchesCidr(bytes, range) ==
    ipToNumber(bytes) \div Block(range.mask) = ipToNumber(range.prefix) \div Block(range.mask)

isPrivateIpv4(host) ==
    /\ host.kind = "v4"
    /\ \E range \in PRIVATE_CIDR_RANGES : matchesCidr(host.bytes, range)

(* The text of a first group begins with fc or fd, as it does for fcxx and  *)
(* fdxx, and for the groups fc, fd, fcx and fdx.                            *)
StartsFcFd(group) ==
    \/ group \in 252..253
    \/ group \in 4032..4063
    \/ group \in 64512..65023

(* It is asked of every host, and looks at the text: a name that begins     *)
(* with fc or fd is taken for a unique local address.                       *)
isPrivateIpv6(host) ==
    \/ host.kind = "v6" /\ (host.loopback \/ host.group = 65152 \/ StartsFcFd(host.group))
    \/ host.kind = "name" /\ host.start \in {"fc", "fd"}

(* localhost, 0.0.0.0, *.local and *.internal. *)
LocalName(host) ==
    \/ host.kind = "name" /\ host.local
    \/ host.kind = "v4" /\ host.bytes = <<0, 0, 0, 0>>

(* auditRequestSchema accepts what passes each of its refinements. *)
Satisfies(body) ==
    /\ body.form = "url"
    /\ body.protocol \in {"http:", "https:"}
    /\ ~LocalName(body.host)
    /\ ~isPrivateIpv4(body.host)
    /\ ~isPrivateIpv6(body.host)
=============================================================================
