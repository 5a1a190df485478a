--------------------------- MODULE UrlRules_proofs ---------------------------
(***************************************************************************)
(* What the address rules come to, for every address and every name: the   *)
(* masks of ip.util.ts as first and last addresses, and the whole schema.  *)
(***************************************************************************)
EXTENDS UrlRules, TLAPS

(* Of all IPv4 addresses exactly those in 10/8, 127/8, 172.16/12,           *)
(* 192.168/16, 169.254/16, 100.64/10 and from 224.0.0.0 on are private      *)
(* (ip.util.ts:10-41): no block is cut short, none reaches into another.    *)
THEOREM PrivateAddresses ==
    ASSUME NEW a \in Byte, NEW b \in Byte, NEW c \in Byte, NEW d \in Byte
    PROVE  isPrivateIpv4(V4(a, b, c, d)) <=>
              \/ a \in {10, 127} \cup 224..255
              \/ a = 172 /\ b \in 16..31
              \/ a = 192 /\ b = 168
              \/ a = 169 /\ b = 254
              \/ a = 100 /\ b \in 64..127
<1> DEFINE Under(x, y, m) == matchesCidr(<<a, b, c, d>>, [prefix |-> <<x, y>>, mask |-> m])
<1>1. Under(127, 0, 8) <=> a = 127
  BY SMT DEF matchesCidr, ipToNumber, Block, Byte
<1>2. Under(10, 0, 8) <=> a = 10
  BY SMT DEF matchesCidr, ipToNumber, Block, Byte
<1>3. Under(172, 16, 12) <=> a = 172 /\ b \in 16..31
  BY SMT DEF matchesCidr, ipToNumber, Block, Byte
<1>4. Under(192, 168, 16) <=> a = 192 /\ b = 168
  BY SMT DEF matchesCidr, ipToNumber, Block, Byte
<1>5. Under(169, 254, 16) <=> a = 169 /\ b = 254
  BY SMT DEF matchesCidr, ipToNumber, Block, Byte
<1>6. Under(100, 64, 10) <=> a = 100 /\ b \in 64..127
  BY SMT DEF matchesCidr, ipToNumber, Block, Byte
<1>7. Under(224, 0, 4) <=> a \in 224..239
  BY SMT DEF matchesCidr, ipToNumber, Block, Byte
<1>8. Under(240, 0, 4) <=> a \in 240..255
  BY SMT DEF matchesCidr, ipToNumber, Block, Byte
<1>9. isPrivateIpv4(V4(a, b, c, d)) <=>
         \/ Under(127, 0, 8) \/ Under(10, 0, 8) \/ Under(172, 16, 12) \/ Under(192, 168, 16)
         \/ Under(169, 254, 16) \/ Under(100, 64, 10) \/ Under(224, 0, 4) \/ Under(240, 0, 4)
  <2>1. V4(a, b, c, d).kind = "v4" /\ V4(a, b, c, d).bytes = <<a, b, c, d>>
    BY DEF V4
  <2>2. isPrivateIpv4(V4(a, b, c, d)) <=>
          \E range \in PRIVATE_CIDR_RANGES : matchesCidr(<<a, b, c, d>>, range)
    BY <2>1 DEF isPrivateIpv4
  <2> QED
    BY <2>2, SMT DEF PRIVATE_CIDR_RANGES
<1> HIDE DEF Under
<1> QED
  BY <1>1, <1>2, <1>3, <1>4, <1>5, <1>6, <1>7, <1>8, <1>9, SMT DEF Byte

(* Every unique local address, fc00::/7, is refused (ip.util.ts:46-54).     *)
THEOREM UniqueLocalRefused ==
    \A group \in 64512..65023 : \A protocol, loopback :
        ~Satisfies(Url(protocol, V6(group, loopback)))
BY DEF Satisfies, Url, V6, isPrivateIpv6, StartsFcFd

(* What the rules make of a name that is not local: over http and https it  *)
(* is refused exactly if it begins with fc or fd, like a unique local       *)
(* address (url.validator.ts:32-69, ip.util.ts:46-54).                      *)
THEOREM NamesAccepted ==
    \A start : \A protocol \in {"http:", "https:"} :
        Satisfies(Url(protocol, Name(start, FALSE))) <=> start \notin {"fc", "fd"}
BY DEF Satisfies, Url, Name, LocalName, isPrivateIpv4, isPrivateIpv6
=============================================================================
