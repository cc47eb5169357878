------------------------------ MODULE SockCsum ------------------------------
(***************************************************************************)
(* The checksums of src/sock/csum.c.  A byte is a number below Byte, 256   *)
(* in the code; a short has two bytes and an int four.  Messages are       *)
(* sequences of bytes, at an address of any alignment.                     *)
(***************************************************************************)
EXTENDS Integers, Sequences

CONSTANTS
  Byte,                  \* how many values a byte has
  Messages,              \* what a packet may hold
  Addresses, Addresses6, \* IPv4 and IPv6 addresses: four and sixteen bytes
  ProtoTcp               \* IPPROTO_TCP

ASSUME CsumConstants ==
  /\ Byte \in Nat \ {0, 1}
  /\ \A m \in Messages : m \in Seq(0 .. Byte - 1) /\ Len(m) < Byte * Byte   \* the length field is a short
  /\ ProtoTcp \in 0 .. Byte - 1
  /\ Addresses \subseteq [1 .. 4 -> 0 .. Byte - 1] /\ Addresses6 \subseteq [1 .. 16 -> 0 .. Byte - 1]

VARIABLE packet          \* what is filled in, and the machine's byte order

Short == Byte * Byte
Word == Short * Short

\* A load from memory of two or four bytes, at place i.
Load16(b, i, big) == IF big THEN b[i] * Byte + b[i + 1] ELSE b[i] + b[i + 1] * Byte
Load32(b, i, big) ==
  IF big THEN Load16(b, i, big) * Short + Load16(b, i + 2, big)
         ELSE Load16(b, i, big) + Load16(b, i + 2, big) * Short

FoldOnce(x) == (x % Short) + (x \div Short)

\* from32to16
From32To16(x) == FoldOnce(FoldOnce(x))

\* Mutant: the carry of the addition before is forgotten.
BugAddWord(acc, w) == LET sum == (acc.sum + w) % Word IN [sum |-> sum, carry |-> IF w > sum THEN 1 ELSE 0]

\* The loop of do_csum: carry is what the addition before left over.
AddWord(acc, w) ==
  LET sum == (acc.sum + acc.carry + w) % Word IN [sum |-> sum, carry |-> IF w > sum THEN 1 ELSE 0]

\* ... over n words of b, behind the place where it is.
AddWords(sum, b, at, n, big) ==
  LET acc[k \in 0 .. n] ==
        IF k = 0 THEN [sum |-> sum, carry |-> 0] ELSE AddWord(acc[k - 1], Load32(b, at + 4 * k - 3, big))
  IN  IF n = 0 THEN sum ELSE FoldOnce((acc[n].sum + acc[n].carry) % Word)

\* The short and the byte that are left behind the words.
AddRest(sum, b, at, big) ==
  LET left == Len(b) - at
  IN  sum + (IF left >= 2 THEN Load16(b, at + 1, big) ELSE 0)
          + (IF left % 2 = 0 THEN 0 ELSE IF big THEN b[Len(b)] * Byte ELSE b[Len(b)])

\* do_csum.  At an odd address everything is shifted by a byte and swapped at the end.
DoCsum(buff, addr, big) ==
  LET odd == addr % 2
      first == IF odd = 0 THEN 0 ELSE IF big THEN buff[1] ELSE buff[1] * Byte
      half == Len(buff) - odd >= 2 /\ (addr + odd) % 4 = 2
      start == IF half THEN first + Load16(buff, odd + 1, big) ELSE first
      at == IF half THEN odd + 2 ELSE odd
      n == (Len(buff) - at) \div 4
      sum == From32To16(AddRest(AddWords(start, buff, at, n, big), buff, at + 4 * n, big))
  IN  IF buff = <<>> THEN 0
      ELSE IF odd = 1 THEN (sum \div Byte) + (sum % Byte) * Byte ELSE sum

\* csum_partial
CsumPartial(buff, addr, big, wsum) ==
  LET sum == (DoCsum(buff, addr, big) + wsum) % Word IN IF wsum > sum THEN sum + 1 ELSE sum

\* csum_fold
CsumFold(sum) == Short - 1 - From32To16(sum)

\* csum_tcpudp_nofold and csum_tcpudp_magic; from64to32 folds twice.
CsumTcpudpMagic(src, dst, len, proto, big, sum) ==
  LET s == sum + Load32(src, 1, big) + Load32(dst, 1, big) + (proto + len) * (IF big THEN 1 ELSE Byte)
      fold(x) == (x % Word) + (x \div Word)
  IN  CsumFold(fold(fold(s)))

\* An int with the highest byte first, and htobe32: such an int, as it is loaded.
Int32(x) == <<x \div (Short * Byte), (x \div Short) % Byte, (x \div Byte) % Byte, x % Byte>>
Htobe32(x, big) == Load32(Int32(x), 1, big)

\* csum_ipv6_magic: additions with the carry at once.
AddCarry(sum, w) == LET s == (sum + w) % Word IN IF s < w THEN s + 1 ELSE s
CsumIpv6Magic(src, dst, len, proto, big, sum) ==
  LET word(k) == CASE k \in 1 .. 4 -> Load32(src, 4 * k - 3, big)
                   [] k \in 5 .. 8 -> Load32(dst, 4 * (k - 4) - 3, big)
                   [] k = 9         -> Htobe32(len, big)
                   [] k = 10        -> Htobe32(proto, big)
      acc[k \in 0 .. 10] == IF k = 0 THEN sum ELSE AddCarry(acc[k - 1], word(k))
  IN  CsumFold(acc[10])

\* neb_sock_csum_tcp4_fill, _tcp6_fill, _icmp4_fill and _ip4_fill; the field is zero.
Fill(p) ==
  LET partial == CsumPartial(p.data, p.addr, p.big, 0)
  IN  CASE p.kind = "tcp4" -> CsumTcpudpMagic(p.src, p.dst, Len(p.data), ProtoTcp, p.big, partial)
        [] p.kind = "tcp6" -> CsumIpv6Magic(p.src, p.dst, Len(p.data), ProtoTcp, p.big, partial)
        [] p.kind = "icmp4" -> CsumFold(partial)
        [] p.kind = "ip4" -> Short - 1 - DoCsum(p.data, p.addr, p.big)

CsumInit ==
  \E kind \in {"tcp4", "tcp6", "icmp4", "ip4"}, big \in BOOLEAN, addr \in 0 .. 3, data \in Messages :
    \E src, dst \in (IF kind = "tcp6" THEN Addresses6 ELSE Addresses) :
      /\ kind = "ip4" => Len(data) % 4 = 0
      /\ kind \in {"ip4", "icmp4"} => src = dst /\ src = CHOOSE a \in Addresses : TRUE
      /\ packet = [kind |-> kind, big |-> big, addr |-> addr, src |-> src, dst |-> dst, data |-> data]

-----------------------------------------------------------------------------
\* RFC 1071: the sum of the 16-bit words of b in memory order, the last byte padded
\* with 0.  PartialSums has the sums of the first k words from a place on.
Padded(b) == [i \in 1 .. 2 * Len(b) + 1 |-> IF i =< Len(b) THEN b[i] ELSE 0]
PartialSums(b, at, big) ==
  LET sum[k \in 0 .. Len(b)] == IF k = 0 THEN 0 ELSE sum[k - 1] + Load16(Padded(b), at + 2 * k - 1, big)
  IN  sum
Sum16(b, big) == PartialSums(b, 0, big)[(Len(b) + 1) \div 2]

\* The pseudo header (RFC 793, RFC 8200).
Pseudo(p) ==
  LET len == Len(p.data)
  IN  CASE p.kind = "tcp4" -> p.src \o p.dst \o <<0, ProtoTcp, len \div Byte, len % Byte>>
        [] p.kind = "tcp6" -> p.src \o p.dst \o Int32(len) \o Int32(ProtoTcp)
        [] OTHER -> <<>>

(***************************************************************************)
(* Whatever the alignment, the length and the byte order, and whatever     *)
(* carries there are, what is filled in is the complement of the one's     *)
(* complement sum: a receiver's sum over everything is all ones.           *)
(***************************************************************************)
ChecksumRight ==
  LET total == Sum16(Pseudo(packet), packet.big) + Sum16(packet.data, packet.big) + Fill(packet)
  IN  Fill(packet) \in 0 .. Short - 1 /\ total > 0 /\ total % (Short - 1) = 0
=============================================================================
