-------------------------------- MODULE Keys ---------------------------------
(***************************************************************************)
(* The keys of the records of x/deployment and x/market (keeper/key.go):   *)
(* a prefix for the kind of record, then the fields of the identifier, in  *)
(* bytes of fixed number, the numbers with the highest byte first.  The    *)
(* stores of KVStore are functions on identifiers, and the keepers rely on *)
(* the bytes for what these functions take for granted.                    *)
(***************************************************************************)
EXTENDS Naturals, Sequences, SequencesExt

CONSTANTS
    Base,     \* values of a byte
    AddrLen,  \* bytes of an address (sdk.AddrLen)
    Long,     \* bytes of a DSeq, a uint64
    Short     \* bytes of a GSeq or an OSeq, uint32s

\* Mutant: the lowest byte first.
LittleEndian(n, width) == [i \in 1 .. width |-> (n \div Base^(i - 1)) % Base]

\* binary.Write(buf, binary.BigEndian, n)
BigEndian(n, width) == [i \in 1 .. width |-> (n \div Base^(width - i)) % Base]

Address(a) == BigEndian(a, AddrLen)

deploymentKey(id) == <<1>> \o Address(id[1]) \o BigEndian(id[2], Long)

groupsKey(did) == <<2>> \o Address(did[1]) \o BigEndian(did[2], Long)

groupKey(id) == groupsKey(id[1]) \o BigEndian(id[2], Short)

\* What orderKey, bidKey and leaseKey write of an order's identifier.
OrderFields(id) ==
    Address(id[1][1][1]) \o BigEndian(id[1][1][2], Long) \o BigEndian(id[1][2], Short)
    \o BigEndian(id[2], Short)

orderKey(id) == <<1, 0>> \o OrderFields(id)

bidKey(id) == <<2, 0>> \o OrderFields(id[1]) \o Address(id[2])

leaseKey(id) == <<3, 0>> \o OrderFields(id[1]) \o Address(id[2])

\* sdk.KVStorePrefixIterator meets the key, and meets one key before another.
Meets(prefix, key) == IsPrefix(prefix, key)

Before(key, other) ==
    \/ IsStrictPrefix(key, other)
    \/ \E i \in DOMAIN key \cap DOMAIN other :
          key[i] < other[i] /\ SubSeq(key, 1, i - 1) = SubSeq(other, 1, i - 1)
=============================================================================
