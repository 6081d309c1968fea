------------------------------- MODULE Bitset -------------------------------
(* src/common/bitset.rs: a set of indices below Capacity, kept as words of
   WordBits bits (64 in the code).  A word is the set of its bit numbers, a bit
   set the function of its words.  An operation that also returns whether it
   changed anything is two operators. *)
EXTENDS Integers, Sequences, FiniteSets

CONSTANTS Capacity, WordBits

ASSUME CapacityAssumption == Capacity \in Nat /\ WordBits \in Nat \ {0}

Index == 0 .. Capacity - 1
NumWords == (Capacity + WordBits - 1) \div WordBits
Word == 0 .. NumWords - 1
Bit == 0 .. WordBits - 1
Bitsets == [Word -> SUBSET Bit]

Empty == [w \in Word |-> {}]
WordOf(i) == i \div WordBits
BitOf(i) == i % WordBits

InsertBit(b, i) == [b EXCEPT ![WordOf(i)] = @ \cup {BitOf(i)}]
RemoveBit(b, i) == [b EXCEPT ![WordOf(i)] = @ \ {BitOf(i)}]
ContainsBit(b, i) == i < Capacity /\ BitOf(i) \in b[WordOf(i)]
IsEmpty(b) == \A w \in Word : b[w] = {}

(* Word by word; the flag remembers a change in any word. *)
UnionWith(a, b) == [w \in Word |-> a[w] \cup b[w]]
TransferNoKill(gen, kill, out) == [w \in Word |-> gen[w] \cup out[w]]
Transfer(gen, kill, out) == [w \in Word |-> gen[w] \cup (out[w] \ kill[w])]
Differ(a, b) == \E w \in Word : a[w] # b[w]

(* The population counts of the words, added up. *)
Size(b) ==
  LET counted[w \in 0 .. NumWords] ==
        IF w = 0 THEN 0 ELSE counted[w - 1] + Cardinality(b[w - 1])
  IN  counted[NumWords]

(* Iter: the lowest bit of a word is yielded and cleared until none is left,
   then the next word is taken, over however many empty ones. *)
Lowest(c) == CHOOSE x \in c : \A y \in c : x <= y
IndicesIn(b, w) ==
  LET bits == Cardinality(b[w])
      current[k \in 0 .. bits] ==
        IF k = 0 THEN b[w] ELSE current[k - 1] \ {Lowest(current[k - 1])}
  IN  [k \in 1 .. bits |-> w * WordBits + Lowest(current[k - 1])]
IterUpTo(b, n) ==
  LET yielded[w \in 0 .. n] ==
        IF w = 0 THEN <<>> ELSE yielded[w - 1] \o IndicesIn(b, w - 1)
  IN  yielded[n]
IterToFirstGap(b) == IterUpTo(b, Cardinality({w \in Word : \A x \in 0 .. w : b[x] # {}}))
Iter(b) == IterUpTo(b, NumWords)

(* The set a bit set stands for. *)
Facts(b) == {i \in Index : ContainsBit(b, i)}
=============================================================================
