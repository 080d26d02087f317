--------------------------- MODULE CssSearchProofs ---------------------------
(***************************************************************************)
(* Proofs about TitleKeys, and about CssSearch and CssAuth.  Of the first: *)
(* keys survive the cache file, a hash has one line, what is known of a    *)
(* disc stays known, and on every regular disc keys are at their titles'   *)
(* numbers.  Of the others: the search block by block behind an            *)
(* authentication each is the search of TitleKeys, so that what is proved  *)
(* of keys and cache holds there too; every AGID is accounted for; and a   *)
(* drive whose commands succeed refuses no block.                          *)
(***************************************************************************)
EXTENDS CssSearch, TLAPS, SequenceTheorems, FiniteSetTheorems

(***************************************************************************)
(* Sequences of keys                                                       *)
(***************************************************************************)

LEMMA NoKeyIsKey == NoKey \in Key
  BY DEF NoKey, Key, KeyLen

(* Appending one key leaves the keys before it where they are.             *)
LEMMA OneMore ==
  ASSUME NEW keys \in Seq(Key), NEW k \in Key
  PROVE  /\ keys \o <<k>> \in Seq(Key)
         /\ Len(keys \o <<k>>) = Len(keys) + 1
         /\ \A i \in 1..Len(keys) : (keys \o <<k>>)[i] = keys[i]
         /\ (keys \o <<k>>)[Len(keys) + 1] = k
<1>1. <<k>> \in Seq(Key) /\ Len(<<k>>) = 1 /\ <<k>>[1] = k
  OBVIOUS
<1>2. /\ keys \o <<k>> \in Seq(Key)
      /\ Len(keys \o <<k>>) = Len(keys) + 1
      /\ \A i \in 1 .. Len(keys) + 1 :
           (keys \o <<k>>)[i] = IF i <= Len(keys) THEN keys[i] ELSE <<k>>[i - Len(keys)]
  BY <1>1, ConcatProperties
<1>3. Len(keys) \in Nat
  OBVIOUS
<1> QED
  BY <1>1, <1>2, <1>3

LEMMA NoneMore ==
  ASSUME NEW keys \in Seq(Key)
  PROVE  keys \o <<>> = keys
  BY ConcatEmptySeq

(***************************************************************************)
(* The digits of the cache file                                            *)
(***************************************************************************)

(* The n-th digit is of an existing byte of an existing key.               *)
LEMMA DigitPlace ==
  ASSUME NEW l \in Nat, NEW n \in 1 .. 10 * l
  PROVE  /\ 1 + (n - 1) \div 10 \in 1..l
         /\ 1 + ((n - 1) % 10) \div 2 \in 1..5
<1>1. (n - 1) \div 10 \in 0 .. l - 1
  OBVIOUS
<1>2. (n - 1) % 10 \in 0..9
  OBVIOUS
<1>3. ((n - 1) % 10) \div 2 \in 0..4
  BY <1>2
<1> QED
  BY <1>1, <1>3

LEMMA HexLength ==
  ASSUME NEW keys \in Seq(Key)
  PROVE  /\ HexOf(keys) \in Seq(0..15)
         /\ Len(HexOf(keys)) = 10 * Len(keys)
<1>1. Len(keys) \in Nat
  OBVIOUS
<1>2. ASSUME NEW n \in 1 .. 10 * Len(keys)
      PROVE  LET byte == keys[1 + (n - 1) \div 10][1 + ((n - 1) % 10) \div 2]
             IN  (IF n % 2 = 1 THEN byte \div 16 ELSE byte % 16) \in 0..15
  <2> DEFINE byte == keys[1 + (n - 1) \div 10][1 + ((n - 1) % 10) \div 2]
  <2>1. keys[1 + (n - 1) \div 10] \in Key
    BY <1>1, DigitPlace
  <2>2. byte \in 0..255
    BY <2>1, <1>1, DigitPlace DEF Key, KeyLen
  <2> HIDE DEF byte
  <2>3. byte \div 16 \in 0..15 /\ byte % 16 \in 0..15
    BY <2>2
  <2> QED
    BY <2>3 DEF byte
<1>3. HexOf(keys) = [n \in 1 .. 10 * Len(keys) |->
                       LET byte == keys[1 + (n - 1) \div 10][1 + ((n - 1) % 10) \div 2]
                       IN  IF n % 2 = 1 THEN byte \div 16 ELSE byte % 16]
  BY <1>1 DEF HexOf, KeyDigits
<1>4. HexOf(keys) \in [1 .. 10 * Len(keys) -> 0..15]
  BY <1>2, <1>3
<1>5. 10 * Len(keys) \in Nat
  BY <1>1
<1>6. HexOf(keys) \in Seq(0..15)
  BY <1>4, <1>5, SeqDef, SMTT(30)
<1>7. DOMAIN HexOf(keys) = 1 .. 10 * Len(keys)
  BY <1>4
<1>8. Len(HexOf(keys)) \in Nat /\ DOMAIN HexOf(keys) = 1..Len(HexOf(keys))
  BY <1>6, LenProperties
<1>9. Len(HexOf(keys)) = 10 * Len(keys)
  BY <1>5, <1>7, <1>8
<1> QED
  BY <1>6, <1>9

LEMMA Nibbles ==
  ASSUME NEW x \in 0..255
  PROVE  16 * (x \div 16) + (x % 16) = x
  OBVIOUS

(* hexStringToKeys undoes keyToHexString.                                  *)
LEMMA RoundTrip ==
  ASSUME NEW keys \in Seq(Key)
  PROVE  KeysOf(HexOf(keys)) = keys
<1> DEFINE hex == HexOf(keys)
<1>1. Len(keys) \in Nat
  OBVIOUS
<1>2. hex \in Seq(0..15) /\ Len(hex) = 10 * Len(keys)
  BY HexLength
<1>3. ASSUME NEW n \in 1 .. 10 * Len(keys)
      PROVE  hex[n] = IF n % 2 = 1
                      THEN keys[1 + (n - 1) \div 10][1 + ((n - 1) % 10) \div 2] \div 16
                      ELSE keys[1 + (n - 1) \div 10][1 + ((n - 1) % 10) \div 2] % 16
  BY <1>1 DEF HexOf, KeyDigits
<1> HIDE DEF hex
<1>4. Len(hex) % 10 = 0 /\ Len(hex) \div 10 = Len(keys)
  BY <1>1, <1>2
<1>5. KeysOf(hex) = [k \in 1..Len(keys) |->
                       [b \in 1..5 |-> 16 * hex[(k - 1) * 10 + (b - 1) * 2 + 1]
                                       + hex[(k - 1) * 10 + (b - 1) * 2 + 2]]]
  BY <1>4, <1>1 DEF KeysOf, KeyDigits, KeyLen
<1>6. ASSUME NEW k \in 1..Len(keys), NEW b \in 1..5
      PROVE  16 * hex[(k - 1) * 10 + (b - 1) * 2 + 1] + hex[(k - 1) * 10 + (b - 1) * 2 + 2]
               = keys[k][b]
  <2> DEFINE p == (k - 1) * 10 + (b - 1) * 2
             byte == keys[k][b]
  <2>1. byte \in 0..255
    <3>1. keys[k] \in Key
      BY ElementOfSeq
    <3> QED
      BY <3>1 DEF Key, KeyLen
  <2>2. /\ p + 1 \in 1 .. 10 * Len(keys) /\ p + 2 \in 1 .. 10 * Len(keys)
        /\ (p + 1) % 2 = 1 /\ (p + 2) % 2 = 0
        /\ ((p + 1) - 1) \div 10 = k - 1 /\ ((p + 2) - 1) \div 10 = k - 1
        /\ ((p + 1) - 1) % 10 = (b - 1) * 2 /\ ((p + 2) - 1) % 10 = (b - 1) * 2 + 1
        /\ ((b - 1) * 2) \div 2 = b - 1 /\ ((b - 1) * 2 + 1) \div 2 = b - 1
    BY <1>1
  <2>3. ASSUME NEW n \in 1 .. 10 * Len(keys), n % 2 = 1,
               (n - 1) \div 10 = k - 1, (n - 1) % 10 = (b - 1) * 2
        PROVE  hex[n] = keys[k][b] \div 16
    <3>1. 1 + (n - 1) \div 10 = k /\ 1 + ((n - 1) % 10) \div 2 = b
      BY <2>2, <2>3
    <3> QED
      BY <1>3, <2>3, <3>1
  <2>4. ASSUME NEW n \in 1 .. 10 * Len(keys), n % 2 = 0,
               (n - 1) \div 10 = k - 1, (n - 1) % 10 = (b - 1) * 2 + 1
        PROVE  hex[n] = keys[k][b] % 16
    <3>1. 1 + (n - 1) \div 10 = k /\ 1 + ((n - 1) % 10) \div 2 = b
      BY <2>2, <2>4
    <3>2. n % 2 # 1
      BY <2>4
    <3> QED
      BY <1>3, <3>1, <3>2
  <2>5. hex[p + 1] = byte \div 16 /\ hex[p + 2] = byte % 16
    <3>1. /\ p + 1 \in 1 .. 10 * Len(keys) /\ (p + 1) % 2 = 1
          /\ ((p + 1) - 1) \div 10 = k - 1 /\ ((p + 1) - 1) % 10 = (b - 1) * 2
      BY <2>2
    <3>2. /\ p + 2 \in 1 .. 10 * Len(keys) /\ (p + 2) % 2 = 0
          /\ ((p + 2) - 1) \div 10 = k - 1 /\ ((p + 2) - 1) % 10 = (b - 1) * 2 + 1
      BY <2>2
    <3> DEFINE m == p + 1
               n == p + 2
    <3>3. hex[m] = byte \div 16
      <4> HIDE DEF p
      <4> SUFFICES /\ m \in 1 .. 10 * Len(keys) /\ m % 2 = 1
                   /\ (m - 1) \div 10 = k - 1 /\ (m - 1) % 10 = (b - 1) * 2
        BY <2>3
      <4> QED
        BY <3>1
    <3>4. hex[n] = byte % 16
      <4> HIDE DEF p
      <4> SUFFICES /\ n \in 1 .. 10 * Len(keys) /\ n % 2 = 0
                   /\ (n - 1) \div 10 = k - 1 /\ (n - 1) % 10 = (b - 1) * 2 + 1
        BY <2>4
      <4> QED
        BY <3>2
    <3> QED
      BY <3>3, <3>4
  <2>6. 16 * (byte \div 16) + (byte % 16) = byte
    BY <2>1, Nibbles
  <2>7. 16 * hex[p + 1] + hex[p + 2] = byte
    <3> HIDE DEF byte, p
    <3> QED
      BY <2>5, <2>6
  <2> QED
    BY <2>7
<1>7. \A k \in 1..Len(keys) :
         /\ keys[k] = [b \in 1..5 |-> keys[k][b]]
  BY DEF Key, KeyLen
<1>8. keys = [k \in 1..Len(keys) |-> keys[k]]
  OBVIOUS
<1>9. KeysOf(hex) = [k \in 1..Len(keys) |-> [b \in 1..5 |-> keys[k][b]]]
  BY <1>5, <1>6
<1> QED
  BY <1>7, <1>8, <1>9 DEF hex

(***************************************************************************)
(* The search for one key                                                  *)
(***************************************************************************)

LEMMA CrackType ==
  ASSUME NEW d \in Discs, NEW f \in File
  PROVE  Crack(d, f) \in Seq(Key)
<1> DEFINE n == Length(d, f)
<1>1. ASSUME Exists(d, f, n)
      PROVE  Nth(d, f, n).key \in Key
  <2>1. Blocks[d] \in Seq(Block)
    BY DiscAssumption
  <2> HIDE DEF n
  <2>2. Nth(d, f, n) \in Block
    BY <1>1, <2>1, LenProperties, ElementOfSeq DEF Exists, Nth
  <2> QED
    BY <2>2 DEF Block
<1> HIDE DEF n
<1>2. ASSUME NEW k \in Key PROVE <<k>> \in Seq(Key)
  OBVIOUS
<1>3. <<>> \in Seq(Key)
  OBVIOUS
<1> QED
  BY <1>1, <1>2, <1>3, NoKeyIsKey DEF Crack, n

(* A search ends where it first can.                                       *)
LEMMA LengthIs ==
  ASSUME NEW d \in Discs, NEW f \in File, NEW n \in 1 .. Len(Blocks[d]) + 1,
         Ends(d, f, n), \A m \in 1..n-1 : ~Ends(d, f, m)
  PROVE  Length(d, f) = n
<1>1. Len(Blocks[d]) \in Nat
  BY DiscAssumption, LenProperties
<1> DEFINE P(k) == Ends(d, f, k) /\ \A m \in 1..k-1 : ~Ends(d, f, m)
           N == 1 .. Len(Blocks[d]) + 1
<1>2. \E k \in N : P(k)
  OBVIOUS
<1>3. Length(d, f) \in N /\ P(Length(d, f))
  <2> HIDE DEF P, N
  <2>1. Length(d, f) = CHOOSE k \in N : P(k)
    BY DEF Length, P, N
  <2> QED
    BY <1>2, <2>1
<1>4. Length(d, f) \in Int /\ n \in Int
  BY <1>1, <1>3
<1>5. CASE Length(d, f) < n
  <2>1. Length(d, f) \in 1..n-1
    BY <1>3, <1>4, <1>5, <1>1
  <2> QED
    BY <2>1, <1>3
<1>6. CASE n < Length(d, f)
  <2>1. n \in 1..Length(d, f)-1
    BY <1>4, <1>6, <1>1
  <2> QED
    BY <2>1, <1>3
<1> QED
  BY <1>4, <1>5, <1>6

LEMMA VobFacts ==
  ASSUME NEW d \in Discs, NEW t \in Titles(d)
  PROVE  /\ t \in Nat
         /\ FirstVob(d, t) \in File
         /\ <<t, 0>> \in DOMAIN Vob[d] => FirstVob(d, t) = Vob[d][<<t, 0>>]
         /\ <<t, 0>> \notin DOMAIN Vob[d] =>
              /\ t # 0
              /\ <<t, 1>> \in DOMAIN Vob[d]
              /\ FirstVob(d, t) = Vob[d][<<t, 1>>]
<1>1. PICK v \in DOMAIN Vob[d] : t = v[1]
  BY DEF Titles
<1>2. v \in (Nat \X Parts) \ {<<0, 1>>}
  BY <1>1, DiscAssumption
<1>3. t \in Nat /\ (v = <<t, 0>> \/ v = <<t, 1>>) /\ v # <<0, 1>>
  BY <1>1, <1>2 DEF Parts
<1>4. \A w \in DOMAIN Vob[d] : Vob[d][w] \in File
  BY DiscAssumption
<1> QED
  BY <1>1, <1>3, <1>4 DEF FirstVob

\* The position in a file of a block that is not its first.
LEMMA PositionIs ==
  ASSUME NEW last \in Nat, NEW lba \in Nat \ {0}, NEW size \in Nat, NEW n \in Nat,
         last <= n, lba < last, last < lba + size
  PROVE  LET o == last - lba + 1
         IN o \in Nat /\ o >= 2 /\ o <= n /\ o <= size /\ lba + o - 1 = last
  OBVIOUS

(* On a regular disc a search that does not fail finds the title's key,    *)
(* and something if the title is not protected.                            *)
LEMMA Found ==
  ASSUME NEW d \in Discs, Regular(d), NEW t \in Titles(d)
  PROVE  \E k \in Key : /\ Crack(d, FirstVob(d, t)) = <<k>>
                        /\ \A i \in Protected(d, t) : Blocks[d][i].key = k
<1> DEFINE f == FirstVob(d, t)
           D == DOMAIN Blocks[d]
<1>1. f \in File
  BY VobFacts
<1>2. f.lba \in Nat \ {0} /\ f.size \in Nat \ {0} /\ MaxClear \in Nat
  BY <1>1, BoundAssumption DEF File
<1>3. PICK last \in D :
        /\ f.lba <= last /\ last < f.lba + f.size
        /\ \A i \in f.lba .. last - 1 :
             i \in BlocksOf(d, t) /\ Blocks[d][i].text \in {"clear", "tough"}
        /\ \/ /\ last \in BlocksOf(d, t) /\ Blocks[d][last].text = "weak"
              /\ last - f.lba < MaxClear
           \/ /\ Protected(d, t) = {} /\ f.lba < last
              /\ Blocks[d][last].text = "other"
  BY DEF Regular, Yields
<1>4. Blocks[d] \in Seq(Block)
  BY DiscAssumption
<1>5. D = 1..Len(Blocks[d]) /\ Len(Blocks[d]) \in Nat /\ \A i \in D : Blocks[d][i] \in Block
  BY <1>4, LenProperties, ElementOfSeq
<1>6. \A i, j \in Protected(d, t) : Blocks[d][i].key = Blocks[d][j].key
  BY DEF Regular
<1>7. BlocksOf(d, t) \subseteq D
  BY DEF BlocksOf
<1> HIDE DEF f, D
<1>8. \A n \in Nat : f.lba <= f.lba + n - 1 /\ f.lba + n - 1 < last =>
        /\ Exists(d, f, n)
        /\ Nth(d, f, n).text \in {"clear", "tough"}
        /\ f.lba + n - 1 \in BlocksOf(d, t)
  BY SMTT(20), <1>2, <1>3, <1>5, <1>7 DEF Exists, Nth, D
<1>9. CASE last \in BlocksOf(d, t) /\ Blocks[d][last].text = "weak" /\ last - f.lba < MaxClear
  <2> DEFINE n == last - f.lba + 1
  <2>1. n \in 1 .. Len(Blocks[d]) + 1 /\ f.lba + n - 1 = last
    BY <1>2, <1>3, <1>5
  <2>2. Exists(d, f, n) /\ Nth(d, f, n) = Blocks[d][last]
    BY <2>1, <1>3 DEF Exists, Nth, D
  <2>3. \A m \in 1..n-1 : ~Ends(d, f, m)
    <3> TAKE m \in 1..n-1
    <3>1. /\ m \in Nat /\ f.lba <= f.lba + m - 1 /\ f.lba + m - 1 < last
          /\ ~(m >= f.size) /\ ~(m >= MaxClear)
      BY <1>2, <1>3, <1>5, <1>9, <2>1, SMTT(30)
    <3>2. Exists(d, f, m) /\ Nth(d, f, m).text \in {"clear", "tough"}
      BY <3>1, <1>8
    <3> QED
      BY <3>1, <3>2 DEF Ends
  <2>4. Ends(d, f, n)
    BY <2>2, <1>9 DEF Ends
  <2> HIDE DEF n
  <2>5. Length(d, f) = n
    BY <1>1, <2>1, <2>3, <2>4, LengthIs
  <2>6. Crack(d, f) = <<Blocks[d][last].key>>
    BY <2>2, <2>5, <1>9 DEF Crack
  <2>7. last \in Protected(d, t)
    BY <1>9 DEF Protected, Scrambled
  <2>8. Blocks[d][last].key \in Key
    BY <1>3, <1>5 DEF Block
  <2> QED
    BY <2>6, <2>7, <2>8, <1>6 DEF f
<1>10. CASE Protected(d, t) = {} /\ f.lba < last /\ Blocks[d][last].text = "other"
  <2> DEFINE o == last - f.lba + 1
             Limit == IF MaxClear = 0 THEN 1 ELSE MaxClear
             n == IF Limit < o THEN Limit ELSE o
  <2>1. o \in Nat /\ o >= 2 /\ o <= Len(Blocks[d]) /\ o <= f.size /\ f.lba + o - 1 = last
    <3>1. last \in Nat /\ last <= Len(Blocks[d]) /\ Len(Blocks[d]) \in Nat
      BY <1>5
    <3>2. f.lba < last /\ last < f.lba + f.size
      BY <1>3, <1>10
    <3> QED
      BY <3>1, <3>2, <1>2, PositionIs
  <2>0. (MaxClear = 0 => Limit = 1) /\ (MaxClear # 0 => Limit = MaxClear)
    OBVIOUS
  <2> HIDE DEF o, Limit
  <2>2. /\ Limit \in Nat /\ Limit >= 1 /\ Limit >= MaxClear
        /\ Limit = MaxClear \/ Limit = 1
    BY <2>0, <1>2
  <2>3. n \in 1 .. Len(Blocks[d]) + 1 /\ n <= o /\ n <= Limit /\ (n = o \/ n >= MaxClear)
    BY <2>1, <2>2, <1>2, <1>5
  <2> HIDE DEF n
  <2>4. \A m \in 1 .. o - 1 : Exists(d, f, m) /\ Nth(d, f, m).text = "clear"
    <3> TAKE m \in 1 .. o - 1
    <3>1. m \in Nat /\ f.lba <= f.lba + m - 1 /\ f.lba + m - 1 < last
      BY <2>1, <1>2, <1>3, <1>5
    <3>2. /\ Exists(d, f, m) /\ Nth(d, f, m).text \in {"clear", "tough"}
          /\ f.lba + m - 1 \in BlocksOf(d, t)
      BY <3>1, <1>8
    <3>3. ~Scrambled(Blocks[d][f.lba + m - 1])
      BY <3>2, <1>10 DEF Protected
    <3> QED
      BY <3>2, <3>3 DEF Nth, Scrambled
  <2>5. Exists(d, f, o) /\ Nth(d, f, o).text = "other"
    BY <2>1, <1>3, <1>10 DEF Exists, Nth, D
  <2>6. \A m \in 1..o : ~Scrambled(Nth(d, f, m))
    <3> TAKE m \in 1..o
    <3>1. m \in 1 .. o - 1 \/ m = o
      BY <2>1
    <3> QED
      BY <3>1, <2>4, <2>5 DEF Scrambled
  <2>7. Ends(d, f, n)
    <3>1. CASE n = o
      BY <3>1, <2>5 DEF Ends
    <3>2. CASE n >= MaxClear
      <4>1. \A i \in 1..n : ~Scrambled(Nth(d, f, i))
        BY <2>6, <2>3, <2>1, <1>5
      <4> QED
        BY <4>1, <3>2 DEF Ends
    <3> QED
      BY <3>1, <3>2, <2>3
  <2>8. \A m \in 1..n-1 : ~Ends(d, f, m)
    <3> TAKE m \in 1..n-1
    <3>1. m \in 1 .. o - 1 /\ ~(m >= f.size) /\ ~(m >= MaxClear)
      BY <2>1, <2>2, <2>3, <1>2, <1>5
    <3> QED
      BY <3>1, <2>4 DEF Ends
  <2>9. Length(d, f) = n
    BY <1>1, <2>3, <2>7, <2>8, LengthIs
  <2>10. Exists(d, f, n) /\ Nth(d, f, n).text \in {"clear", "other"}
    <3>1. n \in 1 .. o - 1 \/ n = o
      BY <2>1, <2>3, <1>5
    <3> QED
      BY <3>1, <2>4, <2>5
  <2>11. 1 \in {i \in 1..n : Exists(d, f, i) /\ Nth(d, f, i).text # "other"}
    <3>1. 1 \in 1..n /\ 1 \in 1 .. o - 1
      BY <2>1, <2>3, <1>5
    <3> QED
      BY <3>1, <2>4
  <2>12. \A i \in 1..n : ~Scrambled(Nth(d, f, i))
    BY <2>6, <2>3, <2>1, <1>5
  <2>13. Crack(d, f) = <<NoKey>>
    BY <2>9, <2>10, <2>11, <2>12 DEF Crack
  <2> QED
    BY <2>13, <1>10, NoKeyIsKey DEF f
<1> QED
  BY <1>3, <1>9, <1>10

(***************************************************************************)
(* The keys of a disc so far                                               *)
(***************************************************************************)

(* Protected titles below n have their keys at their numbers.              *)
Upto(d, n, keys) ==
  \A t \in Titles(d) \cap 0 .. n - 1 : \A i \in Protected(d, t) :
     t + 1 \in DOMAIN keys /\ keys[t + 1] = Blocks[d][i].key

(* No title below n was passed over, as long as titles go on.              *)
Filled(d, n, keys) == (\A u \in 1 .. n - 1 : u \in Titles(d)) => Len(keys) = n

LEMMA OneFound ==
  ASSUME NEW d \in Discs, Regular(d), NEW t \in Nat,
         NEW keys \in Seq(Key), NEW k \in Key,
         Upto(d, t, keys), Filled(d, t, keys), t = 0 \/ t \in Titles(d),
         t \in Titles(d) => \A i \in Protected(d, t) : Blocks[d][i].key = k
  PROVE  Upto(d, t + 1, keys \o <<k>>) /\ Filled(d, t + 1, keys \o <<k>>)
<1> DEFINE more == keys \o <<k>>
<1>1. /\ more \in Seq(Key) /\ Len(more) = Len(keys) + 1
      /\ \A i \in 1..Len(keys) : more[i] = keys[i]
      /\ more[Len(keys) + 1] = k
  BY OneMore
<1> HIDE DEF more
<1>2. /\ DOMAIN keys = 1..Len(keys) /\ Len(keys) \in Nat
      /\ DOMAIN more = 1..Len(more)
  BY <1>1, LenProperties
<1>3. Len(keys) = t
  <2>1. \A u \in 1 .. t - 1 : u \in Titles(d)
    <3>1. t \in Titles(d) => 1..t \subseteq Titles(d)
      BY DEF Regular
    <3> QED
      BY <3>1
  <2> QED
    BY <2>1 DEF Filled
<1>4. Filled(d, t + 1, more)
  BY <1>1, <1>3 DEF Filled
<1>5. ASSUME NEW u \in Titles(d) \cap 0 .. (t + 1) - 1, NEW i \in Protected(d, u)
      PROVE  u + 1 \in DOMAIN more /\ more[u + 1] = Blocks[d][i].key
  <2>1. CASE u = t
    BY <2>1, <1>1, <1>2, <1>3
  <2>2. CASE u # t
    <3>1. u \in Titles(d) \cap 0 .. t - 1
      BY <2>2
    <3>2. u + 1 \in DOMAIN keys /\ keys[u + 1] = Blocks[d][i].key
      BY <3>1 DEF Upto
    <3> QED
      BY <3>2, <1>1, <1>2
  <2> QED
    BY <2>1, <2>2
<1> QED
  BY <1>4, <1>5 DEF Upto, more

LEMMA NoneFound ==
  ASSUME NEW d \in Discs, NEW t \in Nat \ {0}, NEW keys,
         Upto(d, t, keys), t \notin Titles(d)
  PROVE  Upto(d, t + 1, keys) /\ Filled(d, t + 1, keys)
<1>1. Upto(d, t + 1, keys)
  <2> SUFFICES ASSUME NEW u \in Titles(d) \cap 0 .. (t + 1) - 1
               PROVE  u \in 0 .. t - 1
    BY DEF Upto
  <2> QED
    OBVIOUS
<1>2. Filled(d, t + 1, keys)
  <2>1. t \in 1 .. (t + 1) - 1
    OBVIOUS
  <2> QED
    BY <2>1 DEF Filled
<1> QED
  BY <1>1, <1>2

(***************************************************************************)
(* The inductive invariant                                                 *)
(***************************************************************************)

(* Where the search is.                                                    *)
Position ==
  /\ pc \in {"menu", "title"} => title < Searched
  /\ pc = "title" => title >= 1
  /\ pc = "store" => title = Searched
  /\ pc \in {"idle", "lookup"} => titlekeys = <<>>
  /\ pc \in {"menu", "title", "store"} => of = disc

(* What an undisturbed search has found of a regular disc so far.          *)
SoFar ==
  pc \in {"menu", "title", "store"} /\ clean /\ Regular(disc) =>
    /\ Upto(disc, title, titlekeys) /\ Filled(disc, title, titlekeys)
    /\ pc = "title" => <<title, 0>> \notin DOMAIN Vob[disc]

(* What the cache holds of a regular disc from an undisturbed search.      *)
StoredWell ==
  \A i \in DOMAIN cache :
    cache[i].clean /\ Regular(cache[i].of) => Placed(cache[i].of, cache[i].keys)

Inv == TypeOK /\ OneLine /\ Faithful /\ Position /\ SoFar /\ StoredWell /\ InPlace

LEMMA UptoAll ==
  ASSUME NEW d, NEW keys
  PROVE  Upto(d, Searched, keys) <=> Placed(d, keys)
  BY DEF Upto, Placed

(* getKey finds the one line with the hash.                                *)
LEMMA FirstIs ==
  ASSUME NEW lines \in Seq(Line), NEW i \in DOMAIN lines,
         \A j, k \in DOMAIN lines : lines[j].hash = lines[k].hash => j = k
  PROVE  First(lines, lines[i].hash) = lines[i]
<1> DEFINE h == lines[i].hash
<1>1. Matches(lines, h) = {i}
  BY DEF Matches
<1>2. i \in Int
  BY LenProperties
<1>3. (CHOOSE j \in Matches(lines, h) : \A k \in Matches(lines, h) : j <= k) = i
  BY <1>1, <1>2
<1> QED
  BY <1>3 DEF First

LEMMA LineFound ==
  ASSUME TypeOK, OneLine, NEW h, getKey(cache, h) # <<>>
  PROVE  \E i \in DOMAIN cache :
           cache[i].hash = h /\ First(cache, h) = cache[i] /\ getKey(cache, h) = cache[i].hex
<1>1. Matches(cache, h) # {} /\ getKey(cache, h) = First(cache, h).hex
  BY DEF getKey
<1>2. PICK i \in DOMAIN cache : cache[i].hash = h
  BY <1>1 DEF Matches
<1>3. First(cache, h) = cache[i]
  BY <1>2, FirstIs DEF TypeOK, OneLine
<1> QED
  BY <1>1, <1>2, <1>3

LEMMA LineFacts ==
  ASSUME TypeOK, NEW i \in DOMAIN cache
  PROVE  /\ cache[i] \in Line
         /\ cache[i].keys \in Seq(Key) /\ cache[i].of \in Discs /\ cache[i].clean \in BOOLEAN
<1>1. cache[i] \in Line
  BY LenProperties, ElementOfSeq DEF TypeOK
<1> QED
  BY <1>1 DEF Line

LEMMA Initially == Init => Inv
<1> SUFFICES ASSUME Init PROVE Inv
  OBVIOUS
<1>1. TypeOK
  <2>1. <<>> \in Seq(Line) /\ <<>> \in Seq(Key)
    OBVIOUS
  <2>2. 0 \in 0..MaxFaults
    BY BoundAssumption
  <2>3. cache \in Seq(Line) /\ titlekeys \in Seq(Key) /\ faults \in 0..MaxFaults
    BY <2>1, <2>2 DEF Init
  <2>4. disc = NoDisc /\ of = NoDisc /\ pc = "idle" /\ title \in 0..Searched
    BY DEF Init, Searched
  <2>5. css \in BOOLEAN /\ clean \in BOOLEAN
    BY Zenon DEF Init
  <2> QED
    BY <2>3, <2>4, <2>5 DEF TypeOK
<1>2. OneLine /\ Faithful /\ StoredWell
  BY DEF Init, OneLine, Faithful, StoredWell
<1>3. Position /\ SoFar /\ InPlace
  BY DEF Init, Position, SoFar, InPlace, Trusted
<1> QED
  BY <1>1, <1>2, <1>3 DEF Inv

(***************************************************************************)
(* The steps                                                               *)
(***************************************************************************)

LEMMA CacheSame ==
  ASSUME OneLine, Faithful, StoredWell, UNCHANGED cache
  PROVE  OneLine' /\ Faithful' /\ StoredWell'
  BY DEF OneLine, Faithful, StoredWell

LEMMA Asked ==
  ASSUME Inv, NEW d \in Discs, AskProtection(d)
  PROVE  Inv'
<1>1. OneLine' /\ Faithful' /\ StoredWell'
  BY CacheSame DEF Inv, AskProtection
<1>2. css' \in BOOLEAN /\ faults' \in 0..MaxFaults
  <2>1. faults' \in 0..MaxFaults
    BY BoundAssumption DEF Inv, TypeOK, AskProtection
  <2>2. (d \in HasCss) \in BOOLEAN
    OBVIOUS
  <2>3. css' \in BOOLEAN
    BY <2>2, Zenon DEF AskProtection
  <2> QED
    BY <2>1, <2>3
<1>3. TypeOK'
  BY <1>2, DiscAssumption DEF Inv, TypeOK, AskProtection
<1>4. Position' /\ SoFar'
  BY DEF Inv, Position, SoFar, AskProtection
<1>5. InPlace'
  BY DEF InPlace, Trusted, AskProtection
<1> QED
  BY <1>1, <1>3, <1>4, <1>5 DEF Inv

LEMMA KeysFound ==
  ASSUME Inv, FoundKeys
  PROVE  Inv'
<1>1. OneLine' /\ Faithful' /\ StoredWell'
  BY CacheSame DEF Inv, FoundKeys
<1>2. PICK i \in DOMAIN cache : /\ First(cache, Hash[disc]) = cache[i]
                                /\ getKey(cache, Hash[disc]) = cache[i].hex
  BY LineFound DEF Inv, FoundKeys
<1>3. cache[i].keys \in Seq(Key) /\ cache[i].of \in Discs /\ cache[i].clean \in BOOLEAN
  BY LineFacts DEF Inv
<1>4. titlekeys = <<>> /\ KeysOf(cache[i].hex) = cache[i].keys
  BY DEF Inv, Position, Faithful, FoundKeys
<1>5. titlekeys' = cache[i].keys
  BY <1>2, <1>3, <1>4, ConcatEmptySeq DEF FoundKeys
<1>6. clean' = cache[i].clean /\ of' = cache[i].of /\ pc' = "mounted"
      /\ UNCHANGED <<cache, disc, css, title, faults>>
  BY <1>2 DEF FoundKeys
<1>7. TypeOK'
  BY <1>3, <1>5, <1>6 DEF Inv, TypeOK, FoundKeys
<1>8. Position' /\ SoFar'
  BY <1>6 DEF Position, SoFar
<1>9. InPlace'
  <2>1. cache[i].clean /\ Regular(cache[i].of) => Placed(cache[i].of, cache[i].keys)
    BY DEF Inv, StoredWell
  <2>2. Trusted' /\ Regular(disc') => Placed(disc', titlekeys')
    BY <1>5, <1>6, <2>1 DEF Trusted
  <2> QED
    BY <2>2 DEF InPlace, Placed
<1> QED
  BY <1>1, <1>7, <1>8, <1>9 DEF Inv

LEMMA SearchBegins ==
  ASSUME Inv, SearchKeys
  PROVE  Inv'
<1>1. OneLine' /\ Faithful' /\ StoredWell'
  BY CacheSame DEF Inv, SearchKeys
<1>2. faults' \in 0..MaxFaults
  BY BoundAssumption DEF Inv, TypeOK, SearchKeys
<1>3. disc \in Discs
  BY DEF Inv, TypeOK, SearchKeys
<1>4. TypeOK'
  BY <1>2, <1>3 DEF Inv, TypeOK, SearchKeys, Searched
<1>5. Position'
  BY DEF Position, SearchKeys, Searched
<1>6. SoFar'
  <2>1. titlekeys = <<>>
    BY DEF Inv, Position, SearchKeys
  <2>2. Upto(disc, 0, <<>>) /\ Filled(disc, 0, <<>>)
    BY DEF Upto, Filled
  <2> QED
    BY <2>1, <2>2 DEF SoFar, SearchKeys, Upto, Filled
<1>7. InPlace'
  BY DEF InPlace, Trusted, SearchKeys
<1> QED
  BY <1>1, <1>4, <1>5, <1>6, <1>7 DEF Inv

(* A step to the next title, or to the cache after the last.               *)
LEMMA TitleDone ==
  ASSUME Inv, pc \in {"menu", "title"}, NextTitle,
         UNCHANGED <<cache, disc, css, of>>,
         titlekeys' \in Seq(Key), clean' \in BOOLEAN, faults' \in 0..MaxFaults,
         clean' /\ Regular(disc) =>
           Upto(disc, title + 1, titlekeys') /\ Filled(disc, title + 1, titlekeys')
  PROVE  Inv'
<1>1. OneLine' /\ Faithful' /\ StoredWell'
  BY CacheSame DEF Inv
<1>2. title \in 0 .. Searched - 1 /\ title' = title + 1 /\ of = disc
      /\ pc' = IF title + 1 < Searched THEN "menu" ELSE "store"
  BY DEF Inv, TypeOK, Position, NextTitle, Searched
<1>3. pc' \in {"menu", "store"}
  BY <1>2
<1>4. TypeOK'
  BY <1>2, <1>3 DEF Inv, TypeOK, Searched
<1>5. Position'
  BY <1>2, <1>3 DEF Position, Searched
<1>6. SoFar'
  BY <1>2, <1>3 DEF SoFar, Upto, Filled
<1>7. InPlace'
  BY <1>3 DEF InPlace, Trusted
<1> QED
  BY <1>1, <1>4, <1>5, <1>6, <1>7 DEF Inv

(* A step from a title's menu to the title itself.                         *)
LEMMA MenuDone ==
  ASSUME Inv, pc = "menu", pc' = "title", title # 0,
         UNCHANGED <<cache, disc, css, of, title, titlekeys>>,
         clean' \in BOOLEAN, faults' \in 0..MaxFaults,
         clean' => clean,
         clean' /\ Regular(disc) => <<title, 0>> \notin DOMAIN Vob[disc]
  PROVE  Inv'
<1>1. OneLine' /\ Faithful' /\ StoredWell'
  BY CacheSame DEF Inv
<1>2. TypeOK'
  BY DEF Inv, TypeOK
<1>3. title >= 1
  BY DEF Inv, TypeOK, Searched
<1>4. Position'
  BY <1>3 DEF Inv, Position
<1>5. SoFar'
  BY DEF Inv, SoFar, Upto, Filled
<1>6. InPlace'
  BY DEF InPlace, Trusted
<1> QED
  BY <1>1, <1>2, <1>4, <1>5, <1>6 DEF Inv

(* What a search for a key leaves of types and of the ghosts.              *)
LEMMA OutcomeFacts ==
  ASSUME TypeOK, NEW f, NEW keys, Outcome(disc, f, keys)
  PROVE  /\ clean' \in BOOLEAN /\ faults' \in 0..MaxFaults
         /\ clean' => clean /\ keys = Crack(disc, f)
<1>1. CASE keys = Crack(disc, f) /\ UNCHANGED <<clean, faults>>
  BY <1>1 DEF TypeOK
<1>2. CASE keys = <<>> /\ faults < MaxFaults /\ faults' = faults + 1 /\ clean' = FALSE
  <2>1. faults' \in 0..MaxFaults
    BY <1>2, BoundAssumption DEF TypeOK
  <2>2. clean' \in BOOLEAN /\ ~clean'
    BY <1>2, Zenon
  <2> QED
    BY <2>1, <2>2
<1> QED
  BY <1>1, <1>2 DEF Outcome

LEMMA MenuSearched ==
  ASSUME Inv, SearchMenu
  PROVE  Inv'
<1>1. pc = "menu" /\ disc \in Discs /\ Menu \in DOMAIN Vob[disc] /\ Menu = <<title, 0>>
  BY DEF Inv, TypeOK, SearchMenu, Menu
<1> DEFINE f == Vob[disc][Menu]
<1>2. f \in File
  BY <1>1, DiscAssumption
<1>3. PICK keys \in {<<>>, Crack(disc, f)} :
        /\ Outcome(disc, f, keys)
        /\ titlekeys' = titlekeys \o keys
        /\ IF keys = <<>> /\ title # 0 THEN pc' = "title" /\ UNCHANGED title ELSE NextTitle
  BY DEF SearchMenu
<1>4. UNCHANGED <<cache, disc, css, of>>
  BY DEF SearchMenu
<1>5. title \in Titles(disc)
  <2>1. Menu[1] = title
    BY <1>1
  <2> QED
    BY <1>1, <2>1 DEF Titles
<1>6. f = FirstVob(disc, title)
  BY <1>1, <1>5, VobFacts
<1> HIDE DEF f
<1>7. /\ clean' \in BOOLEAN /\ faults' \in 0..MaxFaults
      /\ clean' => clean /\ keys = Crack(disc, f)
  BY <1>3, OutcomeFacts DEF Inv
<1>8. titlekeys \in Seq(Key) /\ keys \in Seq(Key) /\ titlekeys' \in Seq(Key)
  <2>1. keys \in Seq(Key)
    <3>1. <<>> \in Seq(Key)
      OBVIOUS
    <3>2. Crack(disc, f) \in Seq(Key)
      BY <1>1, <1>2, CrackType
    <3> QED
      BY <3>1, <3>2
  <2> QED
    BY <2>1, <1>3, ConcatProperties DEF Inv, TypeOK
<1>9. ASSUME clean', Regular(disc)
      PROVE  \E k \in Key : /\ keys = <<k>>
                            /\ \A i \in Protected(disc, title) : Blocks[disc][i].key = k
  BY <1>1, <1>5, <1>6, <1>7, <1>9, Found
<1>10. CASE keys = <<>> /\ title # 0
  <2>1. ~(clean' /\ Regular(disc))
    BY <1>9, <1>10
  <2>2. titlekeys' = titlekeys
    BY <1>3, <1>8, <1>10, NoneMore
  <2>3. pc' = "title" /\ UNCHANGED title
    BY <1>3, <1>10
  <2> QED
    BY <1>1, <1>4, <1>7, <1>10, <2>1, <2>2, <2>3, MenuDone
<1>11. CASE ~(keys = <<>> /\ title # 0)
  <2>1. NextTitle
    BY <1>3, <1>11
  <2>2. ASSUME clean', Regular(disc)
        PROVE  Upto(disc, title + 1, titlekeys') /\ Filled(disc, title + 1, titlekeys')
    <3>1. PICK k \in Key : /\ keys = <<k>>
                           /\ \A i \in Protected(disc, title) : Blocks[disc][i].key = k
      BY <1>9, <2>2
    <3>2. Upto(disc, title, titlekeys) /\ Filled(disc, title, titlekeys)
      BY <1>1, <1>7, <2>2 DEF Inv, SoFar
    <3>3. title \in Nat
      BY DEF Inv, TypeOK
    <3> QED
      BY <1>1, <1>3, <1>5, <1>8, <2>2, <3>1, <3>2, <3>3, OneFound
  <2> QED
    BY <1>1, <1>4, <1>7, <1>8, <2>1, <2>2, TitleDone
<1> QED
  BY <1>10, <1>11

LEMMA MenuSkipped ==
  ASSUME Inv, SkipMenu
  PROVE  Inv'
<1>1. /\ pc = "menu" /\ disc \in Discs /\ <<title, 0>> \notin DOMAIN Vob[disc]
      /\ UNCHANGED <<cache, disc, css, clean, of, faults>>
  BY DEF Inv, TypeOK, SkipMenu, Menu
<1>2. /\ clean' \in BOOLEAN /\ faults' \in 0..MaxFaults /\ clean' = clean
      /\ titlekeys \in Seq(Key) /\ title \in Nat
  BY <1>1 DEF Inv, TypeOK
<1>3. CASE title = 0
  <2>1. titlekeys' = titlekeys \o <<NoKey>> /\ NextTitle
    BY <1>3 DEF SkipMenu, ForNoMenu
  <2>2. titlekeys' \in Seq(Key)
    BY <1>2, <2>1, NoKeyIsKey, OneMore
  <2>3. title \notin Titles(disc)
    BY <1>1, <1>3, VobFacts
  <2>4. ASSUME clean', Regular(disc)
        PROVE  Upto(disc, title + 1, titlekeys') /\ Filled(disc, title + 1, titlekeys')
    <3>1. Upto(disc, title, titlekeys) /\ Filled(disc, title, titlekeys)
      BY <1>1, <1>2, <2>4 DEF Inv, SoFar
    <3> QED
      BY <1>1, <1>2, <1>3, <2>1, <2>3, <2>4, <3>1, NoKeyIsKey, OneFound
  <2> QED
    BY <1>1, <1>2, <2>1, <2>2, <2>4, TitleDone
<1>4. CASE title # 0
  <2>1. pc' = "title" /\ UNCHANGED <<title, titlekeys>>
    BY <1>4 DEF SkipMenu
  <2> QED
    BY <1>1, <1>2, <1>4, <2>1, MenuDone
<1> QED
  BY <1>3, <1>4

LEMMA TitleSearched ==
  ASSUME Inv, SearchTitle
  PROVE  Inv'
<1> DEFINE f == Vob[disc][<<title, 1>>]
<1>1. /\ pc = "title" /\ disc \in Discs /\ <<title, 1>> \in DOMAIN Vob[disc]
      /\ NextTitle /\ UNCHANGED <<cache, disc, css, of>>
  BY DEF Inv, TypeOK, SearchTitle
<1>2. f \in File
  BY <1>1, DiscAssumption
<1>3. PICK keys \in {<<>>, Crack(disc, f)} :
        Outcome(disc, f, keys) /\ titlekeys' = titlekeys \o keys
  BY DEF SearchTitle
<1>4. title \in Titles(disc)
  <2>1. <<title, 1>>[1] = title
    OBVIOUS
  <2> QED
    BY <1>1, <2>1 DEF Titles
<1>5. <<title, 0>> \notin DOMAIN Vob[disc] => f = FirstVob(disc, title)
  BY <1>1, <1>4, VobFacts
<1> HIDE DEF f
<1>6. /\ clean' \in BOOLEAN /\ faults' \in 0..MaxFaults
      /\ clean' => clean /\ keys = Crack(disc, f)
  BY <1>3, OutcomeFacts DEF Inv
<1>7. titlekeys \in Seq(Key) /\ keys \in Seq(Key) /\ titlekeys' \in Seq(Key)
  <2>1. keys \in Seq(Key)
    <3>1. <<>> \in Seq(Key)
      OBVIOUS
    <3>2. Crack(disc, f) \in Seq(Key)
      BY <1>1, <1>2, CrackType
    <3> QED
      BY <3>1, <3>2
  <2> QED
    BY <2>1, <1>3, ConcatProperties DEF Inv, TypeOK
<1>8. ASSUME clean', Regular(disc)
      PROVE  Upto(disc, title + 1, titlekeys') /\ Filled(disc, title + 1, titlekeys')
  <2>1. /\ Upto(disc, title, titlekeys) /\ Filled(disc, title, titlekeys)
        /\ <<title, 0>> \notin DOMAIN Vob[disc]
    BY <1>1, <1>6, <1>8 DEF Inv, SoFar
  <2>2. PICK k \in Key : /\ keys = <<k>>
                         /\ \A i \in Protected(disc, title) : Blocks[disc][i].key = k
    BY <1>1, <1>4, <1>5, <1>6, <1>8, <2>1, Found
  <2>3. title \in Nat
    BY DEF Inv, TypeOK
  <2> QED
    BY <1>1, <1>3, <1>4, <1>7, <1>8, <2>1, <2>2, <2>3, OneFound
<1> QED
  BY <1>1, <1>6, <1>7, <1>8, TitleDone

LEMMA TitleSkipped ==
  ASSUME Inv, SkipTitle
  PROVE  Inv'
<1>1. /\ pc = "title" /\ disc \in Discs /\ <<title, 1>> \notin DOMAIN Vob[disc]
      /\ NextTitle /\ UNCHANGED <<cache, disc, css, titlekeys, clean, of, faults>>
  BY DEF Inv, TypeOK, SkipTitle
<1>2. /\ clean' \in BOOLEAN /\ faults' \in 0..MaxFaults /\ clean' = clean
      /\ titlekeys' \in Seq(Key) /\ titlekeys' = titlekeys /\ title \in Nat \ {0}
  BY <1>1 DEF Inv, TypeOK, Position
<1>3. ASSUME clean', Regular(disc)
      PROVE  Upto(disc, title + 1, titlekeys') /\ Filled(disc, title + 1, titlekeys')
  <2>1. /\ Upto(disc, title, titlekeys) /\ Filled(disc, title, titlekeys)
        /\ <<title, 0>> \notin DOMAIN Vob[disc]
    BY <1>1, <1>2, <1>3 DEF Inv, SoFar
  <2>2. title \notin Titles(disc)
    BY <1>1, <2>1, VobFacts
  <2> QED
    BY <1>1, <1>2, <2>1, <2>2, NoneFound
<1> QED
  BY <1>1, <1>2, <1>3, TitleDone

(* addKey appends a line, or leaves the file as it is.                     *)
NewLine == [hash |-> Hash[disc], hex |-> HexOf(titlekeys),
            keys |-> titlekeys, of |-> disc, clean |-> clean]

LEMMA LineAdded ==
  ASSUME Inv, addKey
  PROVE  \/ cache' = cache
         \/ /\ ~keyExists(cache, Hash[disc])
            /\ cache' = Append(cache, NewLine)
            /\ NewLine \in Line
            /\ Len(cache') = Len(cache) + 1
            /\ \A i \in DOMAIN cache : cache'[i] = cache[i]
            /\ cache'[Len(cache) + 1] = NewLine
            /\ DOMAIN cache' = DOMAIN cache \cup {Len(cache) + 1}
<1>1. cache \in Seq(Line) /\ DOMAIN cache = 1..Len(cache) /\ Len(cache) \in Nat
  BY LenProperties DEF Inv, TypeOK
<1>2. NewLine \in Line
  <2>1. disc \in Discs /\ titlekeys \in Seq(Key) /\ clean \in BOOLEAN
    BY DEF Inv, TypeOK, addKey
  <2>2. HexOf(titlekeys) \in Seq(0..15)
    BY <2>1, HexLength
  <2>3. Hash[disc] \in {Hash[d] : d \in Discs}
    BY <2>1
  <2> QED
    BY <2>1, <2>2, <2>3 DEF NewLine, Line
<1>3. \/ cache' = cache
      \/ ~keyExists(cache, Hash[disc]) /\ cache' = Append(cache, NewLine)
  BY DEF addKey, Appended, NewLine
<1> HIDE DEF NewLine
<1>4. ASSUME cache' = Append(cache, NewLine)
      PROVE  /\ Len(cache') = Len(cache) + 1
             /\ \A i \in DOMAIN cache : cache'[i] = cache[i]
             /\ cache'[Len(cache) + 1] = NewLine
             /\ DOMAIN cache' = DOMAIN cache \cup {Len(cache) + 1}
  BY <1>1, <1>2, <1>4, AppendProperties
<1> QED
  BY <1>2, <1>3, <1>4

LEMMA KeyAdded ==
  ASSUME Inv, addKey
  PROVE  Inv'
<1>1. /\ pc = "store" /\ pc' = "mounted" /\ disc \in Discs /\ titlekeys \in Seq(Key)
      /\ title = Searched /\ of = disc
      /\ UNCHANGED <<disc, css, title, titlekeys, clean, of>>
  BY DEF Inv, TypeOK, Position, addKey
<1>2. clean /\ Regular(disc) => Placed(disc, titlekeys)
  BY <1>1, UptoAll DEF Inv, SoFar
<1>3. faults' \in 0..MaxFaults
  BY BoundAssumption DEF Inv, TypeOK, addKey
<1>4. cache' \in Seq(Line)
  BY LineAdded, AppendProperties DEF Inv, TypeOK
<1>5. TypeOK'
  BY <1>1, <1>3, <1>4 DEF Inv, TypeOK
<1>6. Position' /\ SoFar'
  BY <1>1 DEF Position, SoFar
<1>7. InPlace'
  BY <1>1, <1>2 DEF InPlace, Trusted, Placed
<1>8. CASE cache' = cache
  BY <1>5, <1>6, <1>7, <1>8, CacheSame DEF Inv
<1>9. CASE cache' # cache
  <2> DEFINE n == Len(cache) + 1
  <2>1. /\ ~keyExists(cache, Hash[disc])
        /\ \A i \in DOMAIN cache : cache'[i] = cache[i]
        /\ cache'[n] = NewLine
        /\ DOMAIN cache' = DOMAIN cache \cup {n}
    BY <1>9, LineAdded
  <2> HIDE DEF n
  <2>2. /\ NewLine.hash = Hash[disc] /\ NewLine.hex = HexOf(titlekeys)
        /\ NewLine.keys = titlekeys /\ NewLine.of = disc /\ NewLine.clean = clean
    BY DEF NewLine
  <2>3. OneLine'
    <3>1. \A i \in DOMAIN cache : cache[i].hash # Hash[disc]
      BY <2>1 DEF keyExists, Matches
    <3>2. \A i, j \in DOMAIN cache : cache[i].hash = cache[j].hash => i = j
      BY DEF Inv, OneLine
    <3> QED
      BY <2>1, <2>2, <3>1, <3>2 DEF OneLine
  <2>4. Faithful'
    <3>1. KeysOf(NewLine.hex) = NewLine.keys
      BY <1>1, <2>2, RoundTrip
    <3>2. \A i \in DOMAIN cache : KeysOf(cache[i].hex) = cache[i].keys
      BY DEF Inv, Faithful
    <3> QED
      BY <2>1, <3>1, <3>2 DEF Faithful
  <2>5. StoredWell'
    <3>1. NewLine.clean /\ Regular(NewLine.of) => Placed(NewLine.of, NewLine.keys)
      BY <1>2, <2>2
    <3>2. \A i \in DOMAIN cache :
             cache[i].clean /\ Regular(cache[i].of) => Placed(cache[i].of, cache[i].keys)
      BY DEF Inv, StoredWell
    <3>3. \A i \in DOMAIN cache' :
             cache'[i].clean /\ Regular(cache'[i].of) => Placed(cache'[i].of, cache'[i].keys)
      BY <2>1, <3>1, <3>2
    <3> QED
      BY <3>3 DEF StoredWell, Placed
  <2> QED
    BY <1>5, <1>6, <1>7, <2>3, <2>4, <2>5 DEF Inv
<1> QED
  BY <1>8, <1>9

LEMMA Reset ==
  ASSUME Inv, Nothing, UNCHANGED cache
  PROVE  Inv'
<1>1. OneLine' /\ Faithful' /\ StoredWell'
  BY CacheSame DEF Inv
<1>2. TypeOK'
  <2>1. <<>> \in Seq(Key)
    OBVIOUS
  <2>2. css' \in BOOLEAN /\ clean' \in BOOLEAN
    BY Zenon DEF Nothing
  <2> QED
    BY <2>1, <2>2 DEF Inv, TypeOK, Nothing, Searched
<1>3. Position' /\ SoFar' /\ InPlace'
  BY DEF Position, SoFar, InPlace, Trusted, Nothing
<1> QED
  BY <1>1, <1>2, <1>3 DEF Inv

LEMMA Cleared ==
  ASSUME Inv, clearCache
  PROVE  Inv'
<1>1. cache' = <<>> /\ UNCHANGED <<pc, disc, css, title, titlekeys, clean, of, faults>>
  BY DEF clearCache
<1>2. TypeOK'
  <2>1. cache' \in Seq(Line)
    BY <1>1
  <2> QED
    BY <1>1, <2>1 DEF Inv, TypeOK
<1>3. OneLine' /\ Faithful' /\ StoredWell'
  BY <1>1 DEF OneLine, Faithful, StoredWell
<1>4. Position' /\ SoFar' /\ InPlace'
  BY <1>1 DEF Inv, Position, SoFar, InPlace, Trusted, Placed, Upto, Filled
<1> QED
  BY <1>2, <1>3, <1>4 DEF Inv

LEMMA Steps == Inv /\ [Next]_vars => Inv'
<1> SUFFICES ASSUME Inv, [Next]_vars PROVE Inv'
  OBVIOUS
<1>1. CASE \E d \in Discs : AskProtection(d)
  BY <1>1, Asked
<1>2. CASE FoundKeys
  BY <1>2, KeysFound
<1>3. CASE SearchKeys
  BY <1>3, SearchBegins
<1>4. CASE SearchMenu
  BY <1>4, MenuSearched
<1>5. CASE SkipMenu
  BY <1>5, MenuSkipped
<1>6. CASE SearchTitle
  BY <1>6, TitleSearched
<1>7. CASE SkipTitle
  BY <1>7, TitleSkipped
<1>8. CASE addKey
  BY <1>8, KeyAdded
<1>9. CASE Eject \/ Quit
  BY <1>9, Reset DEF Eject, Quit
<1>10. CASE clearCache
  BY <1>10, Cleared
<1>11. CASE UNCHANGED vars
  <2>1. OneLine' /\ Faithful' /\ StoredWell'
    BY <1>11, CacheSame DEF Inv, vars
  <2>2. TypeOK' /\ Position' /\ SoFar' /\ InPlace'
    BY <1>11 DEF vars, Inv, TypeOK, Position, SoFar, InPlace, Trusted, Placed, Upto, Filled
  <2> QED
    BY <2>1, <2>2 DEF Inv
<1> QED
  BY <1>1, <1>2, <1>3, <1>4, <1>5, <1>6, <1>7, <1>8, <1>9, <1>10, <1>11 DEF Next

(* The inductive invariant holds throughout.                               *)
THEOREM Invariant == Spec => []Inv
<1>1. Init => Inv
  BY Initially
<1>2. Inv /\ [Next]_vars => Inv'
  BY Steps
<1> QED
  BY <1>1, <1>2, PTL DEF Spec

(* The cache file's lines, the keys of the mounted disc and the state of   *)
(* MountDisc's search keep their types.                                    *)
THEOREM TypeCorrect == Spec => []TypeOK
<1>1. Inv => TypeOK
  BY DEF Inv
<1> QED
  BY <1>1, Invariant, PTL

(* Every protected title of a regular disc that is searched for has its    *)
(* own key at its number, from a search without failure, also if that      *)
(* search was an earlier mount's.                                          *)
THEOREM KeysInPlace == Spec => []InPlace
<1>1. Inv => InPlace
  BY DEF Inv
<1> QED
  BY <1>1, Invariant, PTL

(* Keys come out of the cache file as they went in.                        *)
THEOREM CacheFaithful == Spec => []Faithful
<1>1. Inv => Faithful
  BY DEF Inv
<1> QED
  BY <1>1, Invariant, PTL

(* The cache file has one line for a hash.                                 *)
THEOREM OneLineForHash == Spec => []OneLine
<1>1. Inv => OneLine
  BY DEF Inv
<1> QED
  BY <1>1, Invariant, PTL

(* What getKey finds for a disc stays what it finds, until the cache is    *)
(* cleared.                                                                *)
THEOREM KnownKeysStay == Spec => KnownStays
<1> DEFINE Stays == cache' # <<>> => \A d \in Discs : keyExists(cache, Hash[d]) =>
                      /\ keyExists(cache', Hash[d])
                      /\ getKey(cache', Hash[d]) = getKey(cache, Hash[d])
<1>1. ASSUME cache' = cache PROVE Stays
  BY <1>1
<1>2. ASSUME clearCache PROVE Stays
  BY <1>2 DEF clearCache
<1>3. ASSUME Inv, Inv', addKey PROVE Stays
  <2>1. CASE cache' = cache
    BY <2>1, <1>1
  <2>2. CASE cache' # cache
    <3> SUFFICES ASSUME NEW d \in Discs, keyExists(cache, Hash[d])
                 PROVE  /\ keyExists(cache', Hash[d])
                        /\ getKey(cache', Hash[d]) = getKey(cache, Hash[d])
      OBVIOUS
    <3>1. PICK i \in DOMAIN cache : cache[i].hash = Hash[d]
      BY DEF keyExists, Matches
    <3>2. i \in DOMAIN cache' /\ cache'[i] = cache[i]
      BY <1>3, <2>2, <3>1, LineAdded
    <3>3. First(cache, Hash[d]) = cache[i]
      BY <1>3, <3>1, FirstIs DEF Inv, TypeOK, OneLine
    <3>4. First(cache', Hash[d]) = cache'[i]
      <4>1. /\ cache' \in Seq(Line)
            /\ \A j, k \in DOMAIN cache' : cache'[j].hash = cache'[k].hash => j = k
        BY <1>3 DEF Inv, TypeOK, OneLine
      <4>2. cache'[i].hash = Hash[d]
        BY <3>1, <3>2
      <4> QED
        BY <4>1, <4>2, <3>2, FirstIs
    <3>5. Matches(cache, Hash[d]) # {} /\ Matches(cache', Hash[d]) # {}
      BY <3>1, <3>2 DEF Matches
    <3> QED
      BY <3>2, <3>3, <3>4, <3>5 DEF keyExists, getKey
  <2> QED
    BY <2>1, <2>2
<1>4. Inv /\ Inv' /\ [Next]_vars => [Stays]_vars
  <2> SUFFICES ASSUME Inv, Inv', [Next]_vars PROVE Stays
    OBVIOUS
  <2>1. CASE addKey
    BY <2>1, <1>3
  <2>2. CASE clearCache
    BY <2>2, <1>2
  <2>3. CASE ~addKey /\ ~clearCache
    <3>1. cache' = cache
      BY <2>3 DEF Next, vars, AskProtection, FoundKeys, SearchKeys, SearchMenu, SkipMenu,
                  SearchTitle, SkipTitle, Eject, Quit
    <3> QED
      BY <3>1, <1>1
  <2> QED
    BY <2>1, <2>2, <2>3
<1> QED
  BY <1>4, Invariant, PTL DEF Spec, KnownStays

-----------------------------------------------------------------------------
(***************************************************************************)
(* The search block by block                                               *)
(***************************************************************************)

(***************************************************************************)
(* The inductive invariant                                                 *)
(***************************************************************************)

(* Commands that may have failed with an effect on the keys, when a mount  *)
(* is at pc.                                                               *)
Spent ==
  CASE pc = "lookup" -> 1
    [] pc = "menu"   -> IF title = 0 THEN 2 ELSE 1 + 2 * title
    [] pc = "title"  -> 2 + 2 * title
    [] pc = "store"  -> 1 + 2 * title
    [] OTHER         -> 22

FaultsBounded ==
  /\ faults <= 22 * mounts
  /\ pc # "idle" => mounts >= 1 /\ faults <= 22 * (mounts - 1) + Spent

(* Where the reads of VOB files and the search can be, and that an         *)
(* unmounted disc leaves nothing behind.                                   *)
Places ==
  /\ at > 0 => Vobs # {} /\ Vobs \subseteq DOMAIN Vob[disc]
  /\ reading # NoTitle \/ idx # NoTitle => pc = "mounted"
  /\ relies => reading # NoTitle
  /\ refused => pc # "idle"

(* The search has read every block before the one it is at, none of them   *)
(* ended it, and encrypted says whether one of them was scrambled.         *)
Unended ==
  at > 0 => \A v \in Vobs :
    /\ \A i \in 1 .. at - 1 : ~Ends(disc, Vob[disc][v], i)
    /\ encrypted <=> \E i \in 1 .. at - 1 : Scrambled(Nth(disc, Vob[disc][v], i))

(* A call has its AGID while it may still need it, an AGID is either a     *)
(* call's or waits in the drive, and when only the flag is left to ask for *)
(* the AGID has been accounted for.                                        *)
Grants ==
  /\ auth \in {"idle", "agid", "over"} => mine = {}
  /\ auth \in {"challenge", "key1", "invalidate", "challenge2", "key2", "wrongkey2", "disckey"}
       => mine \subseteq taken
  /\ mine \cap pending = {}
  /\ AgidsAccounted
  /\ auth = "asf" => Cardinality(taken \ pending) <= slips

\* Without a failing command, no call leaves the way of a successful one.
Orderly ==
  failures = 0 =>
    /\ pending = {} /\ auth \notin {"invalidate", "wrongkey2", "nodisckey"}
    /\ disc # NoDisc => css = (disc \in HasCss)

(* The drive has opened itself to whoever is about to read: to a call that *)
(* got as far as the disc key, to a search or a file read that goes on     *)
(* after one, and to the file whose title is in force since a read.        *)
Opened ==
  failures = 0 /\ slips < Cardinality(Agids) =>
    /\ ~refused
    /\ auth \in {"disckey", "asf"} => asf
    /\ auth = "over" /\ ~relies /\ (at > 0 \/ css) => asf
    /\ auth \in {"idle", "over"} /\ idx # NoTitle /\ ~lent => asf

SearchInv ==
  /\ Inv /\ SearchTypeOK /\ FaultsBounded /\ Places /\ Unended /\ Grants /\ Orderly /\ Opened

(***************************************************************************)
(* Counting AGIDs                                                          *)
(***************************************************************************)

(* Sets of AGIDs are finite, and a smaller one has no more elements.       *)
LEMMA Fewer ==
  ASSUME NEW S \in SUBSET Agids, NEW T \in SUBSET S
  PROVE  /\ Cardinality(S) \in Nat /\ Cardinality(T) \in Nat
         /\ Cardinality(T) <= Cardinality(S)
<1>1. IsFiniteSet(S) /\ IsFiniteSet(T)
  BY AuthAssumption, FS_Subset
<1> QED
  BY <1>1, FS_Subset, FS_CardinalityType

LEMMA FewerThanBoth ==
  ASSUME NEW A \in SUBSET Agids, NEW B \in SUBSET Agids, NEW S \in SUBSET (A \cup B)
  PROVE  /\ Cardinality(S) \in Nat /\ Cardinality(A) \in Nat /\ Cardinality(B) \in Nat
         /\ Cardinality(S) <= Cardinality(A) + Cardinality(B)
<1>1. /\ IsFiniteSet(A) /\ IsFiniteSet(B)
      /\ Cardinality(A) \in Nat /\ Cardinality(B) \in Nat
  BY AuthAssumption, FS_Subset, FS_CardinalityType
<1>2. IsFiniteSet(A \cap B) /\ Cardinality(A \cap B) \in Nat
  <2>1. A \cap B \in SUBSET A
    OBVIOUS
  <2>2. IsFiniteSet(A \cap B)
    BY <1>1, <2>1, FS_Subset
  <2> QED
    BY <2>2, FS_CardinalityType
<1>3. Cardinality(A \cup B) = Cardinality(A) + Cardinality(B) - Cardinality(A \cap B)
  BY <1>1, FS_Union
<1>4. Cardinality(S) \in Nat /\ Cardinality(S) <= Cardinality(A \cup B)
  <2>1. A \cup B \in SUBSET Agids
    OBVIOUS
  <2> DEFINE U == A \cup B
  <2>2. Cardinality(S) \in Nat /\ Cardinality(S) <= Cardinality(U)
    <3> HIDE DEF U
    <3>1. U \in SUBSET Agids /\ S \in SUBSET U
      BY <2>1 DEF U
    <3> QED
      BY <3>1, Fewer
  <2> QED
    BY <2>2
<1> QED
  BY <1>1, <1>2, <1>3, <1>4

LEMMA OneAgid ==
  ASSUME NEW a \in Agids
  PROVE  Cardinality({a}) = 1 /\ Cardinality({}) = 0
  BY FS_Singleton, FS_EmptySet

(* If fewer AGIDs have slipped than there are, one is left to a drive that *)
(* waits for nothing.                                                      *)
LEMMA OneLeft ==
  ASSUME AuthTypeOK, AgidsAccounted, mine = {}, pending = {}, slips < Cardinality(Agids)
  PROVE  ~(Agids \subseteq taken)
<1> SUFFICES ASSUME Agids \subseteq taken PROVE FALSE
  OBVIOUS
<1>1. taken \ (mine \cup pending) = Agids
  BY DEF AuthTypeOK
<1>2. Cardinality(Agids) \in Nat
  BY Fewer
<1> QED
  BY <1>1, <1>2 DEF AuthTypeOK, AgidsAccounted

(* A call that gives its AGID up, at most one, adds one to what slipped.   *)
LEMMA GivenUp ==
  ASSUME AuthTypeOK, Grants
  PROVE  /\ Cardinality(mine \cap taken) \in {0, 1}
         /\ \A S \in SUBSET (taken \ pending) : Cardinality(S) <= slips + Cardinality(mine \cap taken)
<1>1. /\ mine \in SUBSET Agids /\ taken \in SUBSET Agids /\ pending \in SUBSET taken
      /\ slips \in Nat /\ Cardinality(mine) <= 1
  BY DEF AuthTypeOK
<1>2. /\ Cardinality(mine) \in Nat /\ Cardinality(mine \cap taken) \in Nat
      /\ Cardinality(mine \cap taken) <= Cardinality(mine)
  BY <1>1, Fewer
<1>3. ASSUME NEW S \in SUBSET (taken \ pending)
      PROVE  Cardinality(S) <= slips + Cardinality(mine \cap taken)
  <2> DEFINE A == taken \ (mine \cup pending)
             B == mine \cap taken
  <2>1. A \in SUBSET Agids /\ B \in SUBSET Agids /\ S \in SUBSET (A \cup B)
    BY <1>1
  <2>2. Cardinality(A) <= slips
    BY DEF Grants, AgidsAccounted
  <2>3. /\ Cardinality(S) \in Nat /\ Cardinality(A) \in Nat /\ Cardinality(B) \in Nat
        /\ Cardinality(S) <= Cardinality(A) + Cardinality(B)
    <3> HIDE DEF A, B
    <3> QED
      BY <2>1, FewerThanBoth
  <2> HIDE DEF A
  <2> QED
    BY <1>1, <2>2, <2>3
<1> QED
  BY <1>1, <1>2, <1>3

(***************************************************************************)
(* GetBusKey                                                               *)
(***************************************************************************)

(* Whether or not a command is performed, what the drive waits for can     *)
(* only become less, and so can what it has granted.                       *)
LEMMA CommandFacts ==
  ASSUME AuthTypeOK, (Performed /\ UNCHANGED taken) \/ NotPerformed
  PROVE  /\ failures' \in 0..MaxFailures /\ failures <= failures'
         /\ taken' \subseteq taken /\ pending' \subseteq taken'
         /\ taken' \ pending' = taken \ pending
         /\ pending' = {} /\ (pending = {} => taken' = taken)
         /\ failures' = 0 /\ pending = {} => Performed
<1>1. failures \in Nat /\ MaxFailures \in Nat /\ failures <= MaxFailures /\ pending \subseteq taken
  BY AuthAssumption DEF AuthTypeOK
<1>2. CASE Performed /\ UNCHANGED taken
  BY <1>1, <1>2 DEF Performed
<1>3. CASE pending # {} /\ taken' = taken \ pending /\ pending' = {} /\ UNCHANGED failures
  BY <1>1, <1>3
<1>4. CASE pending = {} /\ Failed /\ UNCHANGED <<taken, pending>>
  BY <1>1, <1>4 DEF Failed
<1> QED
  BY <1>2, <1>3, <1>4 DEF NotPerformed

(* What every step of GetBusKey keeps.                                     *)
Kept ==
  /\ AuthTypeOK' /\ Grants'
  /\ failures <= failures' /\ slips <= slips'
  /\ auth # "idle" /\ auth' # "idle"

(* Nothing slips when what the drive has granted beside the call's own     *)
(* AGID does not grow.                                                     *)
LEMMA StillAccounted ==
  ASSUME AuthTypeOK, Grants, slips' \in Nat, slips <= slips',
         taken' \ (mine' \cup pending') \subseteq taken \ (mine \cup pending)
  PROVE  AgidsAccounted'
<1> DEFINE A == taken \ (mine \cup pending)
           B == taken' \ (mine' \cup pending')
<1>1. A \in SUBSET Agids /\ B \in SUBSET A /\ slips \in Nat
  BY DEF AuthTypeOK
<1>2. Cardinality(A) <= slips
  BY DEF Grants, AgidsAccounted
<1>3. Cardinality(B) <= slips'
  <2> HIDE DEF A, B
  <2>1. /\ Cardinality(A) \in Nat /\ Cardinality(B) \in Nat
        /\ Cardinality(B) <= Cardinality(A)
    BY <1>1, Fewer
  <2> QED
    BY <1>1, <1>2, <2>1
<1> QED
  BY <1>3 DEF AgidsAccounted

LEMMA AgidAsked ==
  ASSUME AuthTypeOK, Grants, UsbDvdGetAGID
  PROVE  Kept
<1>1. /\ mine = {} /\ auth = "agid" /\ slips' = slips /\ slips \in Nat
      /\ taken \subseteq Agids /\ pending \subseteq taken /\ asf \in BOOLEAN
  BY DEF AuthTypeOK, Grants, UsbDvdGetAGID
<1>2. CASE /\ Performed
           /\ \E a \in Agids \ taken : mine' = {a} /\ taken' = taken \cup {a}
           /\ asf' \in {asf, FALSE}
           /\ auth' = "challenge"
  <2>1. PICK a \in Agids \ taken : mine' = {a} /\ taken' = taken \cup {a}
    BY <1>2
  <2>2. pending = {} /\ pending' = {} /\ failures' = failures
    BY <1>2 DEF Performed
  <2>3. Cardinality(mine') <= 1 /\ Cardinality(pending') <= 1
    BY <2>1, <2>2, OneAgid
  <2>4. asf' \in BOOLEAN
    BY <1>1, <1>2, Zenon
  <2>5. AuthTypeOK'
    BY <1>1, <1>2, <2>1, <2>2, <2>3, <2>4 DEF AuthTypeOK
  <2>6. AgidsAccounted'
    BY <1>1, <2>1, <2>2, StillAccounted
  <2>7. Grants'
    BY <1>2, <2>1, <2>2, <2>6 DEF Grants
  <2> QED
    BY <1>1, <1>2, <2>2, <2>5, <2>7 DEF Kept, AuthTypeOK
<1>3. CASE /\ (Performed /\ UNCHANGED taken) \/ NotPerformed
           /\ auth' = "over" /\ UNCHANGED <<mine, asf>>
  <2>1. /\ failures' \in 0..MaxFailures /\ failures <= failures'
        /\ taken' \subseteq taken /\ pending' = {}
        /\ taken' \ pending' = taken \ pending
    BY <1>3, CommandFacts
  <2>2. Cardinality(mine') <= 1 /\ Cardinality(pending') <= 1
    BY <1>1, <1>3, <2>1, FS_EmptySet
  <2>3. AuthTypeOK'
    BY <1>1, <1>3, <2>1, <2>2 DEF AuthTypeOK
  <2>4. AgidsAccounted'
    BY <1>1, <1>3, <2>1, StillAccounted
  <2>5. Grants'
    BY <1>1, <1>3, <2>1, <2>4 DEF Grants
  <2> QED
    BY <1>1, <1>3, <2>1, <2>3, <2>5 DEF Kept
<1> QED
  BY <1>2, <1>3 DEF UsbDvdGetAGID

(* A command that leaves the call its AGID.                                *)
LEMMA AgidKept ==
  ASSUME AuthTypeOK, Grants, (Performed /\ UNCHANGED taken) \/ NotPerformed,
         auth \in {"challenge", "key1", "challenge2", "key2", "wrongkey2"},
         auth' \in {"key1", "invalidate", "challenge2", "key2", "wrongkey2", "disckey", "nodisckey"},
         asf' \in BOOLEAN, UNCHANGED <<mine, slips>>
  PROVE  Kept
<1>1. /\ failures' \in 0..MaxFailures /\ failures <= failures'
      /\ taken' \subseteq taken /\ pending' \subseteq taken' /\ pending' = {}
      /\ taken' \ pending' = taken \ pending
  BY CommandFacts
<1>2. mine \subseteq taken /\ mine \cap pending = {} /\ slips \in Nat
  BY DEF Grants, AuthTypeOK
<1>3. mine \subseteq taken' /\ taken' \ (mine \cup pending') = taken \ (mine \cup pending)
  BY <1>1, <1>2
<1>4. Cardinality(pending') <= 1
  BY <1>1, FS_EmptySet
<1>5. AuthTypeOK'
  BY <1>1, <1>4 DEF AuthTypeOK
<1>6. AgidsAccounted'
  BY <1>2, <1>3, StillAccounted
<1>7. Grants'
  BY <1>1, <1>2, <1>3, <1>6 DEF Grants
<1> QED
  BY <1>1, <1>2, <1>5, <1>7 DEF Kept

(* The call ends without its AGID.                                         *)
LEMMA AgidLeft ==
  ASSUME AuthTypeOK, Grants, auth # "idle",
         failures' \in 0..MaxFailures, failures <= failures',
         taken' \subseteq taken, pending' \subseteq taken',
         pending' = {} \/ pending' = mine,
         auth' = "over", mine' = {}, UNCHANGED asf, slips' \in Nat, slips <= slips',
         AgidsAccounted'
  PROVE  Kept
<1>1. Cardinality(mine') <= 1 /\ Cardinality(pending') <= 1
  BY FS_EmptySet DEF AuthTypeOK
<1>2. AuthTypeOK'
  BY <1>1 DEF AuthTypeOK
<1>3. Grants'
  BY DEF Grants
<1> QED
  BY <1>2, <1>3 DEF Kept

LEMMA ChallengeSent ==
  ASSUME AuthTypeOK, Grants, UsbDvdSendChallenge
  PROVE  Kept
<1>1. asf' \in BOOLEAN
  BY DEF AuthTypeOK, UsbDvdSendChallenge
<1> QED
  BY <1>1, AgidKept DEF UsbDvdSendChallenge

LEMMA Key1Reported ==
  ASSUME AuthTypeOK, Grants, ReportKey1
  PROVE  Kept
<1>1. asf' \in BOOLEAN /\ auth = "key1"
  BY DEF AuthTypeOK, ReportKey1
<1>2. CASE Performed /\ auth' = "challenge2" /\ UNCHANGED <<mine, taken, slips>>
  BY <1>1, <1>2, AgidKept
<1>3. CASE NotPerformed /\ auth' = "invalidate" /\ UNCHANGED <<mine, slips>>
  BY <1>1, <1>3, AgidKept
<1>4. CASE /\ Failed /\ pending = {}
           /\ auth' = "over" /\ mine' = {} /\ slips' = slips + 1
           /\ UNCHANGED <<taken, pending>>
  <2>1. /\ failures' \in 0..MaxFailures /\ failures <= failures'
        /\ slips \in Nat /\ slips' \in Nat
    BY <1>4, AuthAssumption DEF Failed, AuthTypeOK
  <2>2. AgidsAccounted'
    <3>1. taken' \ (mine' \cup pending') \in SUBSET (taken \ pending)
      BY <1>4
    <3>2. Cardinality(taken' \ (mine' \cup pending')) <= slips + Cardinality(mine \cap taken)
      BY <3>1, GivenUp
    <3>3. Cardinality(mine \cap taken) \in {0, 1}
      BY GivenUp
    <3>4. Cardinality(taken' \ (mine' \cup pending')) \in Nat
      <4>1. taken' \ (mine' \cup pending') \in SUBSET Agids
        BY <1>4 DEF AuthTypeOK
      <4> QED
        BY <4>1, Fewer
    <3> QED
      BY <1>4, <2>1, <3>2, <3>3, <3>4 DEF AgidsAccounted
  <2>3. UNCHANGED asf /\ pending' \subseteq taken'
    BY <1>4 DEF ReportKey1
  <2> QED
    BY <1>1, <1>4, <2>1, <2>2, <2>3, AgidLeft
<1> QED
  BY <1>2, <1>3, <1>4 DEF ReportKey1

LEMMA AgidInvalidated ==
  ASSUME AuthTypeOK, Grants, UsbDvdInvalidateAGID
  PROVE  Kept
<1>1. /\ auth = "invalidate" /\ auth' = "over" /\ mine' = {} /\ asf' = asf
      /\ mine \subseteq taken /\ mine \cap pending = {} /\ pending \subseteq taken
      /\ taken \subseteq Agids /\ slips \in Nat /\ failures \in 0..MaxFailures
  BY DEF AuthTypeOK, Grants, UsbDvdInvalidateAGID
<1>2. CASE Performed /\ taken' = taken \ mine /\ UNCHANGED slips
  <2>1. pending = {} /\ pending' = {} /\ failures' = failures
    BY <1>2 DEF Performed
  <2>2. taken' \ (mine' \cup pending') \subseteq taken \ (mine \cup pending)
    BY <1>1, <1>2, <2>1
  <2>3. AgidsAccounted'
    BY <1>1, <1>2, <2>2, StillAccounted
  <2> QED
    BY <1>1, <1>2, <2>1, <2>3, AgidLeft
<1>3. CASE pending = {} /\ pending' = mine /\ UNCHANGED <<taken, slips, failures>>
  <2>1. taken' \ (mine' \cup pending') \subseteq taken \ (mine \cup pending)
    BY <1>1, <1>3
  <2>2. AgidsAccounted'
    BY <1>1, <1>3, <2>1, StillAccounted
  <2> QED
    BY <1>1, <1>3, <2>2, AgidLeft
<1>4. CASE NotPerformed /\ slips' = slips + 1
  <2>1. /\ failures' \in 0..MaxFailures /\ failures <= failures'
        /\ taken' \subseteq taken /\ pending' = {}
        /\ taken' \ pending' = taken \ pending
    BY <1>4, CommandFacts
  <2> DEFINE S == taken' \ (mine' \cup pending')
  <2>2. S \in SUBSET (taken \ pending) /\ S \in SUBSET Agids
    BY <1>1, <2>1
  <2>3. Cardinality(S) <= slips + Cardinality(mine \cap taken) /\ Cardinality(mine \cap taken) \in {0, 1}
    BY <2>2, GivenUp
  <2>4. Cardinality(S) \in Nat
    <3> HIDE DEF S
    <3> QED
      BY <2>2, Fewer
  <2>5. Cardinality(S) <= slips'
    <3> HIDE DEF S
    <3> QED
      BY <1>1, <1>4, <2>3, <2>4
  <2>6. AgidsAccounted'
    BY <2>5 DEF AgidsAccounted
  <2> QED
    BY <1>1, <1>4, <2>1, <2>6, AgidLeft
<1> QED
  BY <1>2, <1>3, <1>4 DEF UsbDvdInvalidateAGID

LEMMA ChallengeReported ==
  ASSUME AuthTypeOK, Grants, UsbDvdReportChallenge
  PROVE  Kept
<1>1. asf' \in BOOLEAN
  BY DEF AuthTypeOK, UsbDvdReportChallenge
<1> QED
  BY <1>1, AgidKept DEF UsbDvdReportChallenge

LEMMA Key2Sent ==
  ASSUME AuthTypeOK, Grants, SendKey2
  PROVE  Kept
<1>1. asf' \in BOOLEAN
  BY Zenon DEF AuthTypeOK, SendKey2
<1>2. CASE /\ (Performed /\ UNCHANGED taken) \/ NotPerformed
           /\ auth' \in {"disckey", "nodisckey"}
  BY <1>1, <1>2, AgidKept DEF SendKey2
<1>3. CASE Performed /\ auth' = "nodisckey" /\ taken' = taken \ mine
  <2>1. /\ pending = {} /\ pending' = {} /\ failures' = failures
        /\ UNCHANGED <<mine, slips>> /\ auth \in {"key2", "wrongkey2"}
    BY <1>3 DEF Performed, SendKey2
  <2>2. AuthTypeOK'
    BY <1>1, <1>3, <2>1 DEF AuthTypeOK
  <2>3. taken' \ (mine' \cup pending') \subseteq taken \ (mine \cup pending) /\ slips \in Nat
    BY <1>3, <2>1 DEF AuthTypeOK
  <2>4. AgidsAccounted'
    BY <2>1, <2>3, StillAccounted
  <2>5. Grants'
    BY <1>3, <2>1, <2>4 DEF Grants
  <2> QED
    BY <1>3, <2>1, <2>2, <2>3, <2>5 DEF Kept, AuthTypeOK
<1> QED
  BY <1>2, <1>3 DEF SendKey2

LEMMA DiscKeyReported ==
  ASSUME AuthTypeOK, Grants, UsbDvdGetDiscKey
  PROVE  Kept
<1>1. /\ auth \in {"disckey", "nodisckey"} /\ auth' = "asf" /\ mine' = mine /\ asf' = asf
      /\ mine \cap pending = {} /\ pending \subseteq taken
      /\ taken \subseteq Agids /\ slips \in Nat /\ failures \in 0..MaxFailures
      /\ Cardinality(mine \cap taken) \in {0, 1}
  BY GivenUp DEF AuthTypeOK, Grants, UsbDvdGetDiscKey
<1>2. CASE Performed /\ auth = "disckey" /\ taken' = FreedAgid /\ UNCHANGED slips
  <2>1. pending = {} /\ pending' = {} /\ failures' = failures /\ taken' = taken \ mine
    BY <1>2 DEF Performed, FreedAgid
  <2>2. AuthTypeOK'
    BY <1>1, <1>2, <2>1 DEF AuthTypeOK
  <2>3. taken' \ (mine' \cup pending') \subseteq taken \ (mine \cup pending)
    BY <1>1, <2>1
  <2>4. AgidsAccounted'
    BY <1>1, <1>2, <2>3, StillAccounted
  <2>5. taken' \ pending' = taken' \ (mine' \cup pending')
    BY <1>1, <2>1
  <2>6. Cardinality(taken' \ pending') <= slips'
    BY <2>4, <2>5 DEF AgidsAccounted
  <2>7. Grants'
    BY <1>1, <2>1, <2>4, <2>6 DEF Grants
  <2> QED
    BY <1>1, <1>2, <2>1, <2>2, <2>7 DEF Kept
<1>3. CASE /\ (Performed /\ UNCHANGED taken) \/ NotPerformed
           /\ slips' = slips + Cardinality(mine \cap taken)
  <2>1. /\ failures' \in 0..MaxFailures /\ failures <= failures'
        /\ taken' \subseteq taken /\ pending' = {} /\ pending' \subseteq taken'
        /\ taken' \ pending' = taken \ pending
    BY <1>3, CommandFacts
  <2>2. Cardinality(pending') <= 1 /\ slips' \in Nat /\ slips <= slips'
    BY <1>1, <1>3, <2>1, FS_EmptySet
  <2>3. AuthTypeOK'
    BY <1>1, <2>1, <2>2 DEF AuthTypeOK
  <2>4. taken' \ (mine' \cup pending') \subseteq taken \ (mine \cup pending)
    BY <1>1, <2>1
  <2>5. AgidsAccounted'
    BY <2>2, <2>4, StillAccounted
  <2>6. Cardinality(taken' \ pending') <= slips'
    <3>1. taken' \ pending' \in SUBSET (taken \ pending)
      BY <2>1
    <3>2. Cardinality(taken' \ pending') <= slips + Cardinality(mine \cap taken)
      BY <3>1, GivenUp
    <3> QED
      BY <1>3, <3>2
  <2>7. Grants'
    BY <1>1, <2>1, <2>5, <2>6 DEF Grants
  <2> QED
    BY <1>1, <2>1, <2>2, <2>3, <2>7 DEF Kept
<1> QED
  BY <1>2, <1>3 DEF UsbDvdGetDiscKey

LEMMA FlagReported ==
  ASSUME AuthTypeOK, Grants, GetASF
  PROVE  Kept
<1>1. /\ auth = "asf" /\ auth' = "over" /\ mine' = {} /\ asf' = asf /\ slips' = slips
      /\ slips \in Nat /\ Cardinality(taken \ pending) <= slips
  BY DEF AuthTypeOK, Grants, GetASF
<1>2. /\ failures' \in 0..MaxFailures /\ failures <= failures'
      /\ taken' \subseteq taken /\ pending' = {} /\ pending' \subseteq taken'
      /\ taken' \ pending' = taken \ pending
  BY CommandFacts DEF GetASF
<1>3. taken' \ (mine' \cup pending') = taken \ pending
  BY <1>1, <1>2
<1>4. AgidsAccounted'
  BY <1>1, <1>3 DEF AgidsAccounted
<1> QED
  BY <1>1, <1>2, <1>4, AgidLeft

(* Whatever the drive answers, each command of an authentication keeps the *)
(* account of its AGIDs.                                                   *)
LEMMA BusKeyKept ==
  ASSUME AuthTypeOK, Grants, GetBusKey
  PROVE  Kept
  BY AgidAsked, ChallengeSent, Key1Reported, AgidInvalidated, ChallengeReported,
     Key2Sent, DiscKeyReported, FlagReported DEF GetBusKey

(* An authentication in which no command fails stays on the way of a       *)
(* successful one, and leaves the drive open.                              *)
LEMMA BusKeyOpens ==
  ASSUME AuthTypeOK, Grants, GetBusKey,
         failures = 0 => pending = {} /\ auth \notin {"invalidate", "wrongkey2", "nodisckey"},
         failures' = 0
  PROVE  /\ pending' = {} /\ auth' \notin {"invalidate", "wrongkey2", "nodisckey"}
         /\ slips < Cardinality(Agids) =>
              ((auth \in {"disckey", "asf"} => asf) =>
                 (auth' \in {"disckey", "asf", "over"} => asf'))
<1>1. failures = 0 /\ failures \in Nat
  BY BusKeyKept DEF Kept, AuthTypeOK
<1>2. pending = {} /\ auth \notin {"invalidate", "wrongkey2", "nodisckey"}
  BY <1>1
<1>3. ~Failed /\ ~NotPerformed
  BY <1>1, <1>2 DEF Failed, NotPerformed
<1>4. slips < Cardinality(Agids) /\ auth = "agid" => ~(Agids \subseteq taken)
  BY <1>2, OneLeft DEF Grants
<1>5. CASE UsbDvdGetAGID
  BY <1>3, <1>2, <1>4, <1>5 DEF UsbDvdGetAGID, Performed
<1>6. CASE UsbDvdSendChallenge \/ ReportKey1
  BY <1>3, <1>2, <1>6 DEF UsbDvdSendChallenge, ReportKey1, Performed
<1>7. CASE UsbDvdReportChallenge \/ SendKey2
  BY <1>3, <1>2, <1>7 DEF UsbDvdReportChallenge, SendKey2, Performed
<1>8. CASE UsbDvdGetDiscKey \/ GetASF
  BY <1>3, <1>2, <1>8 DEF UsbDvdGetDiscKey, GetASF, Performed
<1>9. ~UsbDvdInvalidateAGID
  BY <1>2 DEF UsbDvdInvalidateAGID
<1> QED
  BY <1>5, <1>6, <1>7, <1>8, <1>9 DEF GetBusKey

(***************************************************************************)
(* The loop over blocks                                                    *)
(***************************************************************************)

(* The file that is searched.                                              *)
LEMMA Searching ==
  ASSUME SearchInv, at > 0
  PROVE  /\ disc \in Discs /\ at \in Nat \ {0} /\ pc \in {"menu", "title"}
         /\ \E v : /\ Vobs = {v} /\ v \in DOMAIN Vob[disc] /\ Vob[disc][v] \in File
                   /\ pc = "menu" => v = Menu
                   /\ pc = "title" => v = <<title, 1>>
<1>1. disc \in Discs /\ at \in Nat \ {0} /\ pc \in {"menu", "title"}
  BY DEF SearchInv, SearchTypeOK, TypeOK
<1>2. Vobs \subseteq DOMAIN Vob[disc]
  BY DEF SearchInv, Places
<1>3. \A v \in DOMAIN Vob[disc] : Vob[disc][v] \in File
  BY <1>1, DiscAssumption
<1>4. CASE pc = "menu"
  <2>1. Vobs = {Menu}
    BY <1>4 DEF Vobs
  <2> QED
    BY <1>1, <1>2, <1>3, <1>4, <2>1
<1>5. CASE pc = "title"
  <2>1. Vobs = {<<title, 1>>}
    BY <1>5 DEF Vobs
  <2> QED
    BY <1>1, <1>2, <1>3, <1>5, <2>1
<1> QED
  BY <1>1, <1>4, <1>5

(* A search that has not ended before its n-th block has read the blocks   *)
(* before it, each a part of the stream that gave no key away.             *)
LEMMA ReadSoFar ==
  ASSUME NEW d \in Discs, NEW f \in File, NEW n \in Nat \ {0},
         \A i \in 1 .. n - 1 : ~Ends(d, f, i)
  PROVE  /\ n <= Len(Blocks[d]) + 1
         /\ \A i \in 1 .. n - 1 : Exists(d, f, i) /\ Nth(d, f, i).text \notin {"other", "weak"}
<1>1. \A i \in 1 .. n - 1 : Exists(d, f, i) /\ Nth(d, f, i).text \notin {"other", "weak"}
  BY DEF Ends
<1>2. DOMAIN Blocks[d] = 1..Len(Blocks[d]) /\ Len(Blocks[d]) \in Nat
  BY DiscAssumption, LenProperties
<1>3. f.lba \in Nat \ {0}
  BY DEF File
<1>4. CASE n = 1
  BY <1>1, <1>2, <1>4
<1>5. CASE n > 1
  <2>1. Exists(d, f, n - 1)
    BY <1>1, <1>5
  <2>2. f.lba + (n - 1) - 1 \in 1..Len(Blocks[d])
    BY <1>2, <2>1 DEF Exists
  <2> QED
    BY <1>1, <1>2, <1>3, <1>5, <2>2
<1> QED
  BY <1>4, <1>5

(* What the search finds where it ends, told from what it has seen.        *)
LEMMA CrackAt ==
  ASSUME NEW d \in Discs, NEW f \in File, NEW n \in Nat \ {0},
         \A i \in 1 .. n - 1 : ~Ends(d, f, i), Ends(d, f, n)
  PROVE  Crack(d, f) =
           IF ~Exists(d, f, n) THEN <<>>
           ELSE IF Nth(d, f, n).text = "weak" THEN <<Nth(d, f, n).key>>
           ELSE IF Nth(d, f, n).text = "other"
           THEN IF n > 1 /\ \A i \in 1 .. n - 1 : ~Scrambled(Nth(d, f, i)) THEN <<NoKey>> ELSE <<>>
           ELSE IF \A i \in 1..n : ~Scrambled(Nth(d, f, i)) THEN <<NoKey>> ELSE <<>>
<1>1. n \in 1 .. Len(Blocks[d]) + 1
  BY ReadSoFar, DiscAssumption, LenProperties
<1>2. Length(d, f) = n
  BY <1>1, LengthIs
<1> DEFINE Read == {i \in 1..n : Exists(d, f, i) /\ Nth(d, f, i).text # "other"}
<1>3. Crack(d, f) =
        IF ~Exists(d, f, n) THEN <<>>
        ELSE IF Nth(d, f, n).text = "weak" THEN <<Nth(d, f, n).key>>
        ELSE IF Read # {} /\ \A i \in Read : ~Scrambled(Nth(d, f, i)) THEN <<NoKey>>
        ELSE <<>>
  BY <1>2 DEF Crack
<1>4. \A i \in 1 .. n - 1 : i \in Read
  BY ReadSoFar
<1>5. CASE Exists(d, f, n) /\ Nth(d, f, n).text = "other"
  <2>1. Read = 1 .. n - 1
    BY <1>4, <1>5
  <2>2. Read # {} <=> n > 1
    BY <2>1
  <2> HIDE DEF Read
  <2> QED
    BY <1>3, <1>5, <2>1, <2>2
<1>6. CASE Exists(d, f, n) /\ Nth(d, f, n).text \notin {"other", "weak"}
  <2>1. Read = 1..n /\ n \in Read
    BY <1>4, <1>6
  <2> HIDE DEF Read
  <2> QED
    BY <1>3, <1>6, <2>1
<1> HIDE DEF Read
<1> QED
  BY <1>3, <1>5, <1>6

(* A file's search that ends with an outcome TitleKeys knows is its step.  *)
LEMMA Concluded ==
  ASSUME SearchInv, at > 0, NEW v \in Vobs,
         NEW keys \in {<<>>, Crack(disc, Vob[disc][v])},
         Outcome(disc, Vob[disc][v], keys), Conclude(keys),
         UNCHANGED <<cache, disc, css, of>>
  PROVE  Next
<1>1. PICK w : /\ Vobs = {w} /\ w \in DOMAIN Vob[disc]
               /\ pc = "menu" => w = Menu
               /\ pc = "title" => w = <<title, 1>>
  BY Searching
<1>2. v = w /\ pc \in {"menu", "title"}
  BY <1>1, Searching
<1>3. CASE pc = "menu"
  <2>1. SearchMenu
    BY <1>1, <1>2, <1>3 DEF SearchMenu, Conclude
  <2> QED
    BY <2>1 DEF Next
<1>4. CASE pc = "title"
  <2>1. SearchTitle
    BY <1>1, <1>2, <1>4 DEF SearchTitle, Conclude
  <2> QED
    BY <2>1 DEF Next
<1> QED
  BY <1>2, <1>3, <1>4

(* There is nothing of a file read in a search.                            *)
LEMMA NoReader ==
  ASSUME SearchInv, pc # "mounted"
  PROVE  reading = NoTitle /\ idx = NoTitle /\ ~relies
  BY DEF SearchInv, Places

(* The end of a search is a step of TitleKeys' own, and keeps the          *)
(* invariant if the drive opens itself only to who is authenticated.       *)
LEMMA SearchOver ==
  ASSUME SearchInv, Inv', at > 0, auth = "over", NEW keys, Conclude(keys),
         (Performed /\ UNCHANGED taken) \/ NotPerformed,
         UNCHANGED <<disc, css, mine, asf, slips, medium, idx, reading, lent, relies>>,
         faults' \in {faults, faults + 1}, refused' \in BOOLEAN,
         failures' = 0 /\ slips < Cardinality(Agids) => ~refused'
  PROVE  SearchInv'
<1> USE DEF SearchInv
<1>1. /\ reading = NoTitle /\ idx = NoTitle /\ ~relies
      /\ pc \in {"menu", "title"} /\ at' = 0 /\ encrypted' = FALSE /\ auth' = "idle"
      /\ pc = "menu" => \/ pc' = "title" /\ title' = title /\ title # 0
                        \/ NextTitle
      /\ pc = "title" => NextTitle
      /\ disc \in Discs
  BY NoReader, Searching DEF Conclude
<1>2. /\ failures' \in 0..MaxFailures /\ failures <= failures'
      /\ taken' \subseteq taken /\ pending' = {} /\ pending' \subseteq taken'
      /\ taken' \ pending' = taken \ pending
  BY CommandFacts DEF SearchTypeOK
<1>3. AuthTypeOK'
  <2>1. Cardinality(pending') <= 1
    BY <1>2, FS_EmptySet
  <2> QED
    BY <1>1, <1>2, <2>1 DEF SearchTypeOK, AuthTypeOK
<1>4. TypeOK' /\ disc' \in Discs /\ pc' \in {"menu", "title", "store"}
  <2>1. pc' \in {"menu", "title", "store"}
    BY <1>1 DEF NextTitle
  <2> QED
    BY <1>1, <2>1 DEF Inv
<1>5. SearchTypeOK'
  <2>1. at' \in Nat /\ ~(at' > 0)
    BY <1>1
  <2>2. encrypted' \in BOOLEAN
    BY <1>1, Zenon
  <2>3. {lent', relies', refused'} \subseteq BOOLEAN
    BY DEF SearchTypeOK
  <2> QED
    BY <1>1, <1>3, <1>4, <2>1, <2>2, <2>3 DEF SearchTypeOK, medium
<1>6. FaultsBounded'
  <2>1. /\ faults \in Nat /\ mounts \in Nat /\ mounts >= 1 /\ title \in 0..9 /\ mounts' = mounts
        /\ pc = "title" => title >= 1
        /\ faults <= 22 * (mounts - 1) + Spent
    BY <1>1 DEF Inv, TypeOK, Position, SearchTypeOK, FaultsBounded, Searched, medium
  <2>2. CASE pc = "menu" /\ pc' = "title" /\ title' = title /\ title # 0
    <3>1. Spent = 1 + 2 * title /\ Spent' = 2 + 2 * title
      BY <2>2 DEF Spent
    <3> QED
      BY <2>1, <2>2, <3>1 DEF FaultsBounded
  <2>3. CASE pc = "menu" /\ NextTitle
    <3>1. Spent = (IF title = 0 THEN 2 ELSE 1 + 2 * title) /\ Spent' = 3 + 2 * title
      BY <2>1, <2>3 DEF Spent, NextTitle
    <3> QED
      BY <2>1, <2>3, <3>1 DEF FaultsBounded
  <2>4. CASE pc = "title" /\ NextTitle
    <3>1. Spent = 2 + 2 * title /\ Spent' = 3 + 2 * title
      BY <2>1, <2>4 DEF Spent, NextTitle
    <3> QED
      BY <2>1, <2>4, <3>1 DEF FaultsBounded
  <2> QED
    BY <1>1, <2>2, <2>3, <2>4
<1>7. Places' /\ Unended'
  BY <1>1, <1>4 DEF Places, Unended
<1>8. Grants'
  <2>1. mine = {} /\ slips \in Nat
    BY DEF Grants, SearchTypeOK, AuthTypeOK
  <2>2. AgidsAccounted'
    BY <1>2, <2>1, StillAccounted DEF SearchTypeOK
  <2> QED
    BY <1>1, <2>1, <2>2 DEF Grants
<1>9. Orderly'
  <2>1. failures' = 0 => failures = 0
    BY <1>2 DEF SearchTypeOK, AuthTypeOK
  <2> QED
    BY <1>1, <1>2, <2>1 DEF Orderly
<1>10. Opened'
  BY <1>1 DEF Opened
<1> QED
  BY <1>5, <1>6, <1>7, <1>8, <1>9, <1>10

(* A search always has a failure left: the bound on faults is that of the  *)
(* failures a search can meet.                                             *)
LEMMA MayFail ==
  ASSUME SearchInv, at > 0
  PROVE  faults < MaxFaults
<1>1. /\ faults \in Nat /\ mounts \in Nat /\ mounts >= 1 /\ mounts <= MaxMounts
      /\ title \in 0..9 /\ pc \in {"menu", "title"}
      /\ faults <= 22 * (mounts - 1) + Spent
  BY MountAssumption, Searching
     DEF SearchInv, Inv, TypeOK, Position, SearchTypeOK, FaultsBounded, Searched
<1>2. Spent \in Int /\ Spent < 22
  BY <1>1 DEF Spent
<1> QED
  BY <1>1, <1>2, MountAssumption, BoundAssumption

(* Where a search reads, an unfailing drive is open.                       *)
LEMMA OpenToSearch ==
  ASSUME SearchInv, at > 0, auth = "over", failures = 0, slips < Cardinality(Agids)
  PROVE  asf /\ ~refused
<1>1. ~relies
  BY NoReader, Searching
<1> QED
  BY <1>1 DEF SearchInv, Opened

LEMMA FailedRead ==
  ASSUME SearchInv, ReadFails
  PROVE  [Next]_vars /\ SearchInv'
<1>1. /\ at > 0 /\ auth = "over" /\ Conclude(<<>>)
      /\ UNCHANGED <<cache, disc, css, of, mine, asf, slips, medium, idx, reading, lent, relies>>
  BY DEF ReadFails
<1>2. PICK v \in Vobs : LET f == Vob[disc][v] IN
        \/ /\ Performed /\ NoBlockThere(f)
           /\ UNCHANGED <<taken, clean, faults, refused>>
        \/ /\ Performed /\ ~NoBlockThere(f) /\ Shut(Nth(disc, f, at))
           /\ refused' = TRUE
           /\ faults' = faults + 1 /\ clean' = FALSE
           /\ UNCHANGED taken
        \/ /\ NotPerformed
           /\ faults' = faults + 1 /\ clean' = FALSE
           /\ UNCHANGED refused
  BY DEF ReadFails
<1> DEFINE f == Vob[disc][v]
<1>3. disc \in Discs /\ f \in File /\ at \in Nat \ {0}
  BY <1>1, Searching
<1>4. \A i \in 1 .. at - 1 : ~Ends(disc, f, i)
  BY <1>1 DEF SearchInv, Unended
<1>5. Outcome(disc, f, <<>>)
  <2>1. CASE NoBlockThere(f) /\ UNCHANGED <<clean, faults>>
    <3> HIDE DEF f
    <3>1. ~Exists(disc, f, at) /\ Ends(disc, f, at)
      BY <2>1 DEF NoBlockThere, Ends
    <3>2. Crack(disc, f) = <<>>
      BY <1>3, <1>4, <3>1, CrackAt
    <3> QED
      BY <2>1, <3>2 DEF Outcome
  <2>2. CASE faults' = faults + 1 /\ clean' = FALSE
    <3>1. faults < MaxFaults
      BY <1>1, MayFail
    <3> QED
      BY <2>2, <3>1 DEF Outcome
  <2> QED
    BY <1>2, <2>1, <2>2
<1>6. Next
  BY <1>1, <1>5, Concluded
<1>7. Inv'
  BY <1>6, Steps DEF SearchInv
<1>8. (Performed /\ UNCHANGED taken) \/ NotPerformed
  BY <1>2
<1>9. faults' \in {faults, faults + 1}
  BY <1>2
<1>10. refused' \in BOOLEAN
  BY <1>2, Zenon DEF SearchInv, SearchTypeOK
<1>11. failures' = 0 /\ slips < Cardinality(Agids) => ~refused'
  <2> SUFFICES ASSUME failures' = 0, slips < Cardinality(Agids) PROVE ~refused'
    OBVIOUS
  <2>1. failures = 0
    BY <1>8, CommandFacts DEF SearchInv, SearchTypeOK, AuthTypeOK
  <2>2. asf /\ ~refused
    BY <1>1, <2>1, OpenToSearch
  <2> QED
    BY <1>2, <2>2 DEF Shut
<1> QED
  BY <1>1, <1>6, <1>7, <1>8, <1>9, <1>10, <1>11, SearchOver

(* The block after a read one: the search goes on, and its authentication  *)
(* begins again.                                                           *)
LEMMA GoesOn ==
  ASSUME SearchInv, Inv', at > 0, auth = "over", Performed, NEW v \in Vobs,
         ~NoBlockThere(Vob[disc][v]), ~Ends(disc, Vob[disc][v], at),
         at' = at + 1, encrypted' = EncryptedWith(Nth(disc, Vob[disc][v], at)), auth' = "agid",
         UNCHANGED <<vars, mine, taken, asf, slips, medium, reader>>
  PROVE  SearchInv'
<1> USE DEF SearchInv
<1>1. /\ UNCHANGED <<mine, taken, pending, asf, slips, failures>> /\ pending = {}
      /\ UNCHANGED <<pc, disc, css, title, faults, loaded, mounts>>
      /\ UNCHANGED <<idx, reading, lent, relies, refused>>
  BY DEF Performed, vars, medium, reader
<1>2. at \in Nat \ {0} /\ at' \in Nat \ {0, 1} /\ Vobs = {v} /\ Vobs' = Vobs
      /\ pc \in {"menu", "title"} /\ v \in DOMAIN Vob[disc]
  BY <1>1, Searching DEF Vobs, Menu
<1>3. SearchTypeOK'
  <2>1. encrypted' \in BOOLEAN
    BY Zenon DEF EncryptedWith
  <2>2. AuthTypeOK'
    BY <1>1 DEF SearchTypeOK, AuthTypeOK
  <2>3. /\ {lent', relies', refused'} \subseteq BOOLEAN
        /\ {idx', reading'} \subseteq Nat \cup {NoTitle}
    BY <1>1 DEF SearchTypeOK
  <2> QED
    BY <1>1, <1>2, <2>1, <2>2, <2>3 DEF SearchTypeOK, Inv
<1>4. FaultsBounded'
  BY <1>1 DEF FaultsBounded, Spent
<1>5. Places'
  BY <1>1, <1>2 DEF Places
<1>6. Unended'
  <2> DEFINE f == Vob[disc][v]
  <2>1. /\ \A i \in 1 .. at - 1 : ~Ends(disc, f, i)
        /\ encrypted <=> \E i \in 1 .. at - 1 : Scrambled(Nth(disc, f, i))
    BY <1>2 DEF Unended
  <2> HIDE DEF f
  <2>2. 1 .. at' - 1 = (1 .. at - 1) \cup {at}
    BY <1>2
  <2>3. /\ \A i \in 1 .. at' - 1 : ~Ends(disc, f, i)
        /\ encrypted' <=> \E i \in 1 .. at' - 1 : Scrambled(Nth(disc, f, i))
    BY <2>1, <2>2 DEF EncryptedWith, f
  <2> QED
    BY <1>1, <1>2, <2>3 DEF Unended, f
<1>7. Grants'
  BY <1>1 DEF Grants, AgidsAccounted
<1>8. Orderly' /\ Opened'
  BY <1>1 DEF Orderly, Opened
<1> QED
  BY <1>3, <1>4, <1>5, <1>6, <1>7, <1>8

LEMMA BlockRead ==
  ASSUME SearchInv, ReadBlock
  PROVE  [Next]_vars /\ SearchInv'
<1>1. /\ at > 0 /\ auth = "over" /\ Performed
      /\ UNCHANGED <<cache, disc, css, clean, of, faults, mine, taken, asf, slips, medium, reader>>
  BY DEF ReadBlock
<1>2. PICK v \in Vobs : LET f == Vob[disc][v] IN
       /\ ~NoBlockThere(f) /\ ~Shut(Nth(disc, f, at))
       /\ LET b == Nth(disc, f, at) IN
            IF b.text = "other"
            THEN Conclude(IF at > 1 THEN NoneScrambled(encrypted) ELSE <<>>)
            ELSE IF b.text = "weak"
            THEN Conclude(<<b.key>>)
            ELSE IF at >= f.size \/ (at >= MaxClear /\ ~EncryptedWith(b))
            THEN Conclude(NoneScrambled(EncryptedWith(b)))
            ELSE /\ at' = at + 1 /\ encrypted' = EncryptedWith(b)
                 /\ auth' = "agid"
                 /\ UNCHANGED <<pc, title, titlekeys>>
  BY DEF ReadBlock
<1> DEFINE f == Vob[disc][v]
           b == Nth(disc, f, at)
<1>3. disc \in Discs /\ f \in File /\ at \in Nat \ {0} /\ Exists(disc, f, at)
  BY <1>1, <1>2, Searching DEF NoBlockThere
<1>4. /\ \A i \in 1 .. at - 1 : ~Ends(disc, f, i)
      /\ encrypted <=> \E i \in 1 .. at - 1 : Scrambled(Nth(disc, f, i))
  BY <1>1 DEF SearchInv, Unended
<1>5. EncryptedWith(b) <=> \E i \in 1..at : Scrambled(Nth(disc, f, i))
  <2>1. 1..at = (1 .. at - 1) \cup {at}
    BY <1>3
  <2> HIDE DEF f
  <2> QED
    BY <1>4, <2>1 DEF EncryptedWith
<1>6. ASSUME NEW keys, Conclude(keys), keys = Crack(disc, f)
      PROVE  [Next]_vars /\ SearchInv'
  <2>1. Outcome(disc, f, keys)
    BY <1>1, <1>6 DEF Outcome
  <2>2. Next
    BY <1>1, <1>6, <2>1, Concluded
  <2>3. Inv'
    BY <2>2, Steps DEF SearchInv
  <2>4. UNCHANGED <<idx, reading, lent, relies, refused>>
    BY <1>1 DEF reader
  <2>5. failures' = 0 /\ slips < Cardinality(Agids) => ~refused'
    BY <1>1, <2>4, OpenToSearch DEF Performed
  <2>6. refused' \in BOOLEAN
    BY <2>4 DEF SearchInv, SearchTypeOK
  <2> QED
    BY <1>1, <1>6, <2>2, <2>3, <2>4, <2>5, <2>6, SearchOver
<1>7. CASE b.text = "other"
  <2> HIDE DEF f
  <2>1. Ends(disc, f, at)
    BY <1>7 DEF Ends
  <2>2. Crack(disc, f) = IF at > 1 THEN NoneScrambled(encrypted) ELSE <<>>
    BY <1>3, <1>4, <1>7, <2>1, CrackAt DEF NoneScrambled
  <2> QED
    BY <1>2, <1>6, <1>7, <2>2 DEF f
<1>8. CASE b.text = "weak"
  <2> HIDE DEF f
  <2>1. Ends(disc, f, at)
    BY <1>8 DEF Ends
  <2>2. Crack(disc, f) = <<b.key>>
    BY <1>3, <1>4, <1>8, <2>1, CrackAt
  <2> QED
    BY <1>2, <1>6, <1>8, <2>2 DEF f
<1>9. CASE /\ b.text \notin {"other", "weak"}
           /\ at >= f.size \/ (at >= MaxClear /\ ~EncryptedWith(b))
  <2>1. Ends(disc, f, at)
    <3> HIDE DEF f
    <3> QED
      BY <1>5, <1>9 DEF Ends
  <2>2. Crack(disc, f) = NoneScrambled(EncryptedWith(b))
    <3> HIDE DEF f
    <3> QED
      BY <1>3, <1>4, <1>5, <1>9, <2>1, CrackAt DEF NoneScrambled
  <2> QED
    BY <1>2, <1>6, <1>9, <2>2
<1>10. CASE /\ b.text \notin {"other", "weak"}
            /\ ~(at >= f.size \/ (at >= MaxClear /\ ~EncryptedWith(b)))
  <2>1. ~Ends(disc, f, at)
    <3> HIDE DEF f
    <3> QED
      BY <1>3, <1>5, <1>10 DEF Ends
  <2>2. /\ at' = at + 1 /\ encrypted' = EncryptedWith(b) /\ auth' = "agid"
        /\ UNCHANGED vars
    BY <1>1, <1>2, <1>10 DEF vars
  <2>3. Inv'
    BY <2>2, Steps DEF SearchInv
  <2> QED
    BY <1>1, <1>2, <2>1, <2>2, <2>3, GoesOn
<1> QED
  BY <1>7, <1>8, <1>9, <1>10

(***************************************************************************)
(* The mount around the search                                             *)
(***************************************************************************)

(* A failing step of TitleKeys is one of the failures that are counted.    *)
LEMMA CountedFacts ==
  ASSUME SearchInv, Counted
  PROVE  /\ failures' \in 0..MaxFailures /\ failures <= failures'
         /\ failures' = 0 => failures = 0 /\ faults' = faults
<1>1. failures \in 0..MaxFailures
  BY DEF SearchInv, SearchTypeOK, AuthTypeOK
<1> QED
  BY <1>1, AuthAssumption DEF Counted, Failed

(* A step of MountDisc between two searches.                               *)
LEMMA Between ==
  ASSUME SearchInv, Inv', at = 0, Counted,
         UNCHANGED <<auth, mine, drive, slips, search, reader, medium, disc, css>>,
         pc = "idle" <=> pc' = "idle", pc = "mounted" => pc' = "mounted",
         FaultsBounded'
  PROVE  SearchInv'
<1> USE DEF SearchInv
<1>1. /\ UNCHANGED <<auth, mine, taken, pending, asf, slips, at, encrypted>>
      /\ UNCHANGED <<idx, reading, lent, relies, refused, loaded, mounts>>
  BY DEF drive, search, reader, medium
<1>2. failures' \in 0..MaxFailures /\ (failures' = 0 => failures = 0)
  BY CountedFacts
<1>3. SearchTypeOK'
  <2>1. AuthTypeOK'
    BY <1>1, <1>2 DEF SearchTypeOK, AuthTypeOK
  <2>2. /\ {lent', relies', refused'} \subseteq BOOLEAN /\ encrypted' \in BOOLEAN
        /\ {idx', reading'} \subseteq Nat \cup {NoTitle}
    BY <1>1 DEF SearchTypeOK
  <2> QED
    BY <1>1, <2>1, <2>2 DEF SearchTypeOK, Inv
<1>4. Places' /\ Unended'
  BY <1>1 DEF Places, Unended, SearchTypeOK
<1>5. Grants'
  BY <1>1 DEF Grants, AgidsAccounted
<1>6. Orderly' /\ Opened'
  BY <1>1, <1>2 DEF Orderly, Opened
<1> QED
  BY <1>3, <1>4, <1>5, <1>6

(* No search goes on where there is no file to search.                     *)
LEMMA NoSearch ==
  ASSUME SearchInv, \/ pc \notin {"menu", "title"}
                    \/ pc = "menu" /\ Menu \notin DOMAIN Vob[disc]
                    \/ pc = "title" /\ <<title, 1>> \notin DOMAIN Vob[disc]
  PROVE  at = 0
<1> SUFFICES ASSUME at # 0 PROVE FALSE
  OBVIOUS
<1>1. at > 0 /\ pc \in {"menu", "title"}
  BY DEF SearchInv, SearchTypeOK
<1> QED
  BY <1>1, Searching

LEMMA SpentFacts ==
  ASSUME SearchInv, pc # "idle"
  PROVE  /\ faults \in Nat /\ mounts \in Nat /\ mounts >= 1 /\ title \in 0..Searched
         /\ pc \in {"menu", "title"} => title \in 0..9
         /\ pc = "store" => title = 10
         /\ pc = "title" => title >= 1
         /\ faults <= 22 * (mounts - 1) + Spent
  BY DEF SearchInv, Inv, TypeOK, Position, SearchTypeOK, FaultsBounded, Searched

LEMMA CacheUsed ==
  ASSUME SearchInv, UseCache
  PROVE  [Next]_vars /\ SearchInv'
<1>1. /\ pc = "lookup" /\ pc' = "mounted" /\ Next /\ Counted
      /\ UNCHANGED <<disc, css, faults, mounts>>
      /\ UNCHANGED <<auth, mine, drive, slips, search, reader, medium>>
  BY DEF UseCache, FoundKeys, Next, authvars, drive, medium, Counted
<1>2. at = 0 /\ Inv'
  BY <1>1, NoSearch, Steps DEF SearchInv
<1>3. FaultsBounded'
  <2>1. Spent = 1 /\ Spent' = 22
    BY <1>1 DEF Spent
  <2> QED
    BY <1>1, <2>1, SpentFacts DEF FaultsBounded
<1> QED
  BY <1>1, <1>2, <1>3, Between

LEMMA SearchStarted ==
  ASSUME SearchInv, NoCache
  PROVE  [Next]_vars /\ SearchInv'
<1>1. /\ pc = "lookup" /\ pc' = "menu" /\ title' = 0 /\ Next /\ Counted
      /\ UNCHANGED <<disc, css, mounts>> /\ faults' \in {faults, faults + 1}
      /\ UNCHANGED <<auth, mine, drive, slips, search, reader, medium>>
  BY DEF NoCache, Around, SearchKeys, Next, medium
<1>2. at = 0 /\ Inv'
  BY <1>1, NoSearch, Steps DEF SearchInv
<1>3. FaultsBounded'
  <2>1. Spent = 1 /\ Spent' = 2
    BY <1>1 DEF Spent
  <2> QED
    BY <1>1, <2>1, SpentFacts DEF FaultsBounded
<1> QED
  BY <1>1, <1>2, <1>3, Between

LEMMA MenuVobMissing ==
  ASSUME SearchInv, NoMenuVob
  PROVE  [Next]_vars /\ SearchInv'
<1>1. /\ pc = "menu" /\ Menu \notin DOMAIN Vob[disc] /\ SkipMenu /\ Next /\ Counted
      /\ UNCHANGED <<disc, css, faults, mounts>>
      /\ UNCHANGED <<auth, mine, drive, slips, search, reader, medium>>
  BY DEF NoMenuVob, Around, SkipMenu, Next, medium
<1>2. at = 0 /\ Inv'
  BY <1>1, NoSearch, Steps DEF SearchInv
<1>3. pc' \in {"menu", "title", "store"} /\ FaultsBounded'
  <2>1. CASE title = 0
    <3>1. pc' = "menu" /\ title' = 1
      BY <1>1, <2>1 DEF SkipMenu, NextTitle, Searched
    <3>2. Spent = 2 /\ Spent' = 3
      BY <1>1, <2>1, <3>1 DEF Spent
    <3> QED
      BY <1>1, <3>1, <3>2, SpentFacts DEF FaultsBounded
  <2>2. CASE title # 0
    <3>1. pc' = "title" /\ title' = title
      BY <1>1, <2>2 DEF SkipMenu
    <3>2. Spent = 1 + 2 * title /\ Spent' = 2 + 2 * title
      BY <1>1, <2>2, <3>1 DEF Spent
    <3>3. /\ faults \in Nat /\ mounts \in Nat /\ mounts >= 1 /\ title \in 0..9
          /\ faults <= 22 * (mounts - 1) + 1 + 2 * title
      BY <1>1, <3>2, SpentFacts
    <3>4. /\ faults <= 22 * mounts
          /\ faults <= 22 * (mounts - 1) + 2 + 2 * title
      BY <3>3
    <3> QED
      BY <1>1, <3>1, <3>2, <3>3, <3>4 DEF FaultsBounded
  <2> QED
    BY <2>1, <2>2
<1> QED
  BY <1>1, <1>2, <1>3, Between

LEMMA VobMissing ==
  ASSUME SearchInv, NoVob
  PROVE  [Next]_vars /\ SearchInv'
<1>1. /\ pc = "title" /\ <<title, 1>> \notin DOMAIN Vob[disc] /\ NextTitle /\ Next /\ Counted
      /\ UNCHANGED <<disc, css, faults, mounts>>
      /\ UNCHANGED <<auth, mine, drive, slips, search, reader, medium>>
  BY DEF NoVob, Around, SkipTitle, Next, medium
<1>2. at = 0 /\ Inv'
  BY <1>1, NoSearch, Steps DEF SearchInv
<1>3. pc' \in {"menu", "store"} /\ FaultsBounded'
  <2>1. title \in 1..9 /\ pc' \in {"menu", "store"} /\ title' = title + 1
    BY <1>1, SpentFacts DEF NextTitle
  <2>2. Spent = 2 + 2 * title /\ Spent' = 3 + 2 * title
    BY <1>1, <2>1 DEF Spent
  <2> QED
    BY <1>1, <2>1, <2>2, SpentFacts DEF FaultsBounded
<1> QED
  BY <1>1, <1>2, <1>3, Between

LEMMA KeysStored ==
  ASSUME SearchInv, StoreKeys
  PROVE  [Next]_vars /\ SearchInv'
<1>1. /\ pc = "store" /\ pc' = "mounted" /\ Next /\ Counted
      /\ UNCHANGED <<disc, css, mounts>> /\ faults' \in {faults, faults + 1}
      /\ UNCHANGED <<auth, mine, drive, slips, search, reader, medium>>
  BY DEF StoreKeys, Around, addKey, Next, medium
<1>2. at = 0 /\ Inv'
  BY <1>1, NoSearch, Steps DEF SearchInv
<1>3. FaultsBounded'
  <2>1. Spent = 21 /\ Spent' = 22
    BY <1>1, SpentFacts DEF Spent
  <2> QED
    BY <1>1, <2>1, SpentFacts DEF FaultsBounded
<1> QED
  BY <1>1, <1>2, <1>3, Between

LEMMA CacheCleared ==
  ASSUME SearchInv, ClearCache
  PROVE  [Next]_vars /\ SearchInv'
<1>1. /\ pc \in {"idle", "mounted"} /\ Next /\ Counted
      /\ UNCHANGED <<pc, disc, css, title, faults, mounts>>
      /\ UNCHANGED <<auth, mine, drive, slips, search, reader, medium>>
  BY DEF ClearCache, Around, clearCache, Next, medium
<1>2. at = 0 /\ Inv'
  BY <1>1, NoSearch, Steps DEF SearchInv
<1>3. FaultsBounded'
  BY <1>1 DEF SearchInv, FaultsBounded, Spent
<1> QED
  BY <1>1, <1>2, <1>3, Between

(* The drive takes back what it waits for, or is another disc's.           *)
LEMMA DriveMounts ==
  ASSUME SearchInv, auth = "idle", UNCHANGED <<auth, mine>>, failures' \in 0..MaxFailures,
         \/ taken' = taken \ pending /\ pending' = {} /\ UNCHANGED <<asf, slips>>
         \/ DriveReset
  PROVE  AuthTypeOK' /\ Grants' /\ pending' = {} /\ (slips' = slips \/ slips' = 0)
<1>1. /\ mine = {} /\ slips \in Nat /\ asf \in BOOLEAN /\ taken \subseteq Agids
  BY DEF SearchInv, SearchTypeOK, AuthTypeOK, Grants
<1>2. asf' \in BOOLEAN
  BY <1>1, Zenon DEF DriveReset
<1>3. pending' = {} /\ taken' \subseteq taken /\ slips' \in {slips, 0}
  BY DEF DriveReset
<1>4. Cardinality(pending') <= 1 /\ Cardinality(mine') <= 1
  BY <1>1, <1>3, FS_EmptySet
<1>5. AuthTypeOK'
  BY <1>1, <1>2, <1>3, <1>4 DEF AuthTypeOK
<1>6. AgidsAccounted'
  <2>1. CASE taken' = taken \ pending /\ UNCHANGED slips
    <3>1. taken' \ (mine' \cup pending') \subseteq taken \ (mine \cup pending)
      BY <1>1, <1>3, <2>1
    <3> QED
      BY <1>1, <2>1, <3>1, StillAccounted DEF SearchInv, SearchTypeOK
  <2>2. CASE DriveReset
    <3>1. taken' \ (mine' \cup pending') = {} /\ slips' = 0
      BY <2>2 DEF DriveReset
    <3> QED
      BY <3>1, FS_EmptySet DEF AgidsAccounted
  <2> QED
    BY <2>1, <2>2
<1>7. Grants'
  BY <1>1, <1>3, <1>6 DEF Grants
<1> QED
  BY <1>3, <1>5, <1>7

LEMMA DiscMounted ==
  ASSUME SearchInv, NEW d \in Discs, Mount(d)
  PROVE  [Next]_vars /\ SearchInv'
<1> USE DEF SearchInv
<1>1. /\ AskProtection(d) /\ Next /\ Counted
      /\ UNCHANGED <<auth, mine, at, encrypted, idx, reading, lent, relies, refused>>
      /\ mounts < MaxMounts /\ mounts' = mounts + 1 /\ loaded' = d
      /\ \/ taken' = taken \ pending /\ pending' = {} /\ UNCHANGED <<asf, slips>>
         \/ DriveReset
  BY DEF Mount, Next, search, reader
<1>2. /\ pc = "idle" /\ disc' = d /\ pc' \in {"lookup", "mounted"}
      /\ faults' \in {faults, faults + 1}
      /\ faults' = faults => css' = (d \in HasCss)
  BY <1>1 DEF AskProtection, Inv, TypeOK
<1>3. at = 0 /\ reading = NoTitle /\ idx = NoTitle /\ ~relies /\ ~refused /\ auth = "idle"
  BY <1>2, NoSearch, NoReader DEF Places, SearchTypeOK
<1>4. Inv'
  BY <1>1, Steps
<1>5. failures' \in 0..MaxFailures /\ (failures' = 0 => failures = 0 /\ faults' = faults)
  BY <1>1, CountedFacts
<1>6. AuthTypeOK' /\ Grants' /\ pending' = {}
  BY <1>1, <1>3, <1>5, DriveMounts
<1>7. SearchTypeOK'
  <2>1. /\ {lent', relies', refused'} \subseteq BOOLEAN /\ encrypted' \in BOOLEAN
        /\ {idx', reading'} \subseteq Nat \cup {NoTitle}
    BY <1>1 DEF SearchTypeOK
  <2>2. mounts' \in 0..MaxMounts
    BY <1>1, MountAssumption DEF SearchTypeOK
  <2>3. at' \in Nat /\ ~(at' > 0) /\ auth' = "idle" /\ reading' = NoTitle
    BY <1>1, <1>3
  <2>4. loaded' \in Discs /\ disc' = loaded'
    BY <1>1, <1>2
  <2>5. TypeOK'
    BY <1>4 DEF Inv
  <2> QED
    BY <1>6, <2>1, <2>2, <2>3, <2>4, <2>5 DEF SearchTypeOK
<1>8. FaultsBounded'
  <2>1. Spent' >= 1 /\ Spent' \in Int
    BY <1>2 DEF Spent
  <2>2. faults \in Nat /\ mounts \in Nat /\ faults <= 22 * mounts
    BY DEF Inv, TypeOK, SearchTypeOK, FaultsBounded
  <2>3. /\ mounts' >= 1 /\ faults' <= 22 * mounts'
        /\ faults' <= 22 * (mounts' - 1) + Spent'
    <3>1. mounts' = mounts + 1 /\ faults' \in {faults, faults + 1}
      BY <1>1, <1>2
    <3>2. faults' \in Nat /\ faults' <= 22 * mounts + 1
      BY <2>2, <3>1
    <3>3. mounts' >= 1 /\ faults' <= 22 * mounts'
      BY <2>2, <3>1, <3>2
    <3>4. 22 * (mounts' - 1) = 22 * mounts
      BY <2>2, <3>1
    <3>5. 22 * mounts \in Int
      BY <2>2
    <3> QED
      BY <2>1, <3>2, <3>3, <3>4, <3>5
  <2> QED
    BY <2>3 DEF FaultsBounded
<1>9. Places' /\ Unended'
  BY <1>1, <1>2, <1>3 DEF Places, Unended
<1>10. Orderly' /\ Opened'
  BY <1>1, <1>2, <1>3, <1>5, <1>6 DEF Orderly, Opened
<1> QED
  BY <1>1, <1>4, <1>6, <1>7, <1>8, <1>9, <1>10

(* A disc that is given up takes the search's and the reads' state along.  *)
LEMMA Forgotten ==
  ASSUME SearchInv, Inv', Nothing, Forget, AuthTypeOK', AgidsAccounted',
         pending' \subseteq pending, UNCHANGED <<failures, mounts>>,
         loaded' \in {loaded, NoDisc}
  PROVE  SearchInv'
<1> USE DEF SearchInv
<1>1. /\ auth' = "idle" /\ mine' = {} /\ at' = 0
      /\ idx' = NoTitle /\ reading' = NoTitle /\ ~relies' /\ ~refused'
      /\ pc' = "idle" /\ disc' = NoDisc /\ faults' = faults
  BY DEF Forget, Nothing
<1>2. SearchTypeOK'
  <2>1. {lent', relies', refused'} \subseteq BOOLEAN /\ encrypted' \in BOOLEAN
    BY Zenon DEF Forget
  <2>2. {idx', reading'} \subseteq Nat \cup {NoTitle}
    BY <1>1
  <2>3. ~(at' > 0) /\ at' \in Nat
    BY <1>1
  <2> QED
    BY <1>1, <2>1, <2>2, <2>3 DEF SearchTypeOK, Inv
<1>3. FaultsBounded'
  BY <1>1 DEF FaultsBounded
<1>4. Places' /\ Unended' /\ Grants'
  BY <1>1 DEF Places, Unended, Grants
<1>5. Orderly' /\ Opened'
  BY <1>1 DEF Orderly, Opened
<1> QED
  BY <1>2, <1>3, <1>4, <1>5

LEMMA DiscLeft ==
  ASSUME SearchInv, Leave
  PROVE  [Next]_vars /\ SearchInv'
<1>1. /\ Next /\ Nothing /\ Forget /\ auth = "idle" /\ UNCHANGED <<failures, mounts>>
      /\ loaded' \in {loaded, NoDisc}
      /\ DriveReset \/ UNCHANGED <<drive, slips>>
  BY DEF Leave, Eject, Next
<1>2. Inv'
  BY <1>1, Steps DEF SearchInv
<1>3. mine = {} /\ UNCHANGED <<auth, mine>> /\ failures' \in 0..MaxFailures
  BY <1>1 DEF SearchInv, Grants, SearchTypeOK, AuthTypeOK, Forget
<1>4. AuthTypeOK' /\ AgidsAccounted' /\ pending' \subseteq pending
  <2>1. CASE DriveReset
    BY <1>1, <1>3, <2>1, DriveMounts DEF Grants
  <2>2. CASE UNCHANGED <<drive, slips>>
    <3>1. UNCHANGED <<taken, pending, asf, slips, auth, mine, failures>>
      BY <1>1, <1>3, <2>2 DEF drive
    <3> QED
      BY <3>1 DEF SearchInv, SearchTypeOK, AuthTypeOK, Grants, AgidsAccounted
  <2> QED
    BY <1>1, <2>1, <2>2
<1> QED
  BY <1>1, <1>2, <1>4, Forgotten

LEMMA Interrupted ==
  ASSUME SearchInv, Interrupt
  PROVE  [Next]_vars /\ SearchInv'
<1>1. /\ Next /\ Nothing /\ Forget /\ UNCHANGED <<failures, mounts, loaded, taken, pending, asf>>
      /\ slips' = slips + Cardinality(mine \cap taken)
  BY DEF Interrupt, Quit, Next, drive, medium
<1>2. Inv'
  BY <1>1, Steps DEF SearchInv
<1>3. AuthTypeOK /\ Grants
  BY DEF SearchInv, SearchTypeOK
<1>4. Cardinality(mine \cap taken) \in {0, 1} /\ auth' = "idle" /\ mine' = {}
  BY <1>1, <1>3, GivenUp DEF Forget
<1>5. AuthTypeOK'
  <2>1. Cardinality(mine') <= 1
    BY <1>4, FS_EmptySet
  <2> QED
    BY <1>1, <1>3, <1>4, <2>1 DEF AuthTypeOK
<1>6. AgidsAccounted'
  <2>1. taken' \ (mine' \cup pending') \in SUBSET (taken \ pending)
    BY <1>1, <1>4
  <2> QED
    BY <1>1, <1>3, <2>1, GivenUp DEF AgidsAccounted
<1> QED
  BY <1>1, <1>2, <1>5, <1>6, Forgotten

(***************************************************************************)
(* Steps that TitleKeys does not see                                       *)
(***************************************************************************)

(* They keep what does not depend on the authentication and the reads.     *)
LEMMA Unseen ==
  ASSUME SearchInv, UNCHANGED vars, UNCHANGED medium
  PROVE  /\ [Next]_vars /\ Inv' /\ FaultsBounded'
         /\ UNCHANGED <<pc, disc, css, title, faults, loaded, mounts>>
         /\ TypeOK' /\ mounts' \in 0..MaxMounts /\ loaded' \in Discs \cup {NoDisc}
         /\ disc' # NoDisc => loaded' = disc'
<1>1. UNCHANGED <<pc, disc, css, title, faults, loaded, mounts>>
  BY DEF vars, medium
<1>2. Inv'
  BY Steps DEF SearchInv
<1>3. FaultsBounded'
  BY <1>1 DEF SearchInv, FaultsBounded, Spent
<1> QED
  BY <1>1, <1>2, <1>3 DEF Inv, SearchInv, SearchTypeOK

LEMMA FileStarted ==
  ASSUME SearchInv, StartSearch
  PROVE  [Next]_vars /\ SearchInv'
<1> USE DEF SearchInv
<1>1. /\ at = 0 /\ Vobs # {} /\ Vobs \subseteq DOMAIN Vob[disc]
      /\ at' = 1 /\ encrypted' = FALSE /\ auth' = "agid"
      /\ UNCHANGED <<mine, taken, pending, asf, slips, failures>>
      /\ UNCHANGED <<idx, reading, lent, relies, refused>>
      /\ UNCHANGED vars /\ UNCHANGED medium
  BY DEF StartSearch, drive, reader
<1>2. /\ [Next]_vars /\ Inv' /\ FaultsBounded'
      /\ UNCHANGED <<pc, disc, css, title, faults, loaded, mounts>>
      /\ TypeOK' /\ mounts' \in 0..MaxMounts /\ loaded' \in Discs \cup {NoDisc}
      /\ disc' # NoDisc => loaded' = disc'
  BY <1>1, Unseen
<1>3. pc \in {"menu", "title"} /\ Vobs' = Vobs
  BY <1>1, <1>2 DEF Vobs, Menu
<1>4. reading = NoTitle /\ idx = NoTitle /\ ~relies /\ auth = "idle" /\ mine = {}
  BY <1>1, <1>3, NoReader DEF SearchTypeOK, Grants
<1>5. SearchTypeOK'
  <2>1. /\ {lent', relies', refused'} \subseteq BOOLEAN
        /\ {idx', reading'} \subseteq Nat \cup {NoTitle}
    BY <1>1 DEF SearchTypeOK
  <2>2. AuthTypeOK'
    BY <1>1 DEF SearchTypeOK, AuthTypeOK
  <2>3. encrypted' \in BOOLEAN
    BY <1>1, Zenon
  <2> QED
    BY <1>1, <1>2, <1>3, <2>1, <2>2, <2>3 DEF SearchTypeOK
<1>6. Places'
  BY <1>1, <1>2, <1>3 DEF Places
<1>7. Unended'
  BY <1>1 DEF Unended
<1>8. Grants'
  BY <1>1, <1>4 DEF Grants, AgidsAccounted
<1>9. Orderly' /\ Opened'
  BY <1>1, <1>2, <1>4 DEF Orderly, Opened
<1> QED
  BY <1>2, <1>5, <1>6, <1>7, <1>8, <1>9

LEMMA Authenticated ==
  ASSUME SearchInv, Authenticate
  PROVE  [Next]_vars /\ SearchInv'
<1> USE DEF SearchInv
<1>1. /\ GetBusKey /\ UNCHANGED <<at, encrypted, idx, reading, lent, relies, refused>>
      /\ UNCHANGED vars /\ UNCHANGED medium
  BY DEF Authenticate, search, reader
<1>2. /\ [Next]_vars /\ Inv' /\ FaultsBounded'
      /\ UNCHANGED <<pc, disc, css, title, faults, loaded, mounts>>
      /\ TypeOK' /\ mounts' \in 0..MaxMounts /\ loaded' \in Discs \cup {NoDisc}
      /\ disc' # NoDisc => loaded' = disc'
  BY <1>1, Unseen
<1>3. Kept
  BY <1>1, BusKeyKept DEF SearchTypeOK
<1>4. SearchTypeOK'
  <2>1. /\ {lent', relies', refused'} \subseteq BOOLEAN /\ encrypted' \in BOOLEAN
        /\ {idx', reading'} \subseteq Nat \cup {NoTitle}
    BY <1>1 DEF SearchTypeOK
  <2> QED
    BY <1>1, <1>2, <1>3, <2>1 DEF SearchTypeOK, Kept
<1>5. Places' /\ Unended'
  <2>1. Vobs' = Vobs
    BY <1>2 DEF Vobs, Menu
  <2> QED
    BY <1>1, <1>2, <2>1 DEF Places, Unended
<1>6. Orderly' /\ Opened'
  <2>1. failures' = 0 => failures = 0
    BY <1>3 DEF Kept, SearchTypeOK, AuthTypeOK
  <2>2. failures = 0 => pending = {} /\ auth \notin {"invalidate", "wrongkey2", "nodisckey"}
    BY DEF Orderly
  <2>3. failures' = 0 =>
          /\ pending' = {} /\ auth' \notin {"invalidate", "wrongkey2", "nodisckey"}
          /\ slips < Cardinality(Agids) =>
               ((auth \in {"disckey", "asf"} => asf) =>
                  (auth' \in {"disckey", "asf", "over"} => asf'))
    BY <1>1, <2>2, BusKeyOpens DEF SearchTypeOK
  <2>4. slips' < Cardinality(Agids) => slips < Cardinality(Agids)
    <3>1. slips \in Nat /\ slips' \in Nat /\ slips <= slips' /\ Cardinality(Agids) \in Nat
      BY <1>3, Fewer DEF Kept, AuthTypeOK, SearchTypeOK
    <3> QED
      BY <3>1
  <2>5. auth' # "idle"
    BY <1>3 DEF Kept
  <2> QED
    BY <1>1, <1>2, <2>1, <2>3, <2>4, <2>5 DEF Orderly, Opened
<1> QED
  BY <1>2, <1>3, <1>4, <1>5, <1>6 DEF Kept

LEMMA ReadStarted ==
  ASSUME SearchInv, StartRead
  PROVE  [Next]_vars /\ SearchInv'
<1> USE DEF SearchInv
<1>0. PICK t \in Titles(disc) :
        /\ reading' = t
        /\ auth' = IF css /\ idx # t THEN "agid" ELSE "over"
        /\ relies' = (idx = t /\ lent)
  BY DEF StartRead, Stale
<1>1. /\ pc = "mounted" /\ reading = NoTitle /\ t \in Nat /\ t # NoTitle
      /\ UNCHANGED <<mine, taken, pending, asf, slips, failures, at, encrypted>>
      /\ UNCHANGED <<idx, lent, refused>>
      /\ UNCHANGED vars /\ UNCHANGED medium
  <2>1. pc = "mounted" /\ disc \in Discs
    BY DEF StartRead, SearchTypeOK, TypeOK
  <2>2. t \in Nat
    BY <2>1, VobFacts
  <2> QED
    BY <2>1, <2>2 DEF StartRead, drive, search, NoTitle
<1>2. /\ [Next]_vars /\ Inv' /\ FaultsBounded'
      /\ UNCHANGED <<pc, disc, css, title, faults, loaded, mounts>>
      /\ TypeOK' /\ mounts' \in 0..MaxMounts /\ loaded' \in Discs \cup {NoDisc}
      /\ disc' # NoDisc => loaded' = disc'
  BY <1>1, Unseen
<1>3. at = 0 /\ auth = "idle" /\ mine = {}
  BY <1>1, NoSearch DEF SearchTypeOK, Grants
<1>4. SearchTypeOK'
  <2>1. relies' \in BOOLEAN
    BY <1>0, Zenon
  <2>2. {lent', refused'} \subseteq BOOLEAN /\ encrypted' \in BOOLEAN
    BY <1>1 DEF SearchTypeOK
  <2>3. {idx', reading'} \subseteq Nat \cup {NoTitle}
    BY <1>0, <1>1 DEF SearchTypeOK
  <2>4. auth' \in {"agid", "over"} /\ AuthTypeOK'
    BY <1>0, <1>1 DEF SearchTypeOK, AuthTypeOK
  <2>5. at' \in Nat /\ ~(at' > 0)
    BY <1>1, <1>3
  <2> QED
    BY <1>0, <1>1, <1>2, <2>1, <2>2, <2>3, <2>4, <2>5 DEF SearchTypeOK
<1>5. Places' /\ Unended'
  BY <1>0, <1>1, <1>2, <1>3 DEF Places, Unended
<1>6. Grants'
  BY <1>0, <1>1, <1>3 DEF Grants, AgidsAccounted
<1>7. Orderly'
  BY <1>0, <1>1, <1>2 DEF Orderly
<1>8. Opened'
  <2> SUFFICES ASSUME failures = 0, slips < Cardinality(Agids)
               PROVE  /\ ~refused
                      /\ auth' = "over" /\ ~relies' /\ css => asf
                      /\ idx # NoTitle /\ ~lent => asf
    BY <1>0, <1>1, <1>2, <1>3 DEF Opened
  <2>1. ~refused /\ (idx # NoTitle /\ ~lent => asf)
    BY <1>3 DEF Opened
  <2>2. auth' = "over" /\ css => idx = t
    BY <1>0
  <2>3. auth' = "over" /\ css /\ ~relies' => ~lent
    BY <1>0, <2>2
  <2> QED
    BY <1>1, <2>1, <2>2, <2>3
<1> QED
  BY <1>2, <1>4, <1>5, <1>6, <1>7, <1>8

LEMMA ReadFinished ==
  ASSUME SearchInv, FinishRead
  PROVE  [Next]_vars /\ SearchInv'
<1> USE DEF SearchInv
<1>1. /\ reading # NoTitle /\ auth = "over"
      /\ IF css THEN idx' = reading /\ lent' = relies ELSE UNCHANGED <<idx, lent>>
      /\ reading' = NoTitle /\ relies' = FALSE /\ auth' = "idle"
      /\ UNCHANGED <<mine, asf, slips, at, encrypted>>
      /\ UNCHANGED vars /\ UNCHANGED medium
  BY DEF FinishRead, search
<1>2. PICK i \in BlocksOf(disc, reading) :
       \/ /\ Performed /\ UNCHANGED taken
          /\ refused' = (refused \/ (Shut(Blocks[disc][i]) /\ ~relies))
       \/ NotPerformed /\ UNCHANGED refused
  BY DEF FinishRead
<1>3. /\ [Next]_vars /\ Inv' /\ FaultsBounded'
      /\ UNCHANGED <<pc, disc, css, title, faults, loaded, mounts>>
      /\ TypeOK' /\ mounts' \in 0..MaxMounts /\ loaded' \in Discs \cup {NoDisc}
      /\ disc' # NoDisc => loaded' = disc'
  BY <1>1, Unseen
<1>4. pc = "mounted" /\ at = 0 /\ mine = {} /\ disc \in Discs
  BY <1>1, NoSearch DEF Places, Grants, SearchTypeOK, TypeOK
<1>5. /\ failures' \in 0..MaxFailures /\ failures <= failures'
      /\ taken' \subseteq taken /\ pending' = {} /\ pending' \subseteq taken'
      /\ taken' \ pending' = taken \ pending
  BY <1>2, CommandFacts DEF SearchTypeOK
<1>6. AuthTypeOK'
  <2>1. Cardinality(pending') <= 1
    BY <1>5, FS_EmptySet
  <2> QED
    BY <1>1, <1>5, <2>1 DEF SearchTypeOK, AuthTypeOK
<1>7. SearchTypeOK'
  <2>1. relies' \in BOOLEAN /\ refused' \in BOOLEAN /\ lent' \in BOOLEAN
    BY <1>1, <1>2, Zenon DEF SearchTypeOK
  <2>2. encrypted' \in BOOLEAN /\ {idx', reading'} \subseteq Nat \cup {NoTitle}
    BY <1>1 DEF SearchTypeOK
  <2>3. at' \in Nat /\ ~(at' > 0)
    BY <1>1, <1>4
  <2> QED
    BY <1>1, <1>3, <1>6, <2>1, <2>2, <2>3 DEF SearchTypeOK
<1>8. Places' /\ Unended'
  BY <1>1, <1>3, <1>4 DEF Places, Unended
<1>9. Grants'
  <2>1. AgidsAccounted'
    BY <1>1, <1>4, <1>5, StillAccounted DEF SearchTypeOK, AuthTypeOK
  <2> QED
    BY <1>1, <1>4, <2>1 DEF Grants
<1>10. failures' = 0 => failures = 0
  BY <1>5 DEF SearchTypeOK, AuthTypeOK
<1>11. Orderly'
  BY <1>1, <1>3, <1>5, <1>10 DEF Orderly
<1>12. Opened'
  <2> SUFFICES ASSUME failures' = 0, slips' < Cardinality(Agids)
               PROVE  ~refused' /\ (idx' # NoTitle /\ ~lent' => asf')
    BY <1>1 DEF Opened
  <2>1. failures = 0 /\ slips < Cardinality(Agids)
    BY <1>1, <1>10
  <2>2. /\ ~refused /\ css = (disc \in HasCss)
        /\ ~relies /\ css => asf
        /\ idx # NoTitle /\ ~lent => asf
    BY <1>1, <1>4, <2>1, DiscAssumption DEF Opened, Orderly
  <2>3. i \in DOMAIN Blocks[disc]
    BY <1>2 DEF BlocksOf
  <2>4. ~css => ~Scrambled(Blocks[disc][i])
    BY <1>4, <2>2, <2>3, PlainAssumption
  <2>5. ~(Shut(Blocks[disc][i]) /\ ~relies)
    BY <2>2, <2>4 DEF Shut
  <2>6. ~refused'
    BY <1>2, <2>2, <2>5
  <2> QED
    BY <1>1, <2>2, <2>6
<1> QED
  BY <1>3, <1>7, <1>8, <1>9, <1>11, <1>12

(* A title put in force or taken out of it under a read's feet.            *)
LEMMA TitleMoved ==
  ASSUME SearchInv, pc = "mounted", idx' \in Nat \cup {NoTitle}, lent' = (idx' # NoTitle),
         UNCHANGED <<vars, authvars, search, medium, reading, relies, refused>>
  PROVE  [Next]_vars /\ SearchInv'
<1> USE DEF SearchInv
<1>1. /\ UNCHANGED <<auth, mine, taken, pending, asf, slips, failures, at, encrypted>>
      /\ UNCHANGED vars /\ UNCHANGED medium
  BY DEF authvars, search
<1>2. /\ [Next]_vars /\ Inv' /\ FaultsBounded'
      /\ UNCHANGED <<pc, disc, css, title, faults, loaded, mounts>>
      /\ TypeOK' /\ mounts' \in 0..MaxMounts /\ loaded' \in Discs \cup {NoDisc}
      /\ disc' # NoDisc => loaded' = disc'
  BY <1>1, Unseen
<1>3. at = 0
  BY NoSearch
<1>4. SearchTypeOK'
  <2>1. lent' \in BOOLEAN
    BY Zenon
  <2>2. {relies', refused'} \subseteq BOOLEAN /\ encrypted' \in BOOLEAN
    BY <1>1 DEF SearchTypeOK
  <2>3. AuthTypeOK'
    BY <1>1 DEF SearchTypeOK, AuthTypeOK
  <2>4. {idx', reading'} \subseteq Nat \cup {NoTitle}
    BY DEF SearchTypeOK
  <2> QED
    BY <1>1, <1>2, <1>3, <2>1, <2>2, <2>3, <2>4 DEF SearchTypeOK
<1>5. Places' /\ Unended'
  BY <1>1, <1>2, <1>3 DEF Places, Unended
<1>6. Grants'
  BY <1>1 DEF Grants, AgidsAccounted
<1>7. Orderly' /\ Opened'
  BY <1>1, <1>2 DEF Orderly, Opened
<1> QED
  BY <1>2, <1>4, <1>5, <1>6, <1>7

LEMMA FileClosed ==
  ASSUME SearchInv, CloseFile
  PROVE  [Next]_vars /\ SearchInv'
<1>1. pc = "mounted" /\ idx' = NoTitle /\ lent' = (idx' # NoTitle)
  BY DEF CloseFile
<1>2. idx' \in Nat \cup {NoTitle}
  BY <1>1
<1> QED
  BY <1>1, <1>2, TitleMoved DEF CloseFile

LEMMA Unmoved ==
  ASSUME SearchInv, UNCHANGED allvars
  PROVE  [Next]_vars /\ SearchInv'
<1> USE DEF SearchInv
<1>1. /\ UNCHANGED vars /\ UNCHANGED medium
      /\ UNCHANGED <<auth, mine, taken, pending, asf, slips, failures, at, encrypted>>
      /\ UNCHANGED <<idx, reading, lent, relies, refused>>
  BY DEF allvars, authvars, search, reader
<1>2. /\ [Next]_vars /\ Inv' /\ FaultsBounded'
      /\ UNCHANGED <<pc, disc, css, title, faults, loaded, mounts>>
  BY <1>1, Unseen
<1>3. SearchTypeOK'
  BY <1>1, <1>2 DEF SearchTypeOK, AuthTypeOK, Inv
<1>4. Places' /\ Unended'
  <2>1. Vobs' = Vobs
    BY <1>2 DEF Vobs, Menu
  <2> QED
    BY <1>1, <1>2, <2>1 DEF Places, Unended
<1>5. Grants' /\ Orderly' /\ Opened'
  BY <1>1, <1>2 DEF Grants, AgidsAccounted, Orderly, Opened
<1> QED
  BY <1>2, <1>3, <1>4, <1>5

LEMMA IfoCached ==
  ASSUME SearchInv, CacheIfo
  PROVE  [Next]_vars /\ SearchInv'
<1>1. pc = "mounted" /\ lent' = (idx' # NoTitle)
  BY DEF CacheIfo
<1>2. disc \in Discs
  BY <1>1 DEF SearchInv, SearchTypeOK, TypeOK
<1>3. Titles(disc) \subseteq Nat
  BY <1>2, VobFacts
<1>4. idx' \in Nat \cup {NoTitle}
  BY <1>3 DEF CacheIfo
<1> QED
  BY <1>1, <1>4, TitleMoved DEF CacheIfo

(***************************************************************************)
(* The invariant and what follows                                          *)
(***************************************************************************)

LEMMA SearchInitially == SearchInit => SearchInv
<1> SUFFICES ASSUME SearchInit PROVE SearchInv
  OBVIOUS
<1>1. Inv /\ TypeOK
  BY Initially DEF SearchInit, Inv
<1>2. /\ auth = "idle" /\ mine = {} /\ taken = {} /\ pending = {} /\ slips = 0 /\ failures = 0
      /\ at = 0 /\ mounts = 0 /\ idx = NoTitle /\ reading = NoTitle /\ ~relies /\ ~refused
      /\ loaded = NoDisc /\ disc = NoDisc /\ pc = "idle" /\ faults = 0
  BY DEF SearchInit, Init, AuthInit
<1>3. Cardinality({}) = 0
  BY FS_EmptySet
<1>4. AuthTypeOK
  <2>1. asf \in BOOLEAN
    BY Zenon DEF SearchInit, AuthInit
  <2> QED
    BY <1>2, <1>3, <2>1, AuthAssumption DEF AuthTypeOK
<1>5. SearchTypeOK
  <2>1. {lent, relies, refused} \subseteq BOOLEAN /\ encrypted \in BOOLEAN
    BY Zenon DEF SearchInit
  <2>2. mounts \in 0..MaxMounts
    BY <1>2, MountAssumption
  <2> QED
    BY <1>1, <1>2, <1>4, <2>1, <2>2 DEF SearchTypeOK
<1>6. FaultsBounded /\ Places /\ Unended
  BY <1>2 DEF FaultsBounded, Places, Unended
<1>7. Grants
  <2>1. taken \ (mine \cup pending) = {}
    BY <1>2
  <2> QED
    BY <1>2, <1>3, <2>1 DEF Grants, AgidsAccounted
<1>8. Orderly /\ Opened
  BY <1>2 DEF Orderly, Opened
<1> QED
  BY <1>1, <1>5, <1>6, <1>7, <1>8 DEF SearchInv

(* Every step of the detailed search is a step of TitleKeys or none, and   *)
(* keeps the invariant.                                                    *)
LEMMA SearchSteps == SearchInv /\ [SearchNext]_allvars => [Next]_vars /\ SearchInv'
<1> SUFFICES ASSUME SearchInv, [SearchNext]_allvars PROVE [Next]_vars /\ SearchInv'
  OBVIOUS
<1>1. CASE \E d \in Discs : Mount(d)
  BY <1>1, DiscMounted
<1>2. CASE UseCache
  BY <1>2, CacheUsed
<1>3. CASE NoCache
  BY <1>3, SearchStarted
<1>4. CASE NoMenuVob
  BY <1>4, MenuVobMissing
<1>5. CASE NoVob
  BY <1>5, VobMissing
<1>6. CASE StoreKeys
  BY <1>6, KeysStored
<1>7. CASE Leave
  BY <1>7, DiscLeft
<1>8. CASE Interrupt
  BY <1>8, Interrupted
<1>9. CASE ClearCache
  BY <1>9, CacheCleared
<1>10. CASE StartSearch
  BY <1>10, FileStarted
<1>11. CASE Authenticate
  BY <1>11, Authenticated
<1>12. CASE ReadFails
  BY <1>12, FailedRead
<1>13. CASE ReadBlock
  BY <1>13, BlockRead
<1>14. CASE StartRead
  BY <1>14, ReadStarted
<1>15. CASE FinishRead
  BY <1>15, ReadFinished
<1>16. CASE CloseFile
  BY <1>16, FileClosed
<1>17. CASE CacheIfo
  BY <1>17, IfoCached
<1>18. CASE UNCHANGED allvars
  BY <1>18, Unmoved
<1> QED
  BY <1>1, <1>2, <1>3, <1>4, <1>5, <1>6, <1>7, <1>8, <1>9, <1>10, <1>11, <1>12,
     <1>13, <1>14, <1>15, <1>16, <1>17, <1>18 DEF SearchNext

(* The inductive invariant of the detailed search.                         *)
THEOREM SearchInvariant == SearchSpec => []SearchInv
<1>1. SearchInit => SearchInv
  BY SearchInitially
<1>2. SearchInv /\ [SearchNext]_allvars => SearchInv'
  BY SearchSteps
<1> QED
  BY <1>1, <1>2, PTL DEF SearchSpec

(* The state of the search, of an authentication and of the reads of VOB   *)
(* files keeps its type.                                                   *)
THEOREM SearchTypeCorrect == SearchSpec => []SearchTypeOK
<1>1. SearchInv => SearchTypeOK
  BY DEF SearchInv
<1> QED
  BY <1>1, SearchInvariant, PTL

(* The loop over blocks, with an authentication before each and commands   *)
(* that fail anywhere, is the search of TitleKeys: it finds what a search  *)
(* finds at once, or fails as a search may.                                *)
THEOREM SearchImplements == SearchSpec => Searches
<1>1. SearchInit => Init
  BY DEF SearchInit
<1>2. SearchInv /\ [SearchNext]_allvars => [Next]_vars
  BY SearchSteps
<1> QED
  BY <1>1, <1>2, SearchInvariant, PTL DEF SearchSpec, Searches, Spec

(* With the search block by block, too, a protected title of a regular     *)
(* disc has its own key at its number.                                     *)
THEOREM SearchedInPlace == SearchSpec => []InPlace
<1>1. SearchInv => InPlace
  BY DEF SearchInv, Inv
<1> QED
  BY <1>1, SearchInvariant, PTL

(* With the search block by block, too, keys come out of the cache file as *)
(* they went in.                                                           *)
THEOREM SearchedFaithful == SearchSpec => []Faithful
<1>1. SearchInv => Faithful
  BY DEF SearchInv, Inv
<1> QED
  BY <1>1, SearchInvariant, PTL

(* With the search block by block, too, what is known of a disc stays      *)
(* known until the cache is cleared.                                       *)
THEOREM SearchedKnownStays == SearchSpec => KnownStays
  BY SearchImplements, KnownKeysStay DEF Searches

(* Whatever commands fail, however the drive takes the invalidation, and   *)
(* wherever the program ends: no AGID outlives its call but those counted  *)
(* as slipped.                                                             *)
THEOREM AgidsAccountedFor == SearchSpec => []AgidsAccounted
<1>1. SearchInv => AgidsAccounted
  BY DEF SearchInv, Grants
<1> QED
  BY <1>1, SearchInvariant, PTL

(* As long as no command fails and an AGID is left, a drive refuses no     *)
(* block, to a search or a file read, in any order of opens, reads, closes *)
(* and caching passes, but to a read that a caching pass lent its title.   *)
THEOREM DriveNeverRefuses == SearchSpec => []NeverRefused
<1>1. SearchInv => NeverRefused
  BY DEF SearchInv, Opened, NeverRefused
<1> QED
  BY <1>1, SearchInvariant, PTL

=============================================================================
