----------------------------- MODULE MsisdnProofs -----------------------------
(***************************************************************************)
(* Reading a number twice: what the page makes of whatever a payer types,  *)
(* the client reads as itself, for numbers of any length and prefixes of   *)
(* any digits but a leading 0.                                             *)
(***************************************************************************)
EXTENDS Msisdn, FiniteSetTheorems, TLAPS

LEMMA AFunctionIsASeq ==
    ASSUME NEW S, NEW n \in Nat, NEW s \in [1 .. n -> S]
    PROVE  s \in Seq(S) /\ Len(s) = n
<1>1. Len(s) = n
  OBVIOUS
<1>2. s \in Seq(S)
  OBVIOUS
<1> QED
  BY <1>1, <1>2

(* A number with no separator in it is left as it is.                      *)
LEMMA NothingToRemove ==
    ASSUME NEW S, NEW number \in Seq(S),
           \A i \in 1 .. Len(number) : number[i] # "-"
    PROVE  WithoutSeparators(number) = number
<1> DEFINE n == Len(number)
           kept == {i \in 1 .. Len(number) : number[i] # "-"}
           nth(k) == CHOOSE i \in kept : Cardinality({j \in kept : j <= i}) = k
<1>1. n \in Nat
  OBVIOUS
<1>2. kept = 1 .. n
  OBVIOUS
<1>3. ASSUME NEW i \in 0 .. n PROVE Cardinality({j \in kept : j <= i}) = i
  <2>1. {j \in kept : j <= i} = 1 .. i
    BY <1>1, <1>2
  <2>2. Cardinality(1 .. i) = i
    BY <1>1, FS_Interval, i \in Int
  <2> QED
    BY <2>1, <2>2
<1>4. Cardinality(kept) = n
  <2>1. {j \in kept : j <= n} = kept
    BY <1>1, <1>2
  <2> QED
    BY <1>1, <1>3, <2>1
<1>5. ASSUME NEW k \in 1 .. n PROVE nth(k) = k
  <2>1. k \in kept /\ Cardinality({j \in kept : j <= k}) = k
    BY <1>1, <1>2, <1>3
  <2>2. nth(k) \in kept /\ Cardinality({j \in kept : j <= nth(k)}) = k
    BY <2>1
  <2> QED
    BY <1>1, <1>2, <1>3, <2>2
<1>6. WithoutSeparators(number) = [k \in 1 .. Cardinality(kept) |-> number[nth(k)]]
  BY DEF WithoutSeparators
<1> HIDE DEF kept, nth
<1>7. WithoutSeparators(number) = [k \in 1 .. n |-> number[k]]
  BY <1>4, <1>5, <1>6
<1> QED
  BY <1>7

(* Nor is one that begins with a digit other than 0 stripped of anything.  *)
LEMMA NothingToStrip ==
    ASSUME NEW number \in Seq(Digits), number # <<>>, Head(number) # "0"
    PROVE  Stripped(number) = number
<1>1. \A i \in 1 .. Len(number) : number[i] # "-"
  BY FormatsAssumption
<1>2. WithoutSeparators(number) = number
  BY <1>1, NothingToRemove
<1>3. Head(number) # "+" /\ number[1] # "0"
  BY FormatsAssumption
<1> QED
  BY <1>2, <1>3 DEF Stripped

(* Whatever the payer typed, the number it was taken for is read as itself *)
(* when it is sent, its country code neither dropped nor put before it a   *)
(* second time (normalize_msisdn, payer_msisdn, validate_msisdn).          *)
THEOREM ReadTwiceTheSame == CountryCodes => ValidNumbers = PayerNumbers
<1> SUFFICES ASSUME CountryCodes, NEW t \in Typed, NEW f \in Formats,
                    NormalizeMsisdn(t, f) # NoNumber
             PROVE  NormalizeMsisdn(NormalizeMsisdn(t, f), f) = NormalizeMsisdn(t, f)
  BY DEF ValidNumbers, PayerNumbers
<1> DEFINE number == NormalizeMsisdn(t, f)
<1>1. HasShape(number, f)
  BY DEF NormalizeMsisdn
<1> HIDE DEF number
<1>2. PICK national \in [1 .. f.length -> Digits] : number = f.prefix \o national
  BY <1>1 DEF HasShape
<1>3. /\ f.prefix \in Seq(Digits) /\ f.prefix # <<>> /\ f.length \in Nat \ {0}
      /\ Head(f.prefix) # "0"
  BY FormatsAssumption DEF CountryCodes
<1>4. national \in Seq(Digits) /\ Len(national) = f.length
  BY <1>3, AFunctionIsASeq
<1>5. /\ number \in Seq(Digits) /\ number # <<>> /\ Head(number) # "0"
      /\ Len(number) # f.length
  BY <1>2, <1>3, <1>4
<1>6. Stripped(number) = number
  BY <1>5, NothingToStrip
<1>7. NormalizeMsisdn(number, f) = number
  BY <1>1, <1>5, <1>6 DEF NormalizeMsisdn
<1> QED
  BY <1>7 DEF number
=============================================================================
