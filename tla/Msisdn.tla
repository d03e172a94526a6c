-------------------------------- MODULE Msisdn --------------------------------
(***************************************************************************)
(* providers/msisdn.py: how a payer's number is read, when the page takes  *)
(* it (payer_msisdn) and again before it is sent (validate_msisdn).        *)
(* A number is a sequence of characters.                                   *)
(***************************************************************************)
EXTENDS Naturals, Sequences, FiniteSets

CONSTANTS
    Digits,         \* the digits looked at, "0" among them
    Others,         \* "+", a separator, and a character no number has
    MaxTyped,       \* bound: how many characters the payer types
    Formats         \* the settings: msisdn_prefix and msisdn_national_length

(* validate_msisdn_format: a prefix of digits, a length above 0.           *)
ASSUME FormatsAssumption ==
    /\ MaxTyped \in Nat /\ "0" \in Digits /\ {"+", "-"} \cap Digits = {}
    /\ \A f \in Formats :
          /\ f.prefix \in Seq(Digits) /\ f.prefix # <<>>
          /\ f.length \in Nat \ {0}

Typed == UNION {[1 .. n -> Digits \cup Others] : n \in 0 .. MaxTyped}

NoNumber == <<>>

(* SEPARATORS.sub: the other characters stay, in their order.              *)
WithoutSeparators(number) ==
    LET kept   == {i \in 1 .. Len(number) : number[i] # "-"}
        nth(k) == CHOOSE i \in kept : Cardinality({j \in kept : j <= i}) = k
    IN  [k \in 1 .. Cardinality(kept) |-> number[nth(k)]]

(* One leading + or 00 goes too.                                           *)
Stripped(number) ==
    LET msisdn == WithoutSeparators(number)
    IN  IF msisdn # <<>> /\ Head(msisdn) = "+" THEN Tail(msisdn)
        ELSE IF Len(msisdn) >= 2 /\ msisdn[1] = "0" /\ msisdn[2] = "0"
             THEN SubSeq(msisdn, 3, Len(msisdn))
        ELSE msisdn

HasShape(msisdn, f) ==
    \E national \in [1 .. f.length -> Digits] : msisdn = f.prefix \o national

(* A bug: the national number alone is kept as it is.                      *)
NationalIsKept(number, f) ==
    LET msisdn == Stripped(number)
    IN  IF Len(msisdn) = f.length \/ HasShape(msisdn, f) THEN msisdn ELSE NoNumber

NormalizeMsisdn(number, f) ==
    LET stripped == Stripped(number)
        msisdn == IF Len(stripped) = f.length THEN f.prefix \o stripped ELSE stripped
    IN  IF HasShape(msisdn, f) THEN msisdn ELSE NoNumber

(* The numbers an attempt may be started for: payer_msisdn.                *)
PayerNumbers == {<<NormalizeMsisdn(t, f), f>> : t \in Typed, f \in Formats} \
                    {<<NoNumber, f>> : f \in Formats}

(* What the settings' message asks of a country code, and their check does *)
(* not: "without + or 00" (validate_msisdn_format).                        *)
CountryCodes == \A f \in Formats : Head(f.prefix) # "0"

(* Those validate_msisdn lets pass: normalizing gives the same number back.*)
ValidNumbers == {n \in PayerNumbers : NormalizeMsisdn(n[1], n[2]) = n[1]}
=============================================================================
