----------------------------- MODULE DynamoKeys -----------------------------
(***************************************************************************)
(* Composite keys (aws/dynamodb_keys.py): the parts of a key are written   *)
(* one after the other into one string, and DynamoDB knows and orders rows *)
(* by that string.  A string is a sequence of character codes.  The keys   *)
(* are range keys of pending events: the time an event is due, the         *)
(* tenant, the session.                                                    *)
(***************************************************************************)
EXTENDS Integers, Sequences, FiniteSets

CONSTANTS
    AtWidth,        \* digits of activeAt, 19 in the code
    TenantWidth     \* digits of tenantId, 12 in the code

ASSUME WidthAssumption == AtWidth \in Nat \ {0} /\ TenantWidth \in Nat \ {0}

(* Character codes, in their order: tab, the digits, upper case, lower     *)
(* case.                                                                   *)
Tab == 0
Digit(d) == d + 1
LetterX == 11
LetterA == 12

Strings == Seq(Nat)

(* Comparison of strings, as DynamoDB orders range keys: the first place   *)
(* where they differ decides.                                              *)
StringBefore(s, t) ==
    \E n \in 0..Len(s) :
        /\ n <= Len(t) /\ \A i \in 1..n : s[i] = t[i]
        /\ n < Len(t) /\ (n < Len(s) => s[n + 1] < t[n + 1])

StringAtMost(s, t) == s = t \/ StringBefore(s, t)

(* n without its last d digits *)
Shift(n, d) == LET left[i \in 0..d] == IF i = 0 THEN n ELSE left[i - 1] \div 10 IN left[d]

(* n written with so many digits *)
Decimal(n, width) == [i \in 1..width |-> Digit(Shift(n, width - i) % 10)]

(* str(n) has the digits up to the first that is not a leading zero. *)
DigitCount(n) == CHOOSE d \in 1..(n + 1) : Shift(n, d) = 0 /\ (d > 1 => Shift(n, d - 1) # 0)

(* int(s) *)
Number(s) ==
    LET value[i \in 0..Len(s)] == IF i = 0 THEN 0 ELSE 10 * value[i - 1] + (s[i] - Digit(0))
    IN  value[Len(s)]

(* A fault for FormatInt: numbers are not filled up to their width. *)
FormatIntBare(n, width) == Decimal(n, DigitCount(n))

(* _IntFormatter.format: zeros fill the number up to its width, a longer   *)
(* number stays as it is.                                                  *)
FormatInt(n, width) == Decimal(n, IF Shift(n, width) = 0 THEN width ELSE DigitCount(n))

(* Key.prep_for_serialization for a pending event: the parts, joined by    *)
(* the delimiter (CompositeKey.build_key).  A session id has no width.     *)
Joined(a, b, c) == a \o <<Tab>> \o b \o <<Tab>> \o c
RangeKey(k) == Joined(FormatInt(k.at, AtWidth), FormatInt(k.tenant, TenantWidth), k.session)

(* key.split(delimiter): what stands between two cuts *)
Cuts(s) == {0, Len(s) + 1} \cup {p \in DOMAIN s : s[p] = Tab}
Cut(s, n) == CHOOSE p \in Cuts(s) : Cardinality({c \in Cuts(s) : c < p}) = n
Part(s, i) == SubSeq(s, Cut(s, i - 1) + 1, Cut(s, i) - 1)

(* prep_for_deserialization *)
Parts(s) == [at |-> Number(Part(s, 1)), tenant |-> Number(Part(s, 2)), session |-> Part(s, 3)]

(* le_filter(None, (now, _MAX_TENANT_ID, "X")): the largest tenant id has  *)
(* every digit 9.                                                          *)
MaxTenant == Number([i \in 1..TenantWidth |-> Digit(9)])
DueBound(now) == RangeKey([at |-> now, tenant |-> MaxTenant, session |-> <<LetterX>>])
=============================================================================
