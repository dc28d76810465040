----------------------------- MODULE MCDynamoDb -----------------------------
(* Keys and symmetry for checking DynamoDb with TLC: times with one and    *)
(* two digits on both sides of Now, the largest tenant id, and a session   *)
(* id in lower case.                                                       *)
EXTENDS DynamoDb

MCKeys == {[at |-> 9, tenant |-> 0, session |-> <<LetterX>>],
           [at |-> 10, tenant |-> 9, session |-> <<LetterX>>],
           [at |-> 11, tenant |-> 1, session |-> <<LetterA>>]}

WriterSymmetry == Permutations(Writers)
=============================================================================
