----------------------------- MODULE MCAlgorithms -----------------------------
(* Password on a small instance, beside Totp on inputs that are chosen one  *)
(* at a time: the two have nothing in common.                               *)
EXTENDS Password, Totp

VARIABLE input

NoInput == [of |-> "nothing"]

\* One-time passwords: digests of 20 bytes that select each of their places, two
\* periods of them, and the numbers of digits at and around every bound.
Digests == {[c \in 0..2 |-> [k \in 1..20 |-> (a * k + b + 83 * c) % 256]] :
               a \in {1, 37, 253}, b \in {0, 1, 128, 200}}

TotpInputs ==
    [of: {"totp"}, record: [type: {"otp", "text"}, digits: -1..20, period: {-1, 0, 30, 20}],
     digest: Digests, time: {0, 29, 30, 59}]

MCInit == Init /\ input = NoInput

\* An input is given to its algorithm before a password is made.
Give ==
    /\ pc = "shuffle" /\ i = length - 1 /\ excluded = {}
    /\ input = NoInput
    /\ input' \in TotpInputs
    /\ UNCHANGED vars

MCNext == (input = NoInput /\ Next /\ UNCHANGED input) \/ Give

MCSpec == MCInit /\ [][MCNext]_<<vars, input>>

\* A one-time password is the one of RFC 6238 on every build (GenerateTOTP, hotp).
CodesAreExact ==
    input.of = "totp" => CodeIsExact(input.record, input.digest, input.time)
===============================================================================
