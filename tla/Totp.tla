---------------------------------- MODULE Totp ----------------------------------
(***************************************************************************)
(* Time-based one-time passwords (client/crypto/totp.go) and how a record   *)
(* gives one (client/service/otp.go).  The hash is not modelled: a digest   *)
(* is a sequence of bytes.  A 32-bit word is a pair of 16-bit halves,       *)
(* because TLC's integers have 32 bits with a sign.                        *)
(***************************************************************************)
EXTENDS Integers, Sequences, FiniteSetsExt

Byte == 0..255
Half == 65536

NoCode == [digits |-> 0, value |-> -1]

defaultDigits == 6
defaultPeriod == 30

-------------------------------------------------------------------------------
(* Words and powers of ten.                                                *)

Zero == [hi |-> 0, lo |-> 0]
MaxWord == [hi |-> Half - 1, lo |-> Half - 1]

TimesTen(w) ==
    LET lo == w.lo * 10
    IN  [hi |-> (w.hi * 10 + lo \div Half) % Half, lo |-> lo % Half]

\* 10^n modulo 2^32.
PowerOfTen[n \in 0..18] ==
    IF n = 0 THEN [hi |-> 0, lo |-> 1] ELSE TimesTen(PowerOfTen[n - 1])

\* uint32(math.Pow10(digits)).  A fraction becomes 0.  What becomes of a float that does
\* not fit depends on the processor: the low half of its 64 bits, 0 when it does not
\* fit there either (amd64), or the largest word (arm64).
Moduli(digits) ==
    IF digits < 0 THEN {Zero}
    ELSE IF digits <= 9 THEN {PowerOfTen[digits]}
    ELSE {IF digits <= 18 THEN PowerOfTen[digits] ELSE Zero, MaxWord}

-------------------------------------------------------------------------------
\* Mutant of Offset: the first byte is taken for the last.
OffsetOfFirst(sum) == sum[1] % 16

\* Dynamic truncation (RFC 4226).
Offset(sum) == sum[Len(sum)] % 16

Truncated(sum) ==
    LET o == Offset(sum) + 1
        w == [hi |-> sum[o] * 256 + sum[o + 1], lo |-> sum[o + 2] * 256 + sum[o + 3]]
    IN  (w.hi % (Half \div 2)) * Half + w.lo

\* truncated % mod; a modulus of 2^31 or more leaves it as it is.
Modulo(truncated, mod) ==
    IF mod.hi >= Half \div 2 THEN truncated ELSE truncated % (mod.hi * Half + mod.lo)

\* The codes the builds compute.  A modulus of 0 is a panic.
Hotp(sum, digits) ==
    {IF mod = Zero THEN NoCode ELSE [digits |-> digits, value |-> Modulo(Truncated(sum), mod)] :
        mod \in Moduli(digits)}

\* digest[c] is the HMAC of counter c.  A negative period becomes a huge divisor.
GenerateTOTP(digest, digits, period, time) ==
    LET d == IF digits = 0 THEN defaultDigits ELSE digits
        p == IF period = 0 THEN defaultPeriod ELSE period
    IN  Hotp(digest[IF p < 0 THEN 0 ELSE time \div p], d)

\* Another record than a one-time password has no code.
CurrentTOTP(record, digest, time) ==
    IF record.type = "otp"
    THEN GenerateTOTP(digest, record.digits, record.period, time)
    ELSE {}

-------------------------------------------------------------------------------
(* What a code should be.                                                  *)

\* RFC 4226, 5.3: the low 31 bits of the four bytes that the low 4 bits of the last
\* byte select.  Bit n is in byte 3 - n \div 8 of the four.
Selected(sum, n) ==
    (sum[(sum[Len(sum)] % 16) + 4 - n \div 8] \div 2^(n % 8)) % 2

DBC(sum) == MapThenSumSet(LAMBDA n : Selected(sum, n) * 2^n, 0..30)

\* A record with a number of digits a code can have (6 or 8, or none given:
\* payload.go:51) yields on every build the one code of RFC 6238 for the period the
\* time is in, with that many digits (totp.go:23-26).
CodeIsExact(record, digest, time) ==
    record.type = "otp" /\ record.digits \in 0..9 /\ record.period \in Nat =>
        LET asked == IF record.digits = 0 THEN 6 ELSE record.digits
            length == IF record.period = 0 THEN 30 ELSE record.period
            counter == CHOOSE c \in 0..time : c * length <= time /\ time < (c + 1) * length
        IN  CurrentTOTP(record, digest, time) =
                {[digits |-> asked, value |-> DBC(digest[counter]) % 10^asked]}
===============================================================================
