-------------------------------- MODULE Password --------------------------------
(***************************************************************************)
(* The password generator and the strength of a password                    *)
(* (client/crypto/password.go).  A character is its class: which one of a    *)
(* class it is makes no difference, except to whether the whole is a common  *)
(* password.                                                                *)
(***************************************************************************)
EXTENDS Integers, FiniteSets

CONSTANTS
    Lengths,    \* lengths that are asked for
    MinLength,  \* the least length (8); a shorter password is warned of
    Long,       \* a password of this length is better (12)
    VeryLong    \* and of this one better still (16)

\* There is room for a character of each class.
ASSUME PasswordAssumption ==
    /\ Lengths \subseteq Int
    /\ {MinLength, Long, VeryLong} \subseteq Nat
    /\ 4 <= MinLength

VARIABLES
    pc,         \* what GeneratePassword is about to do
    excluded,   \* the classes NoUpper, NoDigits and NoSymbols exclude
    length,     \* opts.Length
    positions,  \* the permutation, as far as it is shuffled
    draws,      \* history: the index drawn for each position that is shuffled
    i,          \* the index of the loop
    left,       \* the required classes that are still to be placed
    result,     \* the password; "none" is a byte not written
    verdict     \* EvaluatePasswordStrength of the result

vars == <<pc, excluded, length, positions, draws, i, left, result, verdict>>

-------------------------------------------------------------------------------
Classes == {"lower", "upper", "digit", "symbol"}

Index == 0..(length - 1)

NoVerdict == [score |-> -1, advice |-> {}]

Init ==
    /\ pc = "shuffle"
    /\ excluded \in SUBSET (Classes \ {"lower"})
    /\ \E asked \in Lengths : length = IF asked < MinLength THEN MinLength ELSE asked
    /\ positions = [k \in Index |-> k]
    /\ draws = [k \in {} |-> 0]
    /\ i = length - 1
    /\ left = Classes \ excluded
    /\ result = [k \in Index |-> "none"]
    /\ verdict = NoVerdict

Swapped(f, a, b) == [f EXCEPT ![a] = f[b], ![b] = f[a]]

\* Mutant of Drawn: the index is drawn from all positions.
DrawnFromAll == Index

\* rand.Int(i+1).
Drawn == 0..i

\* One round of randomPermutation.
Shuffle ==
    /\ pc = "shuffle" /\ i > 0
    /\ \E j \in Drawn :
           /\ positions' = Swapped(positions, i, j)
           /\ draws' = [k \in DOMAIN draws \union {i} |-> IF k = i THEN j ELSE draws[k]]
    /\ i' = i - 1
    /\ UNCHANGED <<pc, excluded, length, left, result, verdict>>

Shuffled ==
    /\ pc = "shuffle" /\ i = 0
    /\ pc' = "require"
    /\ UNCHANGED <<excluded, length, positions, draws, i, left, result, verdict>>

\* A character of a required class at the next position.
Require ==
    /\ pc = "require" /\ left # {} /\ i < length
    /\ LET class == CHOOSE c \in left : TRUE
       IN  /\ result' = [result EXCEPT ![positions[i]] = class]
           /\ left' = left \ {class}
    /\ i' = i + 1
    /\ UNCHANGED <<pc, excluded, length, positions, draws, verdict>>

\* Mutant of Required: the second loop starts at the first position.
RequiredFromZero ==
    /\ pc = "require" /\ (left = {} \/ i >= length)
    /\ pc' = "fill"
    /\ i' = 0
    /\ UNCHANGED <<excluded, length, positions, draws, left, result, verdict>>

Required ==
    /\ pc = "require" /\ (left = {} \/ i >= length)
    /\ pc' = "fill"
    /\ UNCHANGED <<excluded, length, positions, draws, i, left, result, verdict>>

\* A character of the whole alphabet at each position that remains.
Fill ==
    /\ pc = "fill" /\ i < length
    /\ \E class \in Classes \ excluded : result' = [result EXCEPT ![positions[i]] = class]
    /\ i' = i + 1
    /\ UNCHANGED <<pc, excluded, length, positions, draws, left, verdict>>

Filled ==
    /\ pc = "fill" /\ i >= length
    /\ pc' = "done"
    /\ UNCHANGED <<excluded, length, positions, draws, i, left, result, verdict>>

-------------------------------------------------------------------------------
(* EvaluatePasswordStrength.                                               *)

ClassesIn(pw) == {pw[k] : k \in DOMAIN pw} \intersect Classes

Score(size, classes, common) ==
    IF common THEN 0
    ELSE (IF size >= Long /\ size >= MinLength THEN 1 ELSE 0)
         + (IF size >= VeryLong THEN 1 ELSE 0)
         + (IF Cardinality(classes) >= 3 THEN 1 ELSE 0)

\* What the feedback asks for.
Advice(size, classes, common) ==
    ({"upper", "digit", "symbol"} \ classes)
    \union (IF size < MinLength THEN {"length"} ELSE {})
    \union (IF common THEN {"uncommon"} ELSE {})

\* A user registers with a generated password (cli/register.go).  The common ones are
\* short and have no symbol in them.
Evaluate ==
    /\ pc = "done"
    /\ \E common \in BOOLEAN :
           /\ common => "symbol" \notin ClassesIn(result) /\ length < Long
           /\ verdict' = [score |-> Score(length, ClassesIn(result), common),
                          advice |-> Advice(length, ClassesIn(result), common)]
    /\ pc' = "judged"
    /\ UNCHANGED <<excluded, length, positions, draws, i, left, result>>

-------------------------------------------------------------------------------
Next == Shuffle \/ Shuffled \/ Require \/ Required \/ Fill \/ Filled \/ Evaluate

Spec == Init /\ [][Next]_vars

-------------------------------------------------------------------------------
(* What is true of every execution.                                        *)

TypeOK ==
    /\ pc \in {"shuffle", "require", "fill", "done", "judged"}
    /\ excluded \subseteq Classes \ {"lower"}
    /\ length \in Nat /\ MinLength <= length
    /\ positions \in [Index -> Index]
    /\ DOMAIN draws \subseteq Index
    /\ i \in 0..length
    /\ left \subseteq Classes \ excluded
    /\ result \in [Index -> (Classes \ excluded) \union {"none"}]

\* "At least one character of every class that is enabled" (password.go:32), none of a
\* class that is not, and no byte left unwritten: what the first loop placed is not
\* overwritten by the second, because the positions are a permutation.  So a user who
\* registers with it is warned of what was excluded, and of nothing else unless it is
\* a common password.
EveryClassOccurs ==
    /\ pc \in {"done", "judged"} => {result[k] : k \in Index} = Classes \ excluded
    /\ pc = "judged" => verdict.advice \ {"uncommon"} = excluded

\* The draws can be read off the permutation they made: position k, from the last one
\* down, holds what stood at the place drawn for it.  There are as many permutations
\* as sequences of draws, so each is made by one of them: they are equally likely.
Before[k \in Nat] ==
    IF k \notin DOMAIN draws THEN [x \in Index |-> x]
    ELSE Swapped(Before[k + 1], k, draws[k])

ShuffleIsFair ==
    \A k \in DOMAIN draws : Before[k + 1][draws[k]] = positions[k]
===============================================================================
