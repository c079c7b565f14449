---------------------------- MODULE Password_proofs ----------------------------
(***************************************************************************)
(* Theorems about Password for every set of lengths.                       *)
(***************************************************************************)
EXTENDS Password, TLAPS

-------------------------------------------------------------------------------
(* The inductive invariant.                                                *)

Enabled == Classes \ excluded

\* positions is a permutation of the indices.
Permutation ==
    /\ \A a, b \in Index : positions[a] = positions[b] => a = b
    /\ \A x \in Index : \E a \in Index : positions[a] = x

One(set, class) == IF class \in set THEN 1 ELSE 0

Size(set) == One(set, "lower") + One(set, "upper") + One(set, "digit") + One(set, "symbol")

\* The first i positions have characters, among them those that were required.
Placed ==
    /\ \A a \in 0..(i - 1) : result[positions[a]] # "none"
    /\ \A class \in Enabled \ left : \E a \in 0..(i - 1) : result[positions[a]] = class

IInv ==
    /\ TypeOK
    /\ Permutation
    /\ pc = "shuffle" => i < length /\ left = Enabled
    /\ pc = "require" => i + Size(left) <= 4 /\ Placed
    /\ pc = "fill" => left = {} /\ Placed
    /\ pc \in {"done", "judged"} => left = {} /\ Placed /\ i = length
    /\ EveryClassOccurs

-------------------------------------------------------------------------------
(* Facts about the helpers.                                                *)

LEMMA LengthFacts ==
  ASSUME TypeOK
  PROVE  length \in Nat /\ 4 <= length /\ i \in Nat /\ i <= length
BY PasswordAssumption DEF TypeOK

LEMMA SwappedPermutes ==
  ASSUME TypeOK, Permutation, NEW a \in Index, NEW b \in Index,
         positions' = Swapped(positions, a, b), length' = length
  PROVE  positions' \in [Index -> Index] /\ Permutation'
<1>1. \A k \in Index : positions'[k] = IF k = b THEN positions[a]
                                      ELSE IF k = a THEN positions[b] ELSE positions[k]
  BY DEF TypeOK, Swapped
<1>2. positions' \in [Index -> Index] /\ Index' = Index
  BY DEF TypeOK, Swapped, Index
<1>3. \A x, y \in Index : positions'[x] = positions'[y] => x = y
  BY <1>1 DEF Permutation
<1>4. ASSUME NEW x \in Index PROVE \E k \in Index : positions'[k] = x
  <2>1. PICK k \in Index : positions[k] = x
    BY DEF Permutation
  <2>2. CASE k = a
    BY <1>1, <2>1, <2>2
  <2>3. CASE k = b
    BY <1>1, <2>1, <2>3
  <2>4. CASE k # a /\ k # b
    BY <1>1, <2>1, <2>4
  <2> QED
    BY <2>2, <2>3, <2>4
<1> QED
  BY <1>2, <1>3, <1>4 DEF Permutation

LEMMA SizeFacts ==
  ASSUME NEW set, set \subseteq Classes
  PROVE  /\ Size(set) \in 0..4
         /\ \A class \in set : Size(set \ {class}) = Size(set) - 1
         /\ set # {} => 1 <= Size(set)
<1>1. Size(set) \in 0..4
  BY DEF Size, One
<1>2. ASSUME NEW class \in set PROVE Size(set \ {class}) = Size(set) - 1
  <2>1. class \in {"lower", "upper", "digit", "symbol"}
    BY DEF Classes
  <2>2. CASE class = "lower"
    BY <2>2 DEF Size, One
  <2>3. CASE class = "upper"
    BY <2>3 DEF Size, One
  <2>4. CASE class = "digit"
    BY <2>4 DEF Size, One
  <2>5. CASE class = "symbol"
    BY <2>5 DEF Size, One
  <2> QED
    BY <2>1, <2>2, <2>3, <2>4, <2>5
<1>3. ASSUME set # {} PROVE 1 <= Size(set)
  <2>1. PICK class \in set : TRUE
    BY <1>3
  <2>2. Size(set \ {class}) = Size(set) - 1 /\ Size(set \ {class}) \in 0..4
    <3>1. Size(set \ {class}) \in 0..4
      BY DEF Size, One
    <3> QED
      BY <1>2, <2>1, <3>1
  <2> QED
    BY <1>1, <2>2
<1> QED
  BY <1>1, <1>2, <1>3

-------------------------------------------------------------------------------
(* The steps.                                                              *)

LEMMA InitInv == Init => IInv
<1> SUFFICES ASSUME Init PROVE IInv
  OBVIOUS
<1>1. PICK asked \in Lengths : length = IF asked < MinLength THEN MinLength ELSE asked
  BY DEF Init
<1>2. length \in Nat /\ MinLength <= length /\ 4 <= length
  BY <1>1, PasswordAssumption
<1>3. TypeOK
  BY <1>2 DEF Init, TypeOK, Index, Classes
<1>4. Permutation
  BY DEF Init, Permutation
<1> QED
  BY <1>2, <1>3, <1>4 DEF Init, IInv, Enabled, EveryClassOccurs

LEMMA ShuffleInv ==
  ASSUME IInv, Shuffle
  PROVE  IInv'
<1>1. /\ pc = "shuffle" /\ i \in Index /\ i > 0 /\ i' = i - 1 /\ i < length
      /\ length \in Nat
  BY LengthFacts DEF IInv, Shuffle, Index
<1>2. PICK j \in 0..i : /\ positions' = Swapped(positions, i, j)
                        /\ draws' = [k \in DOMAIN draws \union {i} |->
                                         IF k = i THEN j ELSE draws[k]]
  BY DEF Shuffle, Drawn
<1>3. UNCHANGED <<pc, excluded, length, left, result, verdict>> /\ Index' = Index
  BY DEF Shuffle, Index
<1>4. j \in Index
  BY <1>1, <1>2 DEF Index
<1>5. positions' \in [Index -> Index] /\ Permutation'
  BY <1>1, <1>2, <1>3, <1>4, SwappedPermutes DEF IInv
<1>6. DOMAIN draws' \subseteq Index
  BY <1>1, <1>2 DEF IInv, TypeOK
<1>7. i' \in 0..length /\ i' < length
  BY <1>1 DEF Index
<1>8. TypeOK'
  BY <1>3, <1>5, <1>6, <1>7 DEF IInv, TypeOK
<1> QED
  BY <1>1, <1>3, <1>5, <1>7, <1>8 DEF IInv, Enabled, EveryClassOccurs

LEMMA ShuffledInv ==
  ASSUME IInv, Shuffled
  PROVE  IInv'
<1>1. /\ pc' = "require" /\ i = 0 /\ left = Enabled
      /\ UNCHANGED <<excluded, length, positions, draws, i, left, result, verdict>>
  BY DEF IInv, Shuffled
<1>2. TypeOK' /\ Permutation'
  BY <1>1 DEF IInv, TypeOK, Permutation, Index
<1>3. left \subseteq Classes /\ i + Size(left) <= 4
  BY <1>1, SizeFacts DEF IInv, TypeOK
<1>4. Placed'
  BY <1>1 DEF Placed, Enabled
<1> QED
  BY <1>1, <1>2, <1>3, <1>4 DEF IInv, Size, One, EveryClassOccurs

\* A character is written at the next position.
LEMMA WriteNext ==
  ASSUME TypeOK, Permutation, Placed, i < length, NEW class \in Enabled,
         result' = [result EXCEPT ![positions[i]] = class], i' = i + 1,
         left' = left \/ left' = left \ {class},
         UNCHANGED <<pc, excluded, length, positions, draws>>
  PROVE  TypeOK' /\ Permutation' /\ Placed'
<1>1. i \in Index /\ positions[i] \in Index /\ Index' = Index /\ 0..(i' - 1) = 0..(i - 1) \union {i}
  BY LengthFacts DEF TypeOK, Index
<1>2. i' \in 0..length
  BY LengthFacts
<1>3. TypeOK'
  BY <1>1, <1>2 DEF TypeOK, Enabled
<1>4. Permutation'
  BY <1>1 DEF Permutation
<1>5. 0..(i - 1) \subseteq Index /\ i \notin 0..(i - 1)
  BY LengthFacts DEF Index
<1>6. \A a \in 0..(i - 1) : result'[positions[a]] = result[positions[a]]
  <2>1. \A a \in 0..(i - 1) : positions[a] \in Index /\ positions[a] # positions[i]
    BY <1>1, <1>5 DEF Permutation, TypeOK
  <2> QED
    BY <1>1, <2>1 DEF TypeOK
<1>7. result'[positions[i]] = class /\ class # "none"
  BY <1>1 DEF TypeOK, Enabled, Classes
<1>8. Placed'
  <2>1. \A a \in 0..(i' - 1) : result'[positions'[a]] # "none"
    BY <1>1, <1>6, <1>7 DEF Placed
  <2>2. ASSUME NEW c \in Enabled' \ left' PROVE \E a \in 0..(i' - 1) : result'[positions'[a]] = c
    <3>1. CASE c = class
      BY <1>1, <1>7, <3>1
    <3>2. CASE c # class
      <4>1. c \in Enabled \ left
        BY <3>2 DEF Enabled
      <4>2. PICK a \in 0..(i - 1) : result[positions[a]] = c
        BY <4>1 DEF Placed
      <4> QED
        BY <1>1, <1>6, <4>2
    <3> QED
      BY <3>1, <3>2
  <2> QED
    BY <2>1, <2>2 DEF Placed
<1> QED
  BY <1>3, <1>4, <1>8

LEMMA RequireInv ==
  ASSUME IInv, Require
  PROVE  IInv'
<1> DEFINE class == CHOOSE c \in left : TRUE
<1>1. /\ pc = "require" /\ left # {} /\ i < length /\ i' = i + 1
      /\ result' = [result EXCEPT ![positions[i]] = class] /\ left' = left \ {class}
      /\ UNCHANGED <<pc, excluded, length, positions, draws, verdict>>
  BY DEF Require
<1>2. class \in left
  BY <1>1
<1> HIDE DEF class
<1>3. class \in Enabled /\ left \subseteq Classes
  BY <1>2 DEF IInv, TypeOK, Enabled
<1>4. TypeOK' /\ Permutation' /\ Placed'
  BY <1>1, <1>3, WriteNext DEF IInv
<1>5. Size(left') = Size(left) - 1 /\ Size(left) \in 0..4 /\ i + Size(left) <= 4 /\ i \in Nat
  BY <1>1, <1>2, <1>3, SizeFacts, LengthFacts DEF IInv
<1>6. i' + Size(left') <= 4
  BY <1>1, <1>5
<1>7. i' + Size(left)' <= 4
  BY <1>6 DEF Size, One
<1> QED
  BY <1>1, <1>4, <1>7 DEF IInv, EveryClassOccurs

LEMMA RequiredInv ==
  ASSUME IInv, Required
  PROVE  IInv'
<1>1. /\ pc = "require" /\ pc' = "fill" /\ (left = {} \/ i >= length)
      /\ UNCHANGED <<excluded, length, positions, draws, i, left, result, verdict>>
  BY DEF Required
<1>2. left = {}
  <2>1. i + Size(left) <= 4 /\ Size(left) \in 0..4 /\ (left # {} => 1 <= Size(left))
    BY <1>1, SizeFacts DEF IInv, TypeOK
  <2> QED
    BY <1>1, <2>1, LengthFacts DEF IInv
<1>3. TypeOK' /\ Permutation' /\ Placed'
  BY <1>1 DEF IInv, TypeOK, Permutation, Placed, Index, Enabled
<1> QED
  BY <1>1, <1>2, <1>3 DEF IInv, EveryClassOccurs

LEMMA FillInv ==
  ASSUME IInv, Fill
  PROVE  IInv'
<1>1. PICK class \in Enabled : result' = [result EXCEPT ![positions[i]] = class]
  BY DEF Fill, Enabled
<1>2. /\ pc = "fill" /\ i < length /\ i' = i + 1
      /\ UNCHANGED <<pc, excluded, length, positions, draws, left, verdict>>
  BY DEF Fill
<1>3. TypeOK' /\ Permutation' /\ Placed'
  BY <1>1, <1>2, WriteNext DEF IInv
<1> QED
  BY <1>2, <1>3 DEF IInv, EveryClassOccurs

\* Every index is a position, and the required classes are among the first.
LEMMA FilledInv ==
  ASSUME IInv, Filled
  PROVE  IInv'
<1>1. /\ pc = "fill" /\ pc' = "done" /\ left = {} /\ i = length /\ Placed
      /\ UNCHANGED <<excluded, length, positions, draws, i, left, result, verdict>>
  BY LengthFacts DEF IInv, Filled
<1>2. TypeOK' /\ Permutation' /\ Placed'
  BY <1>1 DEF IInv, TypeOK, Permutation, Placed, Index, Enabled
<1>3. Index = 0..(i - 1)
  BY <1>1 DEF Index
<1>4. {result[k] : k \in Index} = Enabled
  <2>1. \A k \in Index : result[k] # "none"
    BY <1>1, <1>3 DEF Placed, Permutation, IInv
  <2>2. \A k \in Index : result[k] \in Enabled
    BY <2>1 DEF IInv, TypeOK, Enabled
  <2>3. \A class \in Enabled : \E k \in Index : result[k] = class
    BY <1>1, <1>3 DEF Placed, IInv, TypeOK
  <2> QED
    BY <2>2, <2>3
<1>5. EveryClassOccurs'
  BY <1>1, <1>4 DEF EveryClassOccurs, Enabled, Index
<1> QED
  BY <1>1, <1>2, <1>5 DEF IInv

LEMMA EvaluateInv ==
  ASSUME IInv, Evaluate
  PROVE  IInv'
<1>1. /\ pc = "done" /\ pc' = "judged"
      /\ UNCHANGED <<excluded, length, positions, draws, i, left, result>>
  BY DEF Evaluate
<1>2. PICK common \in BOOLEAN :
          verdict' = [score |-> Score(length, ClassesIn(result), common),
                      advice |-> Advice(length, ClassesIn(result), common)]
  BY DEF Evaluate
<1>3. ClassesIn(result) = Enabled
  BY <1>1 DEF ClassesIn, IInv, TypeOK, EveryClassOccurs, Enabled
<1>4. verdict'.advice = ({"upper", "digit", "symbol"} \ Enabled)
                        \union (IF common THEN {"uncommon"} ELSE {})
  BY <1>2, <1>3, LengthFacts, PasswordAssumption DEF Advice, IInv, TypeOK
<1>5. verdict'.advice \ {"uncommon"} = excluded
  BY <1>4 DEF IInv, TypeOK, Enabled, Classes
<1>6. TypeOK' /\ Permutation' /\ Placed'
  BY <1>1 DEF IInv, TypeOK, Permutation, Placed, Index, Enabled
<1>7. EveryClassOccurs'
  BY <1>1, <1>5 DEF IInv, EveryClassOccurs, Index
<1> QED
  BY <1>1, <1>6, <1>7 DEF IInv

LEMMA NextInv == IInv /\ [Next]_vars => IInv'
<1> SUFFICES ASSUME IInv, [Next]_vars PROVE IInv'
  OBVIOUS
<1>1. CASE UNCHANGED vars
  <2> USE <1>1 DEF vars
  <2>1. TypeOK' /\ Permutation'
    BY DEF IInv, TypeOK, Permutation, Index
  <2>2. Placed' = Placed /\ Enabled' = Enabled /\ Size(left)' = Size(left)
    BY DEF Placed, Enabled, Size, One
  <2>3. EveryClassOccurs' = EveryClassOccurs
    BY DEF EveryClassOccurs, Index
  <2> QED
    BY <2>1, <2>2, <2>3 DEF IInv
<1> QED
  BY <1>1, ShuffleInv, ShuffledInv, RequireInv, RequiredInv, FillInv, FilledInv, EvaluateInv
  DEF Next

-------------------------------------------------------------------------------
(* The theorems.                                                           *)

\* A generated password of any length has a character of every class that was not
\* excluded and no other, and the register command warns of nothing but what was
\* excluded (GeneratePassword, EvaluatePasswordStrength).
THEOREM ClassesOccur == Spec => []EveryClassOccurs
<1>1. IInv => EveryClassOccurs
  BY DEF IInv
<1> QED
  BY <1>1, InitInv, NextInv, PTL DEF Spec
===============================================================================
