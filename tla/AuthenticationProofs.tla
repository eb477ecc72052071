------------------------- MODULE AuthenticationProofs -------------------------
(***************************************************************************)
(* Theorems about role patterns, for any characters, ARNs and lists of     *)
(* patterns: the greedy loop accepts nothing it should not, and what it    *)
(* refuses wrongly is exactly what ends in an ambiguity.                   *)
(***************************************************************************)
EXTENDS Authentication, TLAPS

\* The parts taken so far lie on the ARN one after the other, the first at its
\* beginning and the latest right before what remains.
PlacesUpTo(parts, s, n, end, f) ==
    /\ f \in [1 .. Len(parts) -> 0 .. Len(s)]
    /\ \A k \in 1 .. n : Occurs(parts[k], s, f[k])
    /\ \A k \in 1 .. n - 1 : f[k] + Len(parts[k]) <= f[k + 1]
    /\ n > 0 => f[1] = 0 /\ f[n] + Len(parts[n]) = end

Placed == \E f \in [1 .. Len(Parts) -> 0 .. Len(arn)] :
              PlacesUpTo(Parts, arn, part - 1, at, f)

\* The loop never runs ahead: wherever the parts could lie, the next one begins
\* in what remains.
Leftmost ==
    \A f \in [1 .. Len(Parts) -> 0 .. Len(arn)] :
        Places(Parts, arn, f) =>
            \A k \in 1 .. Len(Parts) : k = part => at <= f[k]

\* A pattern that was passed over stands for the ARN only ambiguously.
Passed(k) == Globs(allowed[k], arn) => EndsTwice(allowed[k], arn)

MatchingRight ==
    stage = "matching" =>
        /\ Placed
        /\ part = 1 => at = 0
        /\ Leftmost
        /\ \A k \in 1 .. pattern - 1 : Passed(k)

AuthInv ==
    /\ AuthTypeOK
    /\ MatchingRight
    /\ AcceptedMatches
    /\ RefusedOnlyWhenAmbiguous
    /\ stage # "idle" => verdict = "open"
    /\ stage = "sts" => arn = None

-----------------------------------------------------------------------------
(* Placings *)

\* A pattern is a list of strings, and not an empty one.
LEMMA PatternType ==
    ASSUME NEW parts \in Patterns
    PROVE  /\ parts \in Seq(Seq(Chars))
           /\ Len(parts) \in Nat \ {0}
           /\ \A k \in 1 .. Len(parts) : parts[k] \in Seq(Chars) /\ Len(parts[k]) \in Nat
<1>1. parts \in Seq(Seq(Chars)) /\ parts # <<>>
  BY DEF Patterns
<1>2. \A k \in 1 .. Len(parts) : parts[k] \in Seq(Chars)
  BY <1>1
<1> QED
  BY <1>1, <1>2

\* Before the first part any function will do.
LEMMA PlacesNothing ==
    ASSUME NEW parts \in Patterns, NEW s \in Seq(Chars)
    PROVE  \E f \in [1 .. Len(parts) -> 0 .. Len(s)] : PlacesUpTo(parts, s, 0, 0, f)
<1>1. [k \in 1 .. Len(parts) |-> 0] \in [1 .. Len(parts) -> 0 .. Len(s)]
  OBVIOUS
<1>2. PlacesUpTo(parts, s, 0, 0, [k \in 1 .. Len(parts) |-> 0])
  BY <1>1 DEF PlacesUpTo
<1> QED
  BY <1>1, <1>2

\* One more part, found in what remains.
LEMMA PlacesOneMore ==
    ASSUME NEW parts \in Patterns, NEW s \in Seq(Chars),
           NEW n \in 0 .. Len(parts) - 1, NEW end \in 0 .. Len(s),
           NEW f, PlacesUpTo(parts, s, n, end, f),
           NEW offset \in end .. Len(s), Occurs(parts[n + 1], s, offset),
           n = 0 => offset = 0
    PROVE  \E g \in [1 .. Len(parts) -> 0 .. Len(s)] :
               PlacesUpTo(parts, s, n + 1, offset + Len(parts[n + 1]), g)
<1> DEFINE g == [f EXCEPT ![n + 1] = offset]
<1>1. f \in [1 .. Len(parts) -> 0 .. Len(s)]
  BY DEF PlacesUpTo
<1>2. g \in [1 .. Len(parts) -> 0 .. Len(s)]
  BY <1>1
<1>3. g[n + 1] = offset /\ \A k \in 1 .. n : g[k] = f[k]
  BY <1>1
<1>4. ASSUME NEW k \in 1 .. n + 1 PROVE Occurs(parts[k], s, g[k])
  <2>1. CASE k = n + 1
    BY <2>1, <1>3
  <2>2. CASE k \in 1 .. n
    BY <2>2, <1>3 DEF PlacesUpTo
  <2> QED
    BY <2>1, <2>2
<1>5. ASSUME NEW k \in 1 .. n PROVE g[k] + Len(parts[k]) <= g[k + 1]
  <2>1. CASE k = n
    BY <2>1, <1>3 DEF PlacesUpTo
  <2>2. CASE k \in 1 .. n - 1
    BY <2>2, <1>3 DEF PlacesUpTo
  <2> QED
    BY <2>1, <2>2
<1>6. g[1] = 0
  BY <1>3 DEF PlacesUpTo
<1>7. PlacesUpTo(parts, s, n + 1, offset + Len(parts[n + 1]), g)
  BY <1>2, <1>3, <1>4, <1>5, <1>6 DEF PlacesUpTo
<1> QED
  BY <1>2, <1>7

\* Nothing remains after the last part, or it is empty and takes up the rest.
LEMMA PlacesAll ==
    ASSUME NEW parts \in Patterns, NEW s \in Seq(Chars), NEW end \in 0 .. Len(s),
           NEW f, PlacesUpTo(parts, s, Len(parts), end, f),
           EndsWithStar(parts) \/ end = Len(s)
    PROVE  Globs(parts, s)
<1> DEFINE n == Len(parts)
           g == [f EXCEPT ![n] = Len(s)]
<1>1. n \in Nat \ {0} /\ f \in [1 .. n -> 0 .. Len(s)]
  BY PatternType DEF PlacesUpTo
<1>2. CASE end = Len(s)
  BY <1>1, <1>2 DEF PlacesUpTo, Places, Globs
<1>3. CASE EndsWithStar(parts)
  <2>1. n > 1 /\ parts[n] = <<>>
    BY <1>3 DEF EndsWithStar
  <2>2. g \in [1 .. n -> 0 .. Len(s)] /\ g[n] = Len(s)
        /\ \A k \in 1 .. n - 1 : g[k] = f[k]
    BY <1>1
  <2>3. ASSUME NEW k \in 1 .. n PROVE Occurs(parts[k], s, g[k])
    <3>1. CASE k = n
      BY <3>1, <2>1, <2>2 DEF Occurs
    <3>2. CASE k \in 1 .. n - 1
      BY <3>2, <2>2 DEF PlacesUpTo
    <3> QED
      BY <3>1, <3>2, <1>1
  <2>4. ASSUME NEW k \in 1 .. n - 1 PROVE g[k] + Len(parts[k]) <= g[k + 1]
    <3>1. f[k] + Len(parts[k]) <= f[k + 1] /\ f[k + 1] <= Len(s) /\ g[k] = f[k]
      BY <1>1, <2>2 DEF PlacesUpTo
    <3>2. /\ Len(parts[k]) \in Nat /\ Len(s) \in Nat
          /\ f[k] \in 0 .. Len(s) /\ f[k + 1] \in 0 .. Len(s)
      <4>1. k \in 1 .. n /\ k + 1 \in 1 .. n
        BY <1>1
      <4>2. Len(parts[k]) \in Nat
        BY <4>1, PatternType
      <4>3. f[k] \in 0 .. Len(s) /\ f[k + 1] \in 0 .. Len(s)
        BY <4>1, <1>1
      <4>4. Len(s) \in Nat
        OBVIOUS
      <4> QED
        BY <4>2, <4>3, <4>4
    <3>3. CASE k = n - 1
      <4>1. k + 1 = n
        BY <3>3, <1>1
      <4>2. g[k + 1] = Len(s)
        BY <4>1, <2>2
      <4> QED
        BY <4>2, <3>1, <3>2
    <3>4. CASE k \in 1 .. n - 2
      BY <3>1, <3>4, <2>2, <1>1
    <3> QED
      BY <3>3, <3>4, <1>1
  <2>5. g[1] = 0 /\ g[n] + Len(parts[n]) = Len(s)
    BY <2>1, <2>2, <1>1 DEF PlacesUpTo
  <2> QED
    BY <2>2, <2>3, <2>4, <2>5 DEF Places, Globs
<1> QED
  BY <1>2, <1>3

\* A pattern without '*' stands for itself and nothing else.
LEMMA WholePattern ==
    ASSUME NEW parts \in Patterns, NEW s \in Seq(Chars), Len(parts) = 1
    PROVE  Globs(parts, s) <=> s = parts[1]
<1>1. parts[1] \in Seq(Chars)
  BY DEF Patterns
<1>2. ASSUME s = parts[1] PROVE Globs(parts, s)
  <2>1. [k \in 1 .. 1 |-> 0] \in [1 .. Len(parts) -> 0 .. Len(s)]
    OBVIOUS
  <2>2. Places(parts, s, [k \in 1 .. 1 |-> 0])
    BY <1>1, <1>2, <2>1 DEF Places, Occurs
  <2> QED
    BY <2>1, <2>2 DEF Globs
<1>3. ASSUME Globs(parts, s) PROVE s = parts[1]
  <2>1. Len(s) = Len(parts[1]) /\ \A j \in 1 .. Len(s) : s[j] = parts[1][j]
    BY <1>1, <1>3 DEF Globs, Places, Occurs
  <2> QED
    BY <2>1, <1>1
<1> QED
  BY <1>2, <1>3

\* "*" stands for everything.
LEMMA EverythingGlobs ==
    ASSUME NEW s \in Seq(Chars)
    PROVE  Globs(Everything, s)
<1> DEFINE f == [k \in 1 .. 2 |-> IF k = 1 THEN 0 ELSE Len(s)]
<1>1. f \in [1 .. Len(Everything) -> 0 .. Len(s)]
  BY DEF Everything
<1>2. Places(Everything, s, f)
  BY <1>1 DEF Places, Occurs, Everything
<1> QED
  BY <1>1, <1>2 DEF Globs

-----------------------------------------------------------------------------
(* Steps *)

\* What is compared is an ARN and a pattern.
LEMMA Compared ==
    ASSUME AuthTypeOK, stage = "matching"
    PROVE  /\ arn \in Arns /\ arn \in Seq(Chars) /\ Len(arn) \in Nat
           /\ allowed \in Seq(Patterns) /\ Len(allowed) \in Nat
           /\ pattern \in 1 .. Len(allowed)
           /\ Parts \in Patterns
           /\ part \in 1 .. Len(Parts) + 1
           /\ at \in 0 .. Len(arn)
<1>1. arn \in Arns /\ arn \in Seq(Chars) /\ allowed \in Seq(Patterns)
  BY AuthenticationAssumption DEF AuthTypeOK, AuthenticationAssumption
<1>2. pattern \in 1 .. Len(allowed) /\ part \in 1 .. Len(Parts) + 1 /\ at \in 0 .. Len(arn)
  BY DEF AuthTypeOK, Parts
<1> QED
  BY <1>1, <1>2 DEF Parts

\* A pattern is begun with the whole ARN.
LEMMA BeginsRight ==
    ASSUME NEW a \in Arns, NEW list \in Configurations, NEW k \in 1 .. Len(list),
           arn' = a, allowed' = list, pattern' = k, part' = 1, at' = 0
    PROVE  /\ Placed' /\ Leftmost'
           /\ k \in 1 .. Len(list) /\ 1 \in 1 .. Len(list[k]) + 1 /\ 0 \in 0 .. Len(a)
<1>1. a \in Seq(Chars) /\ list \in Seq(Patterns)
  BY AuthenticationAssumption DEF AuthenticationAssumption
<1>2. list[k] \in Patterns /\ Parts' = list[k]
  BY <1>1 DEF Parts
<1>3. Placed'
  <2>1. part' - 1 = 0
    OBVIOUS
  <2>2. \E f \in [1 .. Len(Parts') -> 0 .. Len(arn')] : PlacesUpTo(Parts', arn', 0, 0, f)
    BY <1>1, <1>2, PlacesNothing
  <2>3. \E f \in [1 .. Len(Parts') -> 0 .. Len(arn')] :
            PlacesUpTo(Parts', arn', part' - 1, at', f)
    BY <2>1, <2>2
  <2> QED
    BY <2>3 DEF Placed
<1>4. ASSUME NEW f \in [1 .. Len(list[k]) -> 0 .. Len(a)] PROVE 0 <= f[1]
  <2>1. 1 \in 1 .. Len(list[k]) /\ Len(a) \in Nat
    BY <1>1, <1>2, PatternType
  <2> QED
    BY <2>1
<1>5. Leftmost'
  BY <1>1, <1>2, <1>4, PatternType DEF Leftmost
<1> QED
  BY <1>1, <1>2, <1>3, <1>5, PatternType

\* A pattern may be passed over when it stands for the ARN only ambiguously.
LEMMA PassingKeeps ==
    ASSUME AuthInv, stage = "matching", Passed(pattern), NextPattern,
           UNCHANGED <<skip_validation, allowed, arn>>
    PROVE  AuthInv'
<1>1. AuthTypeOK /\ verdict = "open"
  BY DEF AuthInv
<1>2. \A k \in 1 .. pattern : Passed(k)
  <2>1. \A k \in 1 .. pattern - 1 : Passed(k)
    BY DEF AuthInv, MatchingRight
  <2> QED
    BY <2>1, <1>1, Compared
<1>3. CASE pattern < Len(allowed)
  <2>1. /\ pattern' = pattern + 1 /\ part' = 1 /\ at' = 0
        /\ stage' = "matching" /\ verdict' = "open"
    BY <1>1, <1>3 DEF NextPattern
  <2>2. pattern' \in 1 .. Len(allowed)
    BY <1>1, <1>3, <2>1, Compared
  <2>3. /\ Placed' /\ Leftmost'
        /\ 1 \in 1 .. Len(allowed[pattern']) + 1 /\ 0 \in 0 .. Len(arn)
    BY <1>1, <2>1, <2>2, Compared, BeginsRight DEF AuthTypeOK
  <2>4. AuthTypeOK'
    BY <1>1, <2>1, <2>2, <2>3 DEF AuthTypeOK
  <2>5. \A k \in 1 .. pattern' - 1 : Passed(k)'
    <3>1. pattern' - 1 = pattern
      BY <2>1, <1>1, Compared
    <3> QED
      BY <3>1, <1>2 DEF Passed
  <2> QED
    BY <2>1, <2>3, <2>4, <2>5
    DEF AuthInv, MatchingRight, AcceptedMatches, RefusedOnlyWhenAmbiguous
<1>4. CASE ~ (pattern < Len(allowed))
  <2>1. stage' = "idle" /\ verdict' = "refused"
    BY <1>4 DEF NextPattern, Answer
  <2>2. pattern = Len(allowed)
    BY <1>1, <1>4, Compared
  <2>3. RefusedOnlyWhenAmbiguous'
    BY <1>2, <2>2 DEF RefusedOnlyWhenAmbiguous, Passed
  <2> QED
    BY <1>1, <2>1, <2>3 DEF AuthInv, AuthTypeOK, MatchingRight, AcceptedMatches
<1> QED
  BY <1>3, <1>4

\* A pattern that stands for the ARN may accept it.
LEMMA AcceptingKeeps ==
    ASSUME AuthInv, stage = "matching", Globs(Parts, arn), Answer("accepted"),
           UNCHANGED <<skip_validation, allowed, arn>>
    PROVE  AuthInv'
<1>1. arn # None /\ \E k \in 1 .. Len(allowed) : Globs(allowed[k], arn)
  BY Compared DEF AuthInv, AuthTypeOK, Parts
<1> QED
  BY <1>1
  DEF AuthInv, AuthTypeOK, MatchingRight, AcceptedMatches, RefusedOnlyWhenAmbiguous, Answer

\* A pattern without '*'.
LEMMA CompareWholeKeeps ==
    ASSUME AuthInv, CompareWhole
    PROVE  AuthInv'
<1>1. stage = "matching" /\ AuthTypeOK /\ Len(Parts) = 1
      /\ UNCHANGED <<skip_validation, allowed, arn>>
  BY DEF AuthInv, CompareWhole
<1>2. Globs(Parts, arn) <=> arn = Parts[1]
  BY <1>1, Compared, WholePattern
<1>3. CASE arn = Parts[1]
  BY <1>1, <1>2, <1>3, AcceptingKeeps DEF CompareWhole
<1>4. CASE arn # Parts[1]
  BY <1>1, <1>2, <1>4, PassingKeeps DEF CompareWhole, Passed, Parts
<1> QED
  BY <1>3, <1>4

\* A part is taken where it is found first: no place it could have is behind.
LEMMA TakePartKeeps ==
    ASSUME AuthInv, TakePart
    PROVE  AuthInv'
<1>1. /\ AuthTypeOK /\ stage = "matching" /\ verdict = "open"
      /\ Placed /\ Leftmost /\ (part = 1 => at = 0)
      /\ \A k \in 1 .. pattern - 1 : Passed(k)
  BY DEF AuthInv, MatchingRight, TakePart
<1>2. /\ part \in 1 .. Len(Parts) /\ part' = part + 1
      /\ UNCHANGED <<skip_validation, allowed, stage, arn, pattern, verdict>>
  BY <1>1, Compared DEF TakePart
<1>3. /\ Parts \in Patterns /\ arn \in Seq(Chars) /\ Len(arn) \in Nat
      /\ at \in 0 .. Len(arn) /\ Parts[part] \in Seq(Chars) /\ Len(Parts[part]) \in Nat
  BY <1>1, <1>2, Compared, PatternType
<1>4. PICK offset \in at .. Len(arn) :
          /\ Occurs(Parts[part], arn, offset)
          /\ part = 1 => offset = 0
          /\ at' = offset + Len(Parts[part])
          /\ \A other \in at .. offset - 1 : ~ Occurs(Parts[part], arn, other)
  <2>1. CASE Parts[part] = <<>>
    <3>1. Occurs(Parts[part], arn, at) /\ at' = at + Len(Parts[part]) /\ at \in at .. Len(arn)
      BY <2>1, <1>3 DEF Occurs, TakePart
    <3>2. \A other \in at .. at - 1 : ~ Occurs(Parts[part], arn, other)
      BY <1>3
    <3> QED
      BY <3>1, <3>2, <1>1
  <2>2. CASE Parts[part] # <<>>
    BY <2>2 DEF TakePart, Find
  <2> QED
    BY <2>1, <2>2
<1>5. at' \in 0 .. Len(arn)
  BY <1>3, <1>4 DEF Occurs
<1>6. Placed'
  <2>1. PICK f \in [1 .. Len(Parts) -> 0 .. Len(arn)] :
            PlacesUpTo(Parts, arn, part - 1, at, f)
    BY <1>1 DEF Placed
  <2>2. part - 1 \in 0 .. Len(Parts) - 1 /\ part - 1 + 1 = part /\ part' - 1 = part
    BY <1>2, <1>3, PatternType
  <2>3. \E g \in [1 .. Len(Parts) -> 0 .. Len(arn)] :
            PlacesUpTo(Parts, arn, part, offset + Len(Parts[part]), g)
    <3> DEFINE n == part - 1
    <3>1. n \in 0 .. Len(Parts) - 1 /\ n + 1 = part /\ (n = 0 => offset = 0)
      BY <2>2, <1>4
    <3>2. PlacesUpTo(Parts, arn, n, at, f) /\ Occurs(Parts[n + 1], arn, offset)
      BY <2>1, <3>1, <1>4
    <3> HIDE DEF n
    <3> QED
      BY <3>1, <3>2, <1>3, PlacesOneMore
  <2>4. Parts' = Parts /\ arn' = arn
    BY <1>2 DEF Parts
  <2> QED
    BY <2>2, <2>3, <2>4, <1>4 DEF Placed
<1>7. Leftmost'
  <2> SUFFICES ASSUME NEW f \in [1 .. Len(Parts) -> 0 .. Len(arn)],
                      Places(Parts, arn, f), part + 1 \in 1 .. Len(Parts)
               PROVE  at' <= f[part + 1]
    BY <1>2 DEF Leftmost, Parts
  <2>1. at <= f[part] /\ f[part] \in 0 .. Len(arn) /\ f[part + 1] \in 0 .. Len(arn)
    BY <1>1, <1>2 DEF Leftmost
  <2>2. Occurs(Parts[part], arn, f[part])
    BY <1>2 DEF Places
  <2>3. offset <= f[part]
    BY <2>1, <2>2, <1>3, <1>4
  <2>4. part \in 1 .. Len(Parts) - 1
    BY <1>2, <1>3, PatternType
  <2>5. f[part] + Len(Parts[part]) <= f[part + 1]
    BY <2>4 DEF Places
  <2> QED
    BY <2>1, <2>3, <2>5, <1>3, <1>4
<1>8. AuthTypeOK'
  <2>1. part' \in 1 .. Len(Parts) + 1
    BY <1>2, <1>3, PatternType
  <2> QED
    BY <1>1, <1>2, <1>5, <2>1 DEF AuthTypeOK, Parts
<1>9. part' # 1
  BY <1>2, <1>3, PatternType
<1> QED
  BY <1>1, <1>2, <1>6, <1>7, <1>8, <1>9
  DEF AuthInv, MatchingRight, AcceptedMatches, RefusedOnlyWhenAmbiguous, Passed

\* A part that is missing refutes the pattern.
LEMMA MissPartKeeps ==
    ASSUME AuthInv, MissPart
    PROVE  AuthInv'
<1>1. /\ AuthTypeOK /\ stage = "matching" /\ Leftmost
      /\ NextPattern /\ UNCHANGED <<skip_validation, allowed, arn>>
  BY DEF AuthInv, MatchingRight, MissPart
<1>2. part \in 1 .. Len(Parts) /\ Parts \in Patterns /\ Len(arn) \in Nat /\ at \in 0 .. Len(arn)
  BY <1>1, Compared DEF MissPart
<1>3. ASSUME NEW f \in [1 .. Len(Parts) -> 0 .. Len(arn)], Places(Parts, arn, f)
      PROVE  FALSE
  <2>1. Occurs(Parts[part], arn, f[part]) /\ at <= f[part] /\ f[part] \in 0 .. Len(arn)
    BY <1>1, <1>2, <1>3 DEF Places, Leftmost
  <2>2. Finds(Parts[part], arn, at)
    BY <2>1, <1>2 DEF Finds
  <2>3. CASE part = 1
    <3>1. Occurs(Parts[1], arn, 0)
      BY <2>1, <2>3, <1>3 DEF Places
    <3>2. Find(Parts[1], arn, 0, 0)
      BY <3>1, <1>2 DEF Find
    <3> QED
      BY <2>2, <2>3, <3>2 DEF MissPart
  <2> QED
    BY <2>2, <2>3 DEF MissPart
<1>4. ~ Globs(Parts, arn)
  BY <1>3 DEF Globs
<1> QED
  BY <1>1, <1>4, PassingKeeps DEF Passed, Parts

\* At the end of the pattern all parts are placed, or the ARN goes on behind the
\* last one.
LEMMA EndOfPatternKeeps ==
    ASSUME AuthInv, EndOfPattern
    PROVE  AuthInv'
<1>1. /\ AuthTypeOK /\ stage = "matching" /\ Placed /\ Len(Parts) > 1
      /\ UNCHANGED <<skip_validation, allowed, arn>>
  BY DEF AuthInv, MatchingRight, EndOfPattern
<1>2. /\ Parts \in Patterns /\ arn \in Seq(Chars) /\ Len(arn) \in Nat /\ at \in 0 .. Len(arn)
      /\ part - 1 = Len(Parts) /\ Len(Parts) \in 1 .. Len(Parts)
  <2>1. part \in 1 .. Len(Parts) + 1 /\ part > Len(Parts) /\ Len(Parts) \in Nat \ {0}
    BY <1>1, Compared, PatternType DEF EndOfPattern
  <2> QED
    BY <1>1, <2>1, Compared
<1>3. PICK f \in [1 .. Len(Parts) -> 0 .. Len(arn)] :
          PlacesUpTo(Parts, arn, Len(Parts), at, f)
  BY <1>1, <1>2 DEF Placed
<1>4. CASE EndsWithStar(Parts) \/ at = Len(arn)
  <2>1. Globs(Parts, arn)
    BY <1>2, <1>3, <1>4, PlacesAll
  <2> QED
    BY <1>1, <1>4, <2>1, AcceptingKeeps DEF EndOfPattern
<1>5. CASE ~ (EndsWithStar(Parts) \/ at = Len(arn))
  <2>1. Occurs(Parts[Len(Parts)], arn, f[Len(Parts)])
        /\ f[Len(Parts)] + Len(Parts[Len(Parts)]) = at
    BY <1>2, <1>3 DEF PlacesUpTo
  <2>2. f[Len(Parts)] \in 0 .. Len(arn) /\ at < Len(arn)
    BY <1>2, <1>5
  <2>3. Len(Parts) > 1 /\ Parts[Len(Parts)] # <<>>
    BY <1>1, <1>5 DEF EndsWithStar
  <2>4. EndsTwice(Parts, arn)
    BY <2>1, <2>2, <2>3 DEF EndsTwice
  <2> QED
    BY <1>1, <1>5, <2>4, PassingKeeps DEF EndOfPattern, Passed, Parts
<1> QED
  BY <1>4, <1>5

\* What happens before the patterns are looked at.
LEMMA AnswersKeep ==
    ASSUME AuthInv, Authenticate \/ StsFails
    PROVE  AuthInv'
<1>1. CASE Authenticate
  BY <1>1 DEF Authenticate, Answer, AuthInv, AuthTypeOK, MatchingRight, AcceptedMatches,
              RefusedOnlyWhenAmbiguous
<1>2. CASE StsFails
  <2>1. arn = None
    BY <1>2 DEF AuthInv, StsFails
  <2> QED
    BY <1>2, <2>1 DEF StsFails, Answer, AuthInv, AuthTypeOK, MatchingRight, AcceptedMatches,
                      RefusedOnlyWhenAmbiguous
<1> QED
  BY <1>1, <1>2

\* STS's answer is accepted at once, or the first pattern is begun.
LEMMA StsIdentifiesKeeps ==
    ASSUME AuthInv, StsIdentifies
    PROVE  AuthInv'
<1>1. /\ AuthTypeOK /\ stage = "sts" /\ verdict = "open"
      /\ arn' \in Arns /\ UNCHANGED <<skip_validation, allowed>>
  BY DEF AuthInv, StsIdentifies
<1>2. /\ arn' \in Seq(Chars) /\ arn' # None /\ allowed \in Configurations
      /\ allowed \in Seq(Patterns) /\ Len(allowed) \in Nat
  BY <1>1, AuthenticationAssumption DEF AuthTypeOK, AuthenticationAssumption
<1>3. CASE allowed = <<>> \/ \E k \in 1 .. Len(allowed) : allowed[k] = Everything
  <2>1. Answer("accepted")
    BY <1>3 DEF StsIdentifies
  <2>2. allowed = <<>> \/ \E k \in 1 .. Len(allowed) : Globs(allowed[k], arn')
    BY <1>2, <1>3, EverythingGlobs
  <2> QED
    BY <1>1, <1>2, <2>1, <2>2
    DEF AuthInv, AuthTypeOK, MatchingRight, AcceptedMatches, RefusedOnlyWhenAmbiguous, Answer
<1>4. CASE ~ (allowed = <<>> \/ \E k \in 1 .. Len(allowed) : allowed[k] = Everything)
  <2>1. /\ stage' = "matching" /\ verdict' = "open"
        /\ pattern' = 1 /\ part' = 1 /\ at' = 0
    BY <1>1, <1>4 DEF StsIdentifies
  <2>2. 1 \in 1 .. Len(allowed)
    BY <1>2, <1>4
  <2>3. /\ Placed' /\ Leftmost'
        /\ 1 \in 1 .. Len(allowed[1]) + 1 /\ 0 \in 0 .. Len(arn')
    BY <1>1, <1>2, <2>1, <2>2, BeginsRight
  <2>4. AuthTypeOK'
    BY <1>1, <1>2, <2>1, <2>2, <2>3 DEF AuthTypeOK
  <2>5. \A k \in 1 .. pattern' - 1 : Passed(k)'
    BY <2>1
  <2> QED
    BY <2>1, <2>3, <2>4, <2>5
    DEF AuthInv, MatchingRight, AcceptedMatches, RefusedOnlyWhenAmbiguous
<1> QED
  BY <1>3, <1>4

\* The invariant holds in every behaviour.
LEMMA AuthInvariant == Spec => []AuthInv
<1>1. Init => AuthInv
  BY DEF Init, AuthInv, AuthTypeOK, MatchingRight, AcceptedMatches, RefusedOnlyWhenAmbiguous
<1>2. AuthInv /\ [Next]_authVars => AuthInv'
  <2> SUFFICES ASSUME AuthInv, [Next]_authVars PROVE AuthInv'
    OBVIOUS
  <2>1. CASE UNCHANGED authVars
    BY <2>1 DEF authVars, AuthInv, AuthTypeOK, MatchingRight, AcceptedMatches,
                RefusedOnlyWhenAmbiguous, Placed, Leftmost, Passed, Parts
  <2> QED
    BY <2>1, AnswersKeep, StsIdentifiesKeeps, CompareWholeKeeps, TakePartKeeps,
       MissPartKeeps, EndOfPatternKeeps DEF Next
<1> QED
  BY <1>1, <1>2, PTL DEF Spec

\* AcceptedMatches: for any patterns and ARNs, whom the server accepts after a
\* call of STS has an ARN that one of its patterns stands for.
THEOREM AcceptanceSound == Spec => []AcceptedMatches
<1>1. AuthInv => AcceptedMatches
  BY DEF AuthInv
<1> QED
  BY <1>1, AuthInvariant, PTL

\* RefusedOnlyWhenAmbiguous: for any patterns and ARNs, the greedy loop refuses
\* what a pattern stands for only when the text behind the pattern's last '*'
\* occurs in the ARN twice.
THEOREM RefusalExact == Spec => []RefusedOnlyWhenAmbiguous
<1>1. AuthInv => RefusedOnlyWhenAmbiguous
  BY DEF AuthInv
<1> QED
  BY <1>1, AuthInvariant, PTL

\* Every variable keeps its type: indices and offsets stay in their ranges, so
\* the slicing of the ARN never panics.
THEOREM AuthTypeCorrect == Spec => []AuthTypeOK
<1>1. AuthInv => AuthTypeOK
  BY DEF AuthInv
<1> QED
  BY <1>1, AuthInvariant, PTL

===============================================================================
