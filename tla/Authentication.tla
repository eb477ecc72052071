--------------------------- MODULE Authentication ---------------------------
(***************************************************************************)
(* DefaultAuthService (mesh/src/server/auth.rs): an agent's presigned URL  *)
(* is called, and the ARN in STS's answer is compared with the patterns of *)
(* ALLOWED_ROLE_ARNS.                                                      *)
(*                                                                         *)
(* A pattern is the list of its parts, what splitting it at '*' gives: one *)
(* part when it has no '*', an empty last part when it ends with one, two  *)
(* empty parts when it is "*".  An ARN is a sequence of characters.  The   *)
(* matching loop is modelled iteration by iteration: `at' is the offset of *)
(* arn_remaining in the ARN.                                               *)
(***************************************************************************)
EXTENDS Integers, Sequences

CONSTANTS
    Chars,           \* the characters of ARNs and patterns, '*' aside
    Arns,            \* the ARNs STS may report
    Configurations,  \* the lists of patterns a server may be configured with
    None             \* no ARN

Patterns == Seq(Seq(Chars)) \ {<<>>}

ASSUME AuthenticationAssumption ==
    /\ Arns \subseteq Seq(Chars)
    /\ Configurations \subseteq Seq(Patterns)
    /\ None \notin Arns

VARIABLES
    skip_validation, \* SKIP_IAM_VALIDATION
    allowed,         \* allowed_role_patterns
    stage,           \* of the request: "idle" between two, "sts" or "matching"
    arn,             \* the ARN STS reported, or None
    pattern,         \* index of the pattern that is compared
    part,            \* index of its part that is looked for
    at,              \* offset of arn_remaining
    verdict          \* of the latest request: "accepted", "refused", or "open"

authVars == <<skip_validation, allowed, stage, arn, pattern, part, at, verdict>>

AuthTypeOK ==
    /\ skip_validation \in BOOLEAN
    /\ allowed \in Configurations
    /\ stage \in {"idle", "sts", "matching"}
    /\ arn \in Arns \cup {None}
    /\ verdict \in {"accepted", "refused", "open"}
    /\ stage = "matching" =>
           /\ arn # None
           /\ pattern \in 1 .. Len(allowed)
           /\ part \in 1 .. Len(allowed[pattern]) + 1
           /\ at \in 0 .. Len(arn)

Init ==
    /\ skip_validation \in BOOLEAN
    /\ allowed \in Configurations
    /\ stage = "idle" /\ arn = None
    /\ pattern = 1 /\ part = 1 /\ at = 0
    /\ verdict = "open"

-----------------------------------------------------------------------------
(* Patterns *)

Everything == << <<>>, <<>> >>

Parts == allowed[pattern]

EndsWithStar(parts) == Len(parts) > 1 /\ parts[Len(parts)] = <<>>

\* The string occurs in s at the offset.
Occurs(string, s, offset) ==
    /\ offset + Len(string) <= Len(s)
    /\ \A j \in 1 .. Len(string) : s[offset + j] = string[j]

\* Mutant: the place farthest from the beginning.
FindLast(string, s, from, offset) ==
    /\ offset \in from .. Len(s)
    /\ Occurs(string, s, offset)
    /\ \A other \in offset + 1 .. Len(s) : ~ Occurs(string, s, other)

\* str::find in s from an offset on: the first place.
Find(string, s, from, offset) ==
    /\ offset \in from .. Len(s)
    /\ Occurs(string, s, offset)
    /\ \A other \in from .. offset - 1 : ~ Occurs(string, s, other)

\* It finds something.
Finds(string, s, from) == \E offset \in from .. Len(s) : Occurs(string, s, offset)

-----------------------------------------------------------------------------
(* Steps *)

Answer(v) ==
    /\ verdict' = v
    /\ stage' = "idle"

\* Mutant: the end of the list is not looked for.
NextPatternUnbounded ==
    /\ pattern' = pattern + 1 /\ part' = 1 /\ at' = 0
    /\ UNCHANGED <<stage, verdict>>

\* The next pattern is tried with the whole ARN; after the last, `any' is false.
NextPattern ==
    IF pattern < Len(allowed)
    THEN /\ pattern' = pattern + 1 /\ part' = 1 /\ at' = 0
         /\ UNCHANGED <<stage, verdict>>
    ELSE /\ Answer("refused")
         /\ UNCHANGED <<pattern, part, at>>

\* A request: validation may be off; the URL may be missing or not be one; and
\* else STS is called.
Authenticate ==
    /\ stage = "idle"
    /\ arn' = None
    /\ \/ skip_validation /\ Answer("accepted")
       \/ ~ skip_validation /\ Answer("refused")
       \/ ~ skip_validation /\ stage' = "sts" /\ verdict' = "open"
    /\ UNCHANGED <<skip_validation, allowed, pattern, part, at>>

\* The call fails, is answered with an error, or with no complete identity.
StsFails ==
    /\ stage = "sts"
    /\ Answer("refused")
    /\ UNCHANGED <<skip_validation, allowed, arn, pattern, part, at>>

\* is_role_allowed accepts every ARN when there is no pattern or one is "*".
StsIdentifies ==
    /\ stage = "sts"
    /\ arn' \in Arns
    /\ IF allowed = <<>> \/ \E k \in 1 .. Len(allowed) : allowed[k] = Everything
       THEN Answer("accepted") /\ UNCHANGED <<pattern, part, at>>
       ELSE /\ stage' = "matching"
            /\ pattern' = 1 /\ part' = 1 /\ at' = 0
            /\ UNCHANGED verdict
    /\ UNCHANGED <<skip_validation, allowed>>

\* A pattern without '*' must be the ARN.
CompareWhole ==
    /\ stage = "matching"
    /\ Len(Parts) = 1
    /\ IF arn = Parts[1]
       THEN Answer("accepted") /\ UNCHANGED <<pattern, part, at>>
       ELSE NextPattern
    /\ UNCHANGED <<skip_validation, allowed, arn>>

\* An iteration: the first part must be where the ARN begins, the others are
\* taken where they are found first, and an empty part changes nothing.
TakePart ==
    /\ stage = "matching"
    /\ Len(Parts) > 1 /\ part <= Len(Parts)
    /\ part' = part + 1
    /\ IF Parts[part] = <<>>
       THEN at' = at
       ELSE \E offset \in at .. Len(arn) :
                /\ Find(Parts[part], arn, at, offset)
                /\ part = 1 => offset = 0
                /\ at' = offset + Len(Parts[part])
    /\ UNCHANGED <<skip_validation, allowed, stage, arn, pattern, verdict>>

\* The loop returns early: the ARN does not begin with the first part, or what
\* remains of it does not contain the part.
MissPart ==
    /\ stage = "matching"
    /\ Len(Parts) > 1 /\ part <= Len(Parts)
    /\ Parts[part] # <<>>
    /\ \/ part = 1 /\ ~ Find(Parts[1], arn, 0, 0)
       \/ ~ Finds(Parts[part], arn, at)
    /\ NextPattern
    /\ UNCHANGED <<skip_validation, allowed, arn>>

\* Mutant: what remains of the ARN is not looked at.
EndOfPatternLax ==
    /\ stage = "matching"
    /\ Len(Parts) > 1 /\ part > Len(Parts)
    /\ Answer("accepted") /\ UNCHANGED <<pattern, part, at>>
    /\ UNCHANGED <<skip_validation, allowed, arn>>

\* After the loop the pattern ends with '*', or nothing of the ARN may remain.
EndOfPattern ==
    /\ stage = "matching"
    /\ Len(Parts) > 1 /\ part > Len(Parts)
    /\ IF EndsWithStar(Parts) \/ at = Len(arn)
       THEN Answer("accepted") /\ UNCHANGED <<pattern, part, at>>
       ELSE NextPattern
    /\ UNCHANGED <<skip_validation, allowed, arn>>

Next ==
    \/ Authenticate \/ StsFails \/ StsIdentifies
    \/ CompareWhole \/ TakePart \/ MissPart \/ EndOfPattern

Spec == Init /\ [][Next]_authVars

-----------------------------------------------------------------------------
(* Properties *)

\* The reference: the parts can be laid on the ARN one after the other, the
\* first at its beginning and the last at its end.
Places(parts, s, f) ==
    /\ f \in [1 .. Len(parts) -> 0 .. Len(s)]
    /\ \A k \in 1 .. Len(parts) : Occurs(parts[k], s, f[k])
    /\ \A k \in 1 .. Len(parts) - 1 : f[k] + Len(parts[k]) <= f[k + 1]
    /\ f[1] = 0
    /\ f[Len(parts)] + Len(parts[Len(parts)]) = Len(s)

Globs(parts, s) == \E f \in [1 .. Len(parts) -> 0 .. Len(s)] : Places(parts, s, f)

\* auth.rs:44-94: whom the server accepts after a call of STS has an ARN that
\* one of the patterns stands for, or the server has no pattern.
AcceptedMatches ==
    verdict = "accepted" /\ ~ skip_validation =>
        /\ arn # None
        /\ allowed = <<>> \/ \E k \in 1 .. Len(allowed) : Globs(allowed[k], arn)

\* A part that the ARN ends with and that occurs in it earlier as well.
EndsTwice(parts, s) ==
    LET last == parts[Len(parts)] IN
    /\ Len(parts) > 1 /\ last # <<>>
    /\ \E offset \in 0 .. Len(s) :
           Occurs(last, s, offset) /\ offset + Len(last) < Len(s)

\* auth.rs:66-93: an ARN some pattern stands for is refused only when the text
\* behind the pattern's last '*' occurs in the ARN before its end, too: patterns
\* that end with '*' or have no '*' never refuse what they stand for.
\* The exception is real: "*a" refuses "aa" (auth.rs:56 does not say so).
RefusedOnlyWhenAmbiguous ==
    verdict = "refused" /\ arn # None =>
        \A k \in 1 .. Len(allowed) :
            Globs(allowed[k], arn) => EndsTwice(allowed[k], arn)
=============================================================================
