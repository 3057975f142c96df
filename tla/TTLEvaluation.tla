----------------------------- MODULE TTLEvaluation -----------------------------
(***************************************************************************)
(* When an object expires: the four TTL modes, in 64-bit nanoseconds.      *)
(*                                                                         *)
(* Source: internal/ttl/evaluator.go, and shouldDelete in                  *)
(* pkg/controller/evaluate_policy_refactored.go and reconciler.go, which   *)
(* are the same twice.  A pointer of the code is a set, {} for nil.  A     *)
(* field is what the unstructured accessors can tell apart: an integer, a  *)
(* string, something else, or absent.                                      *)
(***************************************************************************)
EXTENDS Integers

CONSTANTS
    Half,       \* 2^63: an int64 is in -Half .. Half - 1
    Second,     \* nanoseconds in a second
    TimeOf,     \* the strings that parse as RFC 3339, and the time each denotes
    ZeroTime    \* time.Time{}

ASSUME ClockAssumption == Half \in Nat \ {0} /\ Second \in Nat \ {0} /\ ZeroTime \in Int
ASSUME ParseAssumption == \A s \in DOMAIN TimeOf : TimeOf[s] \in Int

The(o) == CHOOSE v \in o : TRUE

\* time.Duration(s) * time.Second, an int64 product.
Duration(s) == ((s * Second + Half) % (2 * Half)) - Half

Expires(t) == [at |-> t, err |-> "none"]
Fails(e) == [at |-> ZeroTime, err |-> e]

\* What the accessors find at a path.  It is split at its dots, the escaped ones aside,
\* so that every path leads to a field of its own.
FieldAt(o, path) == o.fields[path]

\* What fieldPath yields: an integer as it is, a string by its mapping.  The default is
\* for a string without a mapping of its own, if there are mappings, and for a field
\* that is absent or of another type.
FieldSeconds(field, spec) ==
    IF field.kind = "int" THEN {field.value}
    ELSE IF field.kind # "string" THEN spec.default
    ELSE IF DOMAIN spec.mappings = {} THEN {}
    ELSE IF field.value \in DOMAIN spec.mappings THEN {spec.mappings[field.value]}
    ELSE spec.default

FieldError(field, spec) ==
    IF field.kind = "string" /\ DOMAIN spec.mappings # {} THEN "ErrNoMappingForFieldValue"
    ELSE "ErrFieldPathNotFound"

RelativeExpiration(field, spec, now) ==
    IF field.kind # "string" THEN Fails("ErrRelativeTimestampFieldNotFound")
    ELSE IF field.value \notin DOMAIN TimeOf THEN Fails("ErrInvalidTimestampFormat")
    ELSE LET at == TimeOf[field.value] + Duration(The(spec.secondsAfter))
         IN IF now > at THEN Fails("ErrRelativeTTLExpired") ELSE Expires(at)

CalculateExpirationTime(o, spec, now) ==
    IF spec.secondsAfterCreation # {}
    THEN Expires(o.created + Duration(The(spec.secondsAfterCreation)))
    ELSE IF spec.fieldPath # ""
    THEN LET field == FieldAt(o, spec.fieldPath)
             seconds == FieldSeconds(field, spec)
         IN IF seconds # {} THEN Expires(o.created + Duration(The(seconds)))
            ELSE Fails(FieldError(field, spec))
    ELSE IF spec.relativeTo # "" /\ spec.secondsAfter # {}
    THEN RelativeExpiration(FieldAt(o, spec.relativeTo), spec, now)
    ELSE Fails("ErrNoValidTTLConfiguration")

\* A slip: every error is a missing TTL.
ShouldDeleteNoRelative(o, spec, now, later) ==
    LET e == CalculateExpirationTime(o, spec, now)
    IN IF e.err # "none" \/ e.at = ZeroTime THEN "NoTTL"
       ELSE IF later > e.at THEN "TTLExpired" ELSE "NotExpired"

\* The clock is read twice, by the calculation and by its caller.
ShouldDelete(o, spec, now, later) ==
    LET e == CalculateExpirationTime(o, spec, now)
    IN IF e.err = "ErrRelativeTTLExpired" THEN "TTLExpired"
       ELSE IF e.err # "none" \/ e.at = ZeroTime THEN "NoTTL"
       ELSE IF later > e.at THEN "TTLExpired" ELSE "NotExpired"
================================================================================
