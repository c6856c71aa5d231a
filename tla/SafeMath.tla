------------------------------ MODULE SafeMath ------------------------------
(***************************************************************************)
(* The integer operations of score::safe_math (language/safecpp/safe_math). *)
(*                                                                         *)
(* The C++ overloads are selected at compile time by the signedness of the *)
(* operands; here a type is a value, [signed, half] with half = 2^(w-1)    *)
(* for a width of w bits, and an operator takes the types of its operands  *)
(* and of its result beside them. Nothing depends on half being a power of *)
(* two. A built-in static_cast wraps around; it is never taken to be the   *)
(* identity, so that every cast the code makes has to be justified.        *)
(*                                                                         *)
(* Unexpected stands for both return modes of an error: the unexpected     *)
(* result of kReturnResultOnError and the std::abort of kAbortOnError.     *)
(* The overloads for bool and for floating point are not modelled.         *)
(***************************************************************************)
EXTENDS Integers

CONSTANTS IntHalf,     \* half of int, the type of the literal 0
          WidestHalf   \* half of std::uint64_t, the widest supported type

\* The supported integral types, up to the widest one.
Types == [signed : BOOLEAN, half : 1 .. WidestHalf]

int == [signed |-> TRUE, half |-> IntHalf]
uint64_t == [signed |-> FALSE, half |-> WidestHalf]

\* The width of the built-in types: int is one of the supported types.
Widths == WidestHalf \in Nat /\ IntHalf \in 1 .. WidestHalf

lowest(T) == IF T.signed THEN -T.half ELSE 0
max(T) == IF T.signed THEN T.half - 1 ELSE T.half + T.half - 1

make_unsigned(T) == [signed |-> FALSE, half |-> T.half]
make_signed(T) == [signed |-> TRUE, half |-> T.half]
bigger_type(T1, T2) == IF T1.half >= T2.half THEN T1 ELSE T2

\* v is representable in T.
In(T, v) == v \in lowest(T) .. max(T)

\* static_cast<T>(v): two's complement, modulo 2^w.
static_cast(T, v) == lowest(T) + ((v - lowest(T)) % (T.half + T.half))

Value(v) == [has_value |-> TRUE, value |-> v]
Unexpected == [has_value |-> FALSE]

---------------------------------------------------------------------------
(* Comparison *)

\* The operands have the same signedness: both are cast to the bigger type.
CmpLess_same(L, lhs, R, rhs) ==
    static_cast(bigger_type(L, R), lhs) < static_cast(bigger_type(L, R), rhs)

CmpLess(L, lhs, R, rhs) ==
    IF L.signed <=> R.signed THEN CmpLess_same(L, lhs, R, rhs)
    ELSE IF L.signed
    THEN \/ CmpLess_same(L, lhs, L, 0)
         \/ CmpLess_same(make_unsigned(L), static_cast(make_unsigned(L), lhs), R, rhs)
    ELSE /\ ~CmpLess_same(R, rhs, R, 0)
         /\ CmpLess_same(L, lhs, make_unsigned(R), static_cast(make_unsigned(R), rhs))

\* A signed and an unsigned operand in either order.
CmpEqual_mixed(S, lhs_signed, U, rhs_unsigned) ==
    /\ ~CmpLess(S, lhs_signed, S, 0)
    /\ LET B == bigger_type(make_unsigned(S), U)
       IN  static_cast(B, lhs_signed) = static_cast(B, rhs_unsigned)

CmpEqual(L, lhs, R, rhs) ==
    IF L.signed <=> R.signed
    THEN static_cast(bigger_type(L, R), lhs) = static_cast(bigger_type(L, R), rhs)
    ELSE IF L.signed THEN CmpEqual_mixed(L, lhs, R, rhs)
    ELSE CmpEqual_mixed(R, rhs, L, lhs)

CmpGreater(L, lhs, R, rhs) == CmpLess(R, rhs, L, lhs)

\* CmpLess(value, 0) with the literal 0 of type int.
Negative(T, value) == CmpLess(T, value, int, 0)

---------------------------------------------------------------------------
(* Cast, Abs, Negate *)

IsOutsideBoundsOfR(R, T, value) ==
    CmpLess(T, value, R, lowest(R)) \/ CmpGreater(T, value, R, max(R))

Cast(R, T, value) ==
    IF IsOutsideBoundsOfR(R, T, value) THEN Unexpected ELSE Value(static_cast(R, value))

Abs(T, value) ==
    IF ~T.signed THEN value
    ELSE IF CmpEqual(T, value, T, lowest(T)) THEN static_cast(make_unsigned(T), max(T)) + 1
    ELSE IF Negative(T, value)
    THEN static_cast(make_unsigned(T), static_cast(T, -value))
    ELSE static_cast(make_unsigned(T), value)

\* The negation of a value of the unsigned type U. The lowest value of a signed
\* R is the one whose absolute value the signed type cannot hold.
Negate(R, U, value) ==
    LET signed_value == Cast(make_signed(R), U, value)
    IN  IF R.signed /\ CmpEqual(U, value, make_unsigned(R), Abs(R, lowest(R)))
        THEN Value(lowest(R))
        ELSE IF ~signed_value.has_value THEN Unexpected
        ELSE Cast(R, make_signed(R), static_cast(make_signed(R), -signed_value.value))

\* The negation of a value of the signed type S.
Negate_signed(R, S, value) ==
    IF Negative(S, value) THEN Cast(R, make_unsigned(S), Abs(S, value))
    ELSE Cast(R, S, static_cast(S, -value))

---------------------------------------------------------------------------
(* Add, Subtract: one operator per pair of signednesses, A for any *)

Add_UU(R, L, lhs, T, rhs) ==
    LET lhs_common == Cast(R, L, lhs)
        rhs_common == Cast(R, T, rhs)
        max_allowed == static_cast(R, max(R) - rhs_common.value)
    IN  IF ~lhs_common.has_value \/ ~rhs_common.has_value THEN Unexpected
        ELSE IF CmpGreater(R, lhs_common.value, R, max_allowed) THEN Unexpected
        ELSE Value(static_cast(R, lhs_common.value + rhs_common.value))

Subtract_UU(R, L, lhs, T, rhs) ==
    IF CmpLess(L, lhs, T, rhs)
    THEN Negate(R, T, static_cast(T, rhs - static_cast(T, lhs)))
    ELSE LET I == bigger_type(L, T) IN Cast(R, I, static_cast(I, lhs - rhs))

\* lhs - rhs = -(|lhs| + rhs) for a negative lhs, with the sum in std::uint64_t.
Subtract_AU(R, L, lhs, T, rhs) ==
    LET intermediate == Add_UU(uint64_t, make_unsigned(L), Abs(L, lhs), T, rhs)
    IN  IF ~L.signed THEN Subtract_UU(R, L, lhs, T, rhs)
        ELSE IF Negative(L, lhs)
        THEN IF ~intermediate.has_value THEN Unexpected
             ELSE Negate(R, uint64_t, intermediate.value)
        ELSE Subtract_UU(R, make_unsigned(L), static_cast(make_unsigned(L), lhs), T, rhs)

Add_UA(R, L, lhs, T, rhs) ==
    IF ~T.signed THEN Add_UU(R, L, lhs, T, rhs)
    ELSE IF Negative(T, rhs)
    THEN Subtract_AU(R, L, lhs, make_unsigned(T), Abs(T, rhs))
    ELSE Add_UU(R, L, lhs, make_unsigned(T), static_cast(make_unsigned(T), rhs))

\* A signed lhs and an unsigned rhs change places.
Add_AU(R, L, lhs, T, rhs) ==
    IF L.signed THEN Add_UA(R, T, rhs, L, lhs) ELSE Add_UU(R, L, lhs, T, rhs)

Add(R, L, lhs, T, rhs) ==
    IF ~T.signed THEN Add_AU(R, L, lhs, T, rhs)
    ELSE IF Negative(T, rhs)
    THEN Subtract_AU(R, L, lhs, make_unsigned(T), Abs(T, rhs))
    ELSE Add_AU(R, L, lhs, make_unsigned(T), static_cast(make_unsigned(T), rhs))

Subtract(R, L, lhs, T, rhs) ==
    IF ~T.signed THEN Subtract_AU(R, L, lhs, T, rhs)
    ELSE IF CmpLess(T, rhs, make_unsigned(int), 0)
    THEN Add_AU(R, L, lhs, make_unsigned(T), Abs(T, rhs))
    ELSE Subtract_AU(R, L, lhs, make_unsigned(T), static_cast(make_unsigned(T), rhs))

---------------------------------------------------------------------------
(* Multiply, Divide *)

CommonType(L, T) == bigger_type(make_unsigned(L), make_unsigned(T))

\* The sign of a product or quotient whose absolute value is result.
WithSign(R, C, result, L, lhs, T, rhs) ==
    IF Negative(L, lhs) <=> Negative(T, rhs) THEN Cast(R, C, result) ELSE Negate(R, C, result)

Multiply(R, L, lhs, T, rhs) ==
    LET C == CommonType(L, T)
        abs_lhs == static_cast(C, Abs(L, lhs))
        abs_rhs == static_cast(C, Abs(T, rhs))
        numeric_limit == static_cast(C, max(C) \div abs_rhs)
    IN  IF CmpEqual(L, lhs, int, 0) \/ CmpEqual(T, rhs, int, 0) THEN Cast(R, int, 0)
        ELSE IF CmpGreater(C, abs_lhs, C, numeric_limit) THEN Unexpected
        ELSE WithSign(R, C, static_cast(C, abs_lhs * abs_rhs), L, lhs, T, rhs)

Divide(R, L, lhs, T, rhs) ==
    LET C == CommonType(L, T)
        abs_lhs == static_cast(C, Abs(L, lhs))
        abs_rhs == static_cast(C, Abs(T, rhs))
    IN  IF CmpEqual(T, rhs, int, 0) \/ abs_lhs % abs_rhs # 0 THEN Unexpected
        ELSE WithSign(R, C, static_cast(C, abs_lhs \div abs_rhs), L, lhs, T, rhs)
=============================================================================
