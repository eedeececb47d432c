------------------------- MODULE IntegralConversion -------------------------
(***************************************************************************)
(* Conversions between integrals and bit arrays: the constructor of an     *)
(* array of bits from an integral (bit_array_base.hpp from_integral) and   *)
(* the conversion operator back, with the default policy (bit_policy.hpp:  *)
(* truncation = truncate, extension = sign_extend).  An integral is its    *)
(* type, a width and a signedness, and its bits, the least significant     *)
(* first.  The two conversions need not be to the same type.               *)
(*                                                                         *)
(* The state is one array.  Creating one leaves its bits indeterminate     *)
(* until from_integral writes them; converting it leaves the array as it   *)
(* is.  The assertion on the size that operator U begins with is compiled  *)
(* out (NDEBUG), so that arrays wider than the integral are truncated.     *)
(***************************************************************************)
EXTENDS Integers, FiniteSetsExt

CONSTANTS
  Extent,  \* "dynamic", bit_array<>(n, value), or "static", bit_array<N>(value)
  Sizes,   \* the arrays' sizes
  Widths   \* the integral types' widths

Types == [bits : Widths, signed : BOOLEAN]

ZeroOne == {0, 1}

\* Sequences of n bits, indexed as the code does, from 0.
BitsOf(n) == [0 .. (n - 1) -> ZeroOne]

VARIABLES
  array,    \* the array's bits
  size,
  given,    \* history: the integral the array was made from, and
  gtype,    \* its type
  value,    \* the integral the array was last converted to, and
  vtype     \* its type

vars == <<array, size, given, gtype, value, vtype>>

Least(a, b) == IF a <= b THEN a ELSE b

\* A faulty CopyTo: all of src, whether or not there is room for it.
CopyToWhole(rest, src) ==
  [i \in DOMAIN rest \union DOMAIN src |-> IF i \in DOMAIN src THEN src[i] ELSE rest[i]]

\* The bits of src to begin with, and then those of rest: copying to the
\* beginning of rest as much as both have.
CopyTo(rest, src) ==
  [i \in DOMAIN rest |-> IF i \in DOMAIN src THEN src[i] ELSE rest[i]]

\* bits with those in [first, last) set to b.
FillBits(bits, first, last, b) ==
  [i \in DOMAIN bits |-> IF first <= i /\ i < last THEN b ELSE bits[i]]

Negative(bits, type) == type.signed /\ bits[type.bits - 1] = 1

\* A faulty FromExtended: zeros above the integral, whatever its sign.
FromExtendedByZero(bits, integral, type) ==
  FillBits(bits, type.bits, size', 0)

\* sign_extend::from_integral.  The static version begins to fill at N, which
\* is where the array ends.
FromExtended(bits, integral, type) ==
  FillBits(bits, IF Extent = "dynamic" THEN type.bits ELSE size', size',
           IF Negative(integral, type) THEN 1 ELSE 0)

\* An array of n bits made from an integral: as much of it as there is room for
\* is copied, and the rest extends it.
FromIntegral(n, integral, type) ==
  /\ size' = n /\ given' = integral /\ gtype' = type
  /\ \E indeterminate \in BitsOf(n) :
       LET copied == CopyTo(indeterminate, integral)
       IN  array' = IF type.bits < n THEN FromExtended(copied, integral, type)
                                     ELSE copied
  /\ value' = integral /\ vtype' = type   \* no conversion yet

\* A faulty ToExtended: the integral's own high bit is what is repeated.
ToExtendedByOwn(bits, type) ==
  FillBits(bits, size, type.bits, IF type.signed THEN bits[type.bits - 1] ELSE 0)

\* sign_extend::to_integral: the array's last bit is repeated.
ToExtended(bits, type) ==
  FillBits(bits, size, type.bits, IF type.signed THEN array[size - 1] ELSE 0)

\* A faulty ToIntegral: an unsigned integral is not extended, as in the
\* iterator form of sign_extend::to_integral.
ToIntegralSignedOnly(type) ==
  /\ \E indeterminate \in BitsOf(type.bits) :
       LET copied == CopyTo(indeterminate, array)
       IN  value' = IF size < type.bits /\ type.signed THEN ToExtended(copied, type)
                                                       ELSE copied
  /\ vtype' = type
  /\ UNCHANGED <<array, size, given, gtype>>

\* operator U: the variable returned is not initialised.
ToIntegral(type) ==
  /\ \E indeterminate \in BitsOf(type.bits) :
       LET copied == CopyTo(indeterminate, array)
       IN  value' = IF size < type.bits THEN ToExtended(copied, type) ELSE copied
  /\ vtype' = type
  /\ UNCHANGED <<array, size, given, gtype>>

\* An array as wide as the integral it is made from.
Init ==
  /\ size \in Sizes /\ gtype \in Types /\ size = gtype.bits
  /\ given \in BitsOf(size)
  /\ array = given /\ value = given /\ vtype = gtype

Next ==
  \/ \E n \in Sizes, type \in Types :
       \E integral \in BitsOf(type.bits) : FromIntegral(n, integral, type)
  \/ \E type \in Types : ToIntegral(type)

Spec == Init /\ [][Next]_vars

----------------------------------------------------------------------------
(* Properties, on the numbers the bits stand for.                          *)

\* The number bits stand for, unsigned, and in two's complement.
Unsigned(bits) == MapThenSumSet(LAMBDA i : bits[i] * 2 ^ i, DOMAIN bits)
Number(bits, n, signed) ==
  Unsigned(bits) - (IF signed /\ bits[n - 1] = 1 THEN 2 ^ n ELSE 0)

Given == Number(given, gtype.bits, gtype.signed)

\* Types.
TypeOK ==
  /\ size \in Sizes /\ array \in BitsOf(size)
  /\ gtype \in Types /\ given \in BitsOf(gtype.bits)
  /\ vtype \in Types /\ value \in BitsOf(vtype.bits)

\* An array made from an integral holds its value, sign extended or truncated
\* to the array's size (README.md:235).
ArrayHoldsValue == Unsigned(array) = Given % 2 ^ size

\* operator U leaves the array's bits, read as a number of U's signedness and
\* truncated to U, whatever was in the variable it returns.
ConversionExact ==
  \A type \in Types : ToIntegral(type) =>
    Unsigned(value') = Number(array, size, type.signed) % 2 ^ type.bits

\* An integral converted to another by way of an array is what a cast of the
\* language would make it, if the array has the bits of the target or can hold
\* the number with the target's signedness.
CastAgrees ==
  LET holds == IF vtype.signed THEN Given \in -(2 ^ (size - 1)) .. (2 ^ (size - 1) - 1)
                               ELSE Given \in 0 .. (2 ^ size - 1)
  IN  size >= vtype.bits \/ holds =>
        Unsigned(value) = Given % 2 ^ vtype.bits
=============================================================================
