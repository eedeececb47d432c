# BitLib in TLA+

A verification project for BitLib, the header-only C++ library of iterators,
containers and algorithms over bits. It holds TLA+ modules translated from the
headers under `src/include/bitlib`, TLC configurations that check them on small
instances, and theorems checked by TLAPS for every value of the constants.
`PROJECT.json` lists, for every definition that stands for code, the lines it
stands for; for every run, what it checks; and for every property, a faulty
version of the code (an operator named after the definition it replaces, just
before it in the same module) that the property must refuse.

Paths below are relative to `src/include/bitlib`.

## 1. The system

BitLib is sequential: no threads, no messages, nothing persistent. A call runs
to completion. What makes it hard is arithmetic at two levels. A program asks
for operations on ranges of *bits*; the code answers with loads, shifts, blends
and stores of *words*. A range begins and ends inside words whose other bits
belong to somebody else, source and destination begin at different positions,
they may overlap or share a word, and every algorithm has a head, a body and a
tail that must agree on where one ends and the next begins. The containers add
storage that is managed by hand.

### Components

| Component | State | Operations | Interacts with | Hard part |
|---|---|---|---|---|
| word instructions (`bit-iterator/bit_details.hpp`) | none | shifts, masks, blend, `_shrd`, `_bitexch`, `_bitswap`, `_divx`, `_mulx`, `add_carry_sub_borrow` | called by all algorithms | shift counts C++ leaves undefined, carries, one word used twice |
| word access (`bit-algorithms/bit_algorithm_details.hpp`) | none | `get_word`, `get_masked_word`, `write_word` | same | one or two words touched, never one outside the range |
| `bit_iterator` | word pointer, position | moves, differences, comparisons | every range | signed sums divided by unsigned widths |
| `bit_reference`, `bit_value` | word reference, mask | assignment, bitwise assignment, flip, swap, extraction | what iterators dereference to | the word's other bits, two references to one bit |
| word pointer adapter | source pointer, index | as an iterator over words of another size | `copy`, `equal` with different words | wrap round of an unsigned index |
| word reference adapter | source pointer, index | reads, assignments, swaps | what a word pointer adapter dereferences to | parts of a word, references that share one |
| movers: `copy`, `copy_backward`, `shift_left`, `shift_right`, `reverse`, `swap_ranges`, `rotate`, `fill` | locals of one call | one call | containers call them | overlap, partial words, termination of `rotate` |
| scans: `find`, `count`, `count_msb`, `equal` | locals of one call | one call | strings call `count_msb` | partial words, order of words |
| arithmetic: `transform`, `addition`, `multiplication`, `division` | locals of one call, the lambda's carry | one call | strings call the three | carries out of partial words, in-place use |
| `to_string`, `from_string` | locals of one call | one call | call the arithmetic in base 10 | digits against words, buffers that are too short |
| `bit_vector` | a vector of words, `length_` | the modifiers of `std::vector<bool>` | calls the movers | words against length, stale bits past the end |
| dynamic `bit_array` | a union of words and pointer, the extent | construction, copy, move, assignment, swap, destruction | an allocator | which member of the union lives |
| integral conversions (`bit_policy.hpp`, `bit_array_base.hpp`) | the array's bits | from and to integrals | arrays | truncation and sign extension |
| views: `array_ref`, `bit_span`, the mdspan accessor | pointer and length | assignment, rebinding, swap, element access, fill, bitwise operators, slices | call the movers on memory they do not own | two views that share bits; views of views |
| literals (`bit_literal.hpp`) | base, size and number read so far | one character | make a static `bit_array` | the size is read before it is known to be one |
| static `bit_array`, concepts, traits | `std::array`, or none | – | – | see section 8 |

### What makes each correct

* A mover: the bits that end up in the destination are those the source had
  *at the call*, whatever the overlap the standard algorithm allows; nothing
  outside the destination changes; no source bit is overwritten before it is
  read; only words that hold a bit of the ranges are dereferenced; no shift is
  undefined; the call returns.
* A scan: the answer is that of the bit-by-bit definition, for every content
  and alignment, and nothing outside the words of the range is read.
* Arithmetic: the range, read as a number, becomes the number asked for, and
  the value returned is the carry or the remainder.
* Iterators, references and adapters: any sequence of calls leaves them
  designating the bit the calls add up to, and writing through them changes
  that bit and no other.
* Containers: they refine the abstract sequence, or values, they promise, and
  own exactly the storage they use.

## 2. The modules

### Foundations

* `BitWord` – words as functions of bit positions, the shift, mask and blend
  instructions, `get_word` and `write_word`, with the words they touch and the
  shifts they make. Memory is one array of bits; a bit iterator is the number
  `W * word + position`. `BitIterator` shows that the code's pairs compute with
  these numbers, so that the algorithms may be written with them.
* `SequenceMove` – the abstract specification of every mover: `len` bits at
  `src` end up at `dst`, in any order, and nothing else changes.
* `VectorOfBits`, `ArrayValues` – the abstract specifications of the
  containers.

### Components

| Module | Code | One step is |
|---|---|---|
| `BitCopy`, `BitCopyBackward`, `BitFill`, `BitShiftLeft`, `BitShiftRight` | the algorithm of that name | one word stored |
| `BitSwapRanges` | `swap_ranges.hpp`, `_bitexch` | one pair of fields exchanged |
| `BitReverse` | `reverse.hpp` | one pass |
| `BitRotate` | `rotate.hpp` | one block exchanged, or a final case |
| `BitFind`, `BitCount`, `BitEqual` | `find.hpp`, `count.hpp`, `equal.hpp` | one word looked at |
| `BitCountMsb` | `count_msb` over `accumulate_while` | one word handed to the operation |
| `BitTransform`, `BitTransformBinary` | `transform.hpp`, with the lambdas of `addition.hpp` and `multiplication.hpp`; the two as numbers | one word |
| `BitDivision` | `division.hpp`, `transform_accumulate.hpp` backward | one word |
| `WideArithmetic` | `_divx`, `_mulx`, `add_carry_sub_borrow` | one digit of the quotient |
| `BitIterator`, `WordReference` | the class | one call |
| `WordPointer` | the class, and `with_bit_iterator_adapter` | one call on an adapter (`Next`), or on a bit iterator over one (`AdaptedNext`) |
| `BitReference` | `bit_reference`, and a `bit_value` beside two of them | one call |
| `DigitString` | `to_from_string.hpp`, bases that are powers of two | one word (`to_string`), one character (`from_string`) |
| `DecimalString` | the same in other bases, as 10, by numbers | one digit |
| `Literal` | `bit_literal.hpp` | one character |
| `BitVector`, `DynArray` | the container | one call |
| `Views` | `array_ref`, `bit_span`, the mdspan accessor, `array_base` | one call on one of two views of one memory |
| `IntegralConversion` | `from_integral`, `operator U`, the default policy | one conversion |

The proofs: `BitWordTheorems` (lemmas about words, powers and division, which the
next five extend),
`BitCopyTheorems`, `MoveTheorems`, `ScanTheorems`, `ExchangeTheorems`,
`ArithmeticTheorems`; `AddressesTheorems`, `ContainersTheorems`.

### Composition

Calls: `BitReverse` and `BitRotate` call `shift_left`, `shift_right` and
`swap_ranges`; `BitVector` calls `copy`, `fill` and the shifts; `Views` calls the movers and
`transform`; `DecimalString` calls `division`, `count_msb`, `multiplication` and
`addition`. They take them
by the contract that the callee's own module checks of the code (`CopyCorrect`,
`ShiftCorrect`, `SwapCorrect`, …). What the bits a shift vacates hold the code leaves
open: in `BitVector` it is any value, in `BitReverse` and `BitRotate` the name `Zero`,
which no bit of the run's memory has, so that one that stayed would be seen. Both containers are checked against
their abstract specification, and the movers against `SequenceMove`, with
`INSTANCE … WITH`.

Runs: functions that work on the same kind of memory are checked together. The
composing modules instantiate each of them over one set of variables, pick one
call in the initial state, and take its steps; each property is the conjunction,
over the functions, of what that function's own module states. `BitCopy` is run
by itself.

| Module | Instantiates |
|---|---|
| `MCMoveAlgorithms` | `BitCopyBackward`, `BitFill`, `BitShiftLeft`, `BitShiftRight`, `BitTransformBinary`, and `SequenceMove` for all of them |
| `MCExchangeAlgorithms` | `BitSwapRanges`, `BitReverse`, `BitRotate` |
| `MCScanAlgorithms` | `BitFind`, `BitCount`, `BitCountMsb`, `BitEqual` |
| `MCArithmetic` | `BitTransform` with each of its three functions, `BitDivision`, `WideArithmetic`, `DigitString`, `DecimalString`, `Literal`, `IntegralConversion` for both extents |
| `MCAddresses` | extends `BitIterator`; `WordPointer` and `WordReference` in both directions, `BitReference`, `Views` |
| `MCContainers` | `BitVector` with `VectorOfBits`, `DynArray` with `ArrayValues` |

### Abstractions

* The movers never look at a bit's value, so in their runs every cell holds a
  different name: one run stands for all contents, and a misplaced bit is seen
  whatever its value. `BitSwapRanges` makes a bit a *set* of names and
  exclusive or the symmetric difference. Scans and arithmetic run over all
  contents in `{0, 1}`.
* `used` and `shifts` are history variables: the words the last step
  dereferenced and the shift counts it used.
* The Highway paths (`BITLIB_HWY`) batch the scalar loops and are left out, as
  are `assert`s that `NDEBUG` removes.
* Standard preconditions are assumed where the standard algorithm has them:
  `d_first` not inside the source for `copy`, disjoint ranges for
  `swap_ranges`, and so on. Every overlap they allow is enumerated.
* Characters are the digits they stand for, in `from_string` also digits the base
  does not have; `char` is signed.

## 3. What the runs check, and their bounds

Widths of 3 or 4 bits and 3 to 5 words are enough for what can go wrong: they
give every pair of alignments, an empty range, a range inside a word, one that
ends or begins at a boundary, a head and tail without body, a body of one and
of two words (so that the loop is taken again with what it left), words around
the range that must not be touched, and overlaps by less and by more than a
word. Width 4 rather than 2 separates `position`, `digits - position` and half
a word.

| Run | Bounds | Shows |
|---|---|---|
| `copy` | W 4, 4 words | `CopyCorrect`: the result, intact neighbours; `SourceIntact`: no source bit is overwritten unread; `InstructionsSafe`: words and shift counts (`AccessInRange`, `ShiftsDefined`); `Termination`; `MoveSpec`: the refinement of `SequenceMove` |
| `moves` | W 4, 5 words, every range, distance and allowed overlap | the same of `copy_backward`, `fill`, both shifts (n out of range included) and the binary `transform`: `MoveCorrect`, `SourceIntact`, `InstructionsSafe` (words and shift counts), `MoveSpec` at every step |
| `exchanges` | W 4, 8 words, every range and every pair of ranges. Eight words are needed for parts longer than a word on both sides of `n_first` | `ExchangeCorrect` with the iterator returned; `NothingLost` between two steps, also when two fields exchanged are in one word; `InstructionsSafe`; `Termination` of `rotate` |
| `scans` | W 3, 3 words, all contents | `ScanCorrect`: the bit-by-bit answer; `PassedSoFar`: what each word established; `AccessInRange` |
| `arithmetic` | W 3, 3 words (2 for addition and multiplication), all contents and operands; half words of 3 bits; strings in base 4, words of 2 digits, ranges of up to 9 bits from every position in a word, up to 5 characters, read from the digits 0, 1, 2 and 7; and in base 10, words of 4 bits, up to 12 bits (1 word when reading) and 3 characters; literals of 5 characters after the prefix in the digits 0, 1, 5 and b, numbers of 7 bits for 64; arrays of 1 to 4 bits, integrals of 2 and 3 | `ArithmeticCorrect`: complement, sum, product, quotient, carries and remainders; `RangesRespected`; `StringsCorrect` in short, exact and long buffers and ranges, with and without leading zeros where they are counted right, and for literals with and without size, accepted and refused; `AccountedFor`: the invariant of long division by words and by half words, and what has been converted of a string or read of a literal so far; `IntegralsExact`: truncation, extension, and the trip from a type to another as the language's cast |
| `addresses` | W 4, `SizeMod` 16, 12 bits' reach; adapters of sizes 4 : 1 and 2-bit pieces; two references into two 3-bit words, and two into four pieces with two in a word; views over 5 bits | `Designates`, `Ordered` of `bit_iterator`; `AdaptersExact`; `ProxiesExact`; `ViewsExact`: views of views are over the bits that made them, and a write reaches those only, where the views may overlap as the algorithm called asks. The unsigned type is small, so that casts wrap |
| `containers` | vector: W 2, length up to 5, arguments up to 3; arrays: 3 arrays, 3 blocks, W 2, one word in place, 3 items | `WordsFit`; `VectorSpec`, the refinement of `VectorOfBits`; `Ownership`: one owner per block, no leak, no double free; `ValueSemantics`, the refinement of `ArrayValues` |
| `vector_resize_fills`, `rotate_to_end`, `count_msb_partial`, `slice_at_end` | as above, `rotate` in 4 words, views over 4 bits | findings, section 4 |

The bounds that are not the code's are named: `NumWords`, `FewWords`,
`Reach`, `PointerReach`, `MaxLen`, `MaxArg`, `MaxSize`, `MaxChars`, `MaxBits`,
`DecimalChars`, `DecimalBits`, `LiteralChars`, `LiteralDigits`, `NumPieces`,
`ArraySizes`, `IntegralWidths`, `StringDigits` (a choice among the digits 0 to 35);
and in `Views` the memory, `NumBits`.

## 4. Where the code and what is said of it differ

Four disagreements are runs that TLC refutes, on a property that the
repository's README states; `PROJECT.json` quotes it.

* `vector_resize_fills` – `resize(count, value)` fills from the *new* length.
* `rotate_to_end` – `rotate` with the middle at the end, all in one word, does
  not return `first`, and shifts by the width of the word.
* `count_msb_partial` – `accumulate_while` backward hands over the first bits
  of the range as its last ones.
* `slice_at_end` – the slice operator of an `array_ref` (and of the arrays) takes
  the address of `at(offset)`, which an empty slice at the end does not have:
  the exception leaves a `noexcept` function and the program ends.

The others met while modelling are kept out of the passing runs by a named
condition in `Init`, or the property says nothing of them; lifting the condition
makes TLC show the behaviour.

| Code | What it does | Where the models say so |
|---|---|---|
| `bit_vector.hpp:626` | `resize(count)` zeroes only the words it adds: bits that `erase`, `pop_back` or a shorter `resize` left in the old last word become elements again | `ResizeZero` of `BitVector`; `VectorOfBits` leaves new bits open |
| `bit_array_dynamic_extent.hpp:101` | a moved-from heap array keeps its size with a null pointer, so that its elements cannot be accessed | `MovedFromValid` of `DynArray`; `Gone` in `ArrayValues` |
| `count.hpp:111` | `count` of an empty range reads the word at `first`, at the end of the memory the one past it | `AccessInMemory` of `BitCount`; `AccessInRange` excepts empty ranges |
| `rotate.hpp:243` | with `n_first == last` at a word's end in several words, `get_word` reads the word at `last` | `Init` of `MCExchangeAlgorithms` |
| `count.hpp:133` | for `bit1` counting goes on while a word is zero, and subtracts the wrong part of a partial word | `Init` of `MCScanAlgorithms` asks for zeros |
| `to_from_string.hpp:205`, `accumulate.hpp:107` | `to_string` without zeros, the default, sizes its buffer by `count_msb`, which takes the first bits of a range of two words' bits or more that ends inside a word (also of two words' bits that begin inside one) for its last: the string loses digits, or keeps zeros, in every base | `CountMsb` of `DigitString`; `CountsExactly` in its `ToStringCorrect` |
| `to_from_string.hpp:186`, `accumulate.hpp:107` | in base 10 the quotients are counted by it too, so that numbers of two words or more that end inside a word lose digits | `CountsExactly` of `DecimalString` |
| `to_from_string.hpp:80`, `:305` | `from_string` in a base that is a power of two takes every letter and figure for a digit, whatever the base, and ors the one that is not below it over the bits of the next | `StringDigits` and `BitOred` of `DigitString` |
| `bit_array_dynamic_extent.hpp:224` | a list of items narrower than the word is copied one item to a word, into storage for their bits: with more than one to a word it is written past its end | `Construct` of `DynArray` leaves it out |
| `addition.hpp:38` | the operand is added to every word, and unshifted in a destination that begins inside one | `InFirstWord` of `BitTransform` |
| `multiplication.hpp:36` | `carry` is read and stored in one expression, in an order C++ leaves open | `MultiplyWord` takes both; `FitsWord` is where they agree |
| `transform_accumulate.hpp:80` | a partial quotient is written back unshifted | `BeginsWithWord` of `BitDivision` |
| `bit_word_pointer_adapter.hpp:46` | the adapter to bigger words compares an `_index` nothing initialises | `Compares` of `WordPointer`, checked to smaller words |
| `bit_policy.hpp:187` | the bits of a static array above its integral's width are never written | `StaticSizes` of `MCArithmetic` |
| `to_from_string.hpp:177` | in base 10 the first digit is written without asking whether there is room, and of an empty range `vec.back()` is taken | `ToInit` of `DecimalString` |
| `to_from_string.hpp:344` | in base 10 `from_string` into more than a word adds every digit to every word (`addition.hpp:38`) | `FromInit` of `DecimalString` |
| `bit_literal.hpp:49` | a literal that begins with 0, base 8 in README.md:152 and :186 (`037'361100_b`, 31 bits), is read in base 10: 37 bits and another number | `BasePrefixes` of `Literal` |
| `bit_literal.hpp:79` | a number above 64 bits wraps and is accepted if the rest fits the size given; `1ull << bits` does not compile for 64 bits; a size of 0 counts as none | `Supported` and `Decode` of `Literal` |
| `bit_span.hpp:320`, `:335` | `first(n)` and `last(n)` hand over no length and give empty spans; `last<r>()` begins `r` before the end and has `size() - r` bits, which for small `r` pass it | `FirstDynamic`, `LastDynamic`, `Last` of `Views` |
| `bit_array_ref.hpp:166` | assignment and the bitwise assignments between views that overlap against the algorithm's precondition leave arbitrary bits in the target | `Clobbered` of `Views`, which no property looks into |
| `swap_ranges.hpp:52` | ranges in words of two sizes are accepted, nothing is exchanged, and the function ends without a return value | `BitSwapRanges` is for one size |
| `bit_word_reference_adapter.hpp:107` | the member swap exchanges whole source words, neighbours included, or one word of several | `WordReference` |
| `to_from_string.hpp:159`, `:310` | bases whose digits do not divide a word split a digit in two, or lose its high bits | `StringsAssumption` of `MCArithmetic` |

## 5. Fairness and liveness

A call is one thread of control: while it has a next step, nothing but that
step can happen, and it happens. That is `WF_vars(Next)`, and `Termination` of
`copy`, `swap_ranges`, `reverse` and `rotate` is checked under it; the final step is a stutter, so
there is no deadlock to report. `rotate` is the only loop whose end is not
plain from its bounds. The class and container modules have no liveness to
promise: what is called next is the program's choice.

## 6. What is proved

For every word width, memory size and contents, every range and every overlap
`copy` allows (`BitCopyTheorems`):

* `TypeCorrect`, `Correct` (`CopyCorrect`), `NeverClobbers` (`SourceIntact`),
  `Safe` (`InstructionsSafe`);
* `Refines`: the word-level algorithm implements `SequenceMove`.

None of the properties is inductive alone: that the next word is right depends
on where `first` and `it` point and on which part of the source is still as it
was. The inductive invariant `IInv` says that the memory is the initial one
with exactly the first `Copied` bits of the destination replaced (`Image`),
that the locals are the function of `Copied` the code intends at each control
point, and that the last step's accesses and shifts are fine. The key lemmas
are `GetWordBit` (which bit `get_word` returns, through one word or two),
`GetWordAccess` (which words it touches), and `StoreAdvance` / `BlendAdvance`
(storing a word, or blending a part of one, takes `Image(n)` to
`Image(n + k)`); `SourceAccess` and `ImageSource` carry the argument that what
is read has not been overwritten.

The other movers (`MoveTheorems`, on the specification of `MCMoveAlgorithms`,
for any memory: the run's `MCSpec` only fixes the names the cells hold):
`TypeCorrect`, `Correct` (`MoveCorrect`), `NeverClobbers` (`SourceIntact`),
`Safe` (`InstructionsSafe`) and `Refines` (`MoveSpec`). Each function has an
invariant of the same shape as `IInv` of `copy`: `FillInv`, `CopyInv` for
`copy_backward`, `JoinInv` for the binary `transform`, `LeftInv`, `RightInv`.
The memory is the initial one with the interval dealt with so far carried over,
filled or combined (`Carried`, `FilledTo`, `Joined`), and the locals are a
function of that interval at each control point. `InstructionsSafe` needs the
strongest part, that a head of `copy_backward`, or a tail of a shift, ends in the
word its iterator is at. `SourceIntact` follows because what is carried
never reaches what is still to be read.

The scans (`ScanTheorems`): `TypeCorrect`, `Correct` (`ScanCorrect`), `Accounted`
(`PassedSoFar`), `AccessSafe` (`AccessInRange`). `FindInv` says that no bit
before `it` is the value, `CountInv` and `MsbInv` that the counter is `HowMany` bits
passed, `EqualInv` that the ranges agree up to the iterators. Counts are
cardinalities, so that the lemmas add up those of a word and of what precedes it;
that the bit found is the first rests on the least element of a set of numbers.

The exchanges (`ExchangeTheorems`, on the specification of `MCExchangeAlgorithms`,
again for any memory): `TypeCorrect`, `Correct` (`ExchangeCorrect`), `NoBitLost`
(`NothingLost`), `Safe` (`InstructionsSafe`). These move bits in place, so no
interval of the memory stays as it was; each invariant says instead which
permutation of the initial memory has been reached.
`SwapInv`: the memory is the initial one with the bits before `it1` and those
facing them `Swapped`. That two fields exchanged may lie in one word, where each
half of `_bitexch` undoes what the other blends, is `XorFieldIs` and
`ExchangeSwaps`. `RevInv`: after the word loop the whole words of the range are
`Mirrored`, and the partial words at its ends are those saved in `first_value` and
`last_value`; once shifted back, the range is right and what is left to repair is
the rest of these two words. `RotInv`: to rotate what
is left (`n` bits at `p`, by `k`) gives the rotation of the initial range. For
`ExchangeCorrect` to be inductive each round of `_rotate_via_raw` needs it too,
inside: after some of the blocks have been exchanged, what remains is a rotation of a
shorter range by the same block (`TurnUp`, `TurnDown`), and after the last it is one of
the remainder (`TurnRestUp`, `TurnRestDown`). The final cases keep the shorter part
in a word and shift the other (`KeepLeftIs`, `KeepRightIs`). These call the
shifts and `swap_ranges` by contract (section 2). The result is the whole memory as a
function of the initial one, for every initial memory, so a vacated bit is not part of
it.

The arithmetic (`ArithmeticTheorems`): `TypeCorrect`, `Correct`
(`ArithmeticCorrect`), `RangesSafe` (`RangesRespected`), `StringsRight`
(`StringsCorrect`), `Accounted` (`AccountedFor`), `IntegralsRight`
(`IntegralsExact`).

* *Numbers.* `Number(m, f, n)` is a sum over the `n` bits at `f`, and a sum is a fold.
  The library's induction theorems take an operator the provers cannot instantiate,
  so `Induction` is stated for sets, and rests on the least number outside one (it is
  in `BitWordTheorems`, with the powers and the division the lemmas use); that
  `2^(n+1)` is twice `2^n` comes from the number of subsets of a set; and a sum
  is shown to be the number of its `Units`, a set with one pair for each unit
  each bit is worth, so that the rest is cardinalities: `NumberStep`, `NumberRange` (below `2^n`),
  `NumberSplit` (the number of a range from those of its parts), `NumberDigits`
  (the bits of a number hold it).
* *transform.* `NotInv` says the destination is complemented up to the iterator and
  the source is as it was from there on; `AddInv` and `MultiplyInv` that the one word they
  support is untouched, or holds the result with its carry. That a blend of
  the low bits leaves the rest, and that what lies above them is the carry, is
  `AddWordIs` and `MultiplyWordIs`; the latter also shows that the order in which
  the two reads of `carry` happen does not matter.
* *division.* `DivInv`: the remainder so far plus the operand times the quotient
  written so far is the number of the bits read, and the remainder is below the
  operand. A step brings a word, or the partial word at either end, down
  (`DigitBroughtDown`), and its quotient fits the word because of the remainder
  (`DigitOfQuotient`). That is also why `_divx` is never called on an overflow.
* *_divx.* `WideInv`: numerator and denominator are the call's times `2^shift`, and the
  half words read so far are the first digit times the denominator, plus the
  remainder. `DigitIs` is the heart: a digit estimated from the leading half of
  a normalized denominator is at most two too large, two tests find which, and the
  unsigned products and differences that wrap on the way come back. The remainder is
  a multiple of `2^shift` at the end, so that shifting it back loses nothing.
* *_mulx, the carries.* `MulxIs` adds up the four products of half words and
  the carries between them; `IntrinsicSum` and `IntrinsicDifference` the sum or difference
  shifted by every count.
* *to_string.* `ToInv`: the characters after the cursor are the digits of the bits
  before `first`, each at as many characters from the end as digits precede it.
  `Operated` is a step, for a whole word and for the bits after the last, which
  differ in the digits above the range that are written as zeros and in who
  runs out first, the word or the buffer. In the version without zeros the
  buffer's length comes from `count_msb`. Where it counts exactly
  (`LeadingZerosCounted`) the first character is the digit with the highest 1
  (`LeadingZerosAre`, `ToShort`), and elsewhere the digits are still the last ones.
* *from_string.* `FromInv`: the bits of the digits after the cursor, or-ed, are in the
  range up to `bit_it` and then in `work`, with those of a digit too big that reach
  further. The place of a digit is the number of digits after it, counted as a set, so
  that characters that are skipped shift nothing. `OredIs` says which digits set a bit
  and `OredNumberIs` that it is one digit's if all are of the base, because no two
  digits have the same number after them (`DigitsDiffer`) and `NumberBitIs` names that
  one. A full integer holds whole digits, which is where the base's digits have to
  divide the words, and nothing of a digit crosses to the next integer
  (`OredAbove`).
* *Characters.* What characters write, in the functions and in the literals, is a
  fold over their sequence, that is a recursive function on the sets of places.
  `Written` is that fold; `WrittenTrace` follows it from place to place, from which
  come one more digit behind (`WrittenNext`), one more in front (`WrittenBefore`), and
  that more digits are not less (`WrittenNat`).
* *Other bases.* `ToDecimalInv`: what is left of the number with the digits written
  after it is the number, for `DigitBefore` says a quotient followed by its remainder
  writes the dividend. An estimated buffer is long enough
  because what is left is always below `2^LogBase` to the number of characters left
  (`LengthEstimated`, `OneDigitLess`), and the digit written last is not a leading 0
  because something was left before it. `CountMsbIs` says where the zeros are counted
  right, which `CountsExactly` asks for. `FromDecimalInv`: the range holds the number
  read, unless there are no characters and it is as it was; it stops at the first
  digit too many whichever product is left (`ProductsFit`).
* *Literals.* `LiteralInv`: after the prefix, `number` is what the characters of the
  part being read write, and `bits` what those of the size do; `DigitAdded` shows that
  for a supported literal nothing wraps, since a part read so far is not more than the
  whole part, and `SizeMarkIs` that the apostrophe that ends the size is the first one.
* *Integrals.* `ConvertedIs`: to copy the lower bits, and to extend what is left by
  the sign or by zeros, is to compute modulo `2^m`, for all four ways the widths
  and the signs can differ. `IntegralInv` and `StaticInv` carry it over any sequence of
  conversions; `IntegralTo` is the cast.

Iterators, references and views (`AddressesTheorems`, for every width, every size
of the unsigned type it divides and every ratio of word sizes): `TypeCorrect`,
`AddressExact` (`Designates`), `OrderExact` (`Ordered`), `AdaptersCorrect`,
`ProxiesCorrect`, `ViewsCorrect`. One invariant for each type (`SmallerInv`,
`BiggerInv`, `AdaptedInv`, `ToSmallerInv`, `ToBiggerInv`, `ProxyInv`, `ViewInv`;
`AddressesInv` is all of them) says that the pairs the code keeps are the
floor quotient and remainder of what the calls add up to, that two references
that share pieces see the same memory, and that a view covers the bits its making
named. The arithmetic is in three lemmas: a truncated quotient corrected when
stepping back rounds down; the remainder of a sum cast to unsigned is that of the
sum, because the unsigned type's range is a multiple of the width; and an
address has one quotient and one remainder (`DivisionUnique`).

The containers (`ContainersTheorems`, for every width, bound and number of
arrays): `TypeCorrect`, `WordsHoldContents` (`WordsFit`), `BlocksOwned`
(`Ownership`), and the refinements `VectorRefines` (`VectorSpec`) and
`ArraysAreValues` (`ValueSemantics`). `WordsFit` is inductive only with `Tight`:
the words are exactly those the length takes, unless `reserve` left spare ones.
`Ownership` is inductive only with `OneMember` and `Whole`: which member of the union
lives is decided by the size, and a block is as long as its owner says, or its
owner was moved from. Every call has a lemma that says it keeps the invariant
and which abstract step it is.

The assumptions are those the modules name: widths, sizes and ratios are
positive and the unsigned type's range is a multiple of them (`WAssumption`,
`SizeAssumption`, `RatioAssumption`, …), a scan's bits are two
(`TwoValuesAssumption`), what combines two bits is a function of them
(`CombineAssumption`), the bits `_bitexch` combines are sets and zero is the empty
one, which makes exclusive or the symmetric difference (`EmptyAssumption`), the
containers' bounds are numbers (`BoundAssumption`,
`ValuesAssumption`), and in the arithmetic the two bits are the digits 0 and 1 and a
shift lets in 0 (`DigitsAssumption`), the digits of a string's base divide the
words and characters stand for 0 to 35 (`StringsAssumption`), another base is above 2, fits a word and is not a power
of two (`DecimalAssumption`), a literal's digits are below 16
(`LiteralsAssumption`), and arrays and integrals have at least one bit
(`IntegralsAssumption`). TLC evaluates them on every run, and checked each
invariant on an instance of its run before it was proved.

## 7. Only model-checked

Liveness and `ENABLED` are outside the prover's reach, and so is every
`Termination`: the rounds of `rotate`, or the words of a division, are proved to keep
the result, and only checked to end. Every other property of a passing run is
stated by a theorem. The properties of the four runs of section 4 are what the code
does not do, and have none.

## 8. Not modelled

The static `bit_array` beyond what it shares with the other containers is
`std::array`'s copies and loops over an initialiser list; plain `accumulate` is
called by nothing but tests, as are the `_rotate_via_copy` helpers by nothing.
The branch of `write_word` for a destination of narrower words (which no caller
reaches, and which would store the source unshifted), `word_shift_left`,
`word_shift_right` and `_pdep` are not used by what is modelled.
Some members cannot be instantiated, and have no behaviour: the slice operator
and the const `at` of `bit_vector`, `bit_value::swap` with a reference,
`to_string` with a buffer and a range of strings (`to_from_string.hpp:262`),
`from_string` returning a vector (`:368`). Calls with words of two sizes are
`WordPointer` and `WordReference`; the algorithms on top of them are checked
for words of one size. Iterators a reallocation invalidates, as those of
`bit_vector::insert` from its own range would be, are outside `BitVector`: the
standard forbids the call. Concepts, traits and include lists have no state; the
Highway paths and the libpopcnt path are other implementations of the loops
modelled; `libpopcnt.h` is vendored; tests, benchmarks and the build are not the library.
Among the hazards, those without a property say why in `PROJECT.json`.

## 9. Plan

The order followed, and what is left:

1. word access, `copy`, its proofs; the other movers against `SequenceMove`
   (done);
2. iterators with proofs, scans, containers against their abstractions, word
   arithmetic, adapters, references, strings in power-of-two bases, integral
   conversions (done);
3. strings in base 10, composing division, multiplication, addition and
   `count_msb`; the reference adapter and its `swap`; `bit_value`; views that
   share bits; literals (done);
4. proofs: the other movers and their refinements of `SequenceMove`, the scans,
   `swap_ranges`, `reverse` and `rotate`, the adapters, references and views, the
   containers and their refinements (done);
5. proofs about numbers: `transform`, division, `_divx` and `_mulx`, the carries,
   strings in every base, literals, integral conversions (done);
6. left: refinements of the scans' and exchanges' contracts where another module
   calls them.
