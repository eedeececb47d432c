-------------------------------- MODULE Views --------------------------------
(***************************************************************************)
(* The views: array_ref (bit_array_ref.hpp, with what it has from          *)
(* array_base), bit_span (bit_span.hpp) and the accessors of an mdspan     *)
(* (bit_mdspan_accessor.hpp).  A view is a bit_pointer and a length over   *)
(* memory it does not own; two views may share bits.                       *)
(*                                                                         *)
(* The state is that memory and two views, view and other.  An action is   *)
(* one call on view, with other as its argument or its result.  Pointers   *)
(* are bit addresses and the algorithms do what the modules about them     *)
(* show, with the preconditions those have.  Where two ranges overlap      *)
(* against a precondition, any bits may result, in the ranges the          *)
(* algorithm writes.                                                       *)
(***************************************************************************)
EXTENDS Integers, Sequences

CONSTANTS NumBits  \* bits in the memory, at least 1

Addr == 0 .. (NumBits - 1)
Bit  == {0, 1}

VARIABLES
  storage,          \* the memory
  view, other,      \* [kind |-> "ref" | "span", start |-> m_storage | data_, size |-> size()]
  running,          \* std::terminate has not been called
  contents,         \* history: the memory, by the calls made, and
  cover, covered    \*   the addresses of the bits of view, and of other

vars == <<storage, view, other, running, contents, cover, covered>>

Kind == {"ref", "span"}
Ref(start, size)  == [kind |-> "ref", start |-> start, size |-> size]
Span(start, size) == [kind |-> "span", start |-> start, size |-> size]

\* The addresses from start on, size of them, and whether the memory has them.
From(start, size) == [i \in 1 .. size |-> start + i - 1]
Fits(start, size) == 0 <= start /\ start + size <= NumBits

Addresses(v) == From(v.start, v.size)
BitsOf(m, v) == [i \in 1 .. v.size |-> m[v.start + i - 1]]
In(a, v)     == v.start <= a /\ a < v.start + v.size

Init ==
  /\ storage \in [Addr -> Bit]
  /\ \E k, l \in Kind, p, q \in 0 .. NumBits, m, n \in 0 .. NumBits :
       /\ Fits(p, m) /\ view  = [kind |-> k, start |-> p, size |-> m]
       /\ Fits(q, n) /\ other = [kind |-> l, start |-> q, size |-> n]
  /\ running = TRUE
  /\ contents = storage
  /\ cover = Addresses(view) /\ covered = Addresses(other)

----------------------------------------------------------------------------
(* Contents.                                                               *)

\* The bits of view become those of the sequence s, and nothing else does.
Written(m, s) == [a \in Addr |-> IF In(a, view) THEN s[a - view.start + 1] ELSE m[a]]

\* The same by the addresses the calls made give view.
Should(m, s) ==
  [a \in Addr |-> IF \E i \in DOMAIN cover : cover[i] = a
                    THEN s[CHOOSE i \in DOMAIN cover : cover[i] = a] ELSE m[a]]

Wrote(s, should) ==
  /\ storage' = Written(storage, s)
  /\ contents' = Should(contents, should)
  /\ UNCHANGED <<view, other, running, cover, covered>>

\* A call against an algorithm's precondition: anything, at the bits it writes;
\* the calls made say at which it may be.
Clobbered(written, named) ==
  /\ \E s \in [Addr -> Bit] :
       storage' = [a \in Addr |-> IF a \in written THEN s[a] ELSE storage[a]]
  /\ contents' = [a \in Addr |-> IF a \in named THEN storage'[a] ELSE contents[a]]
  /\ UNCHANGED <<view, other, running, cover, covered>>

\* The bits of a view, by its bounds and by the calls made.
Bits(v)          == {a \in Addr : In(a, v)}
Named(addresses) == {addresses[i] : i \in DOMAIN addresses}

\* The bits calls give other, and the bits other should have.
Others    == BitsOf(storage, other)
OthersNow == [i \in DOMAIN covered |-> contents[covered[i]]]
ViewsNow  == [i \in DOMAIN cover |-> contents[cover[i]]]

\* d_first is not in (first, last), and the second range of a binary transform,
\* read ahead of what is written, not before d_first.
CopyAllowed == ~(other.start < view.start /\ view.start < other.start + other.size)
Disjoint    == view.start + view.size <= other.start \/ other.start + other.size <= view.start

\* An exception leaves view and other as they were.
Throws == UNCHANGED vars

\* A faulty Assign: the sizes are not compared.
AssignUnchecked ==
  /\ view.kind = "ref" /\ CopyAllowed /\ Fits(view.start, other.size)
  /\ storage' = [a \in Addr |-> IF a - view.start \in 0 .. (other.size - 1)
                               THEN Others[a - view.start + 1] ELSE storage[a]]
  /\ contents' = IF view.size = other.size THEN Should(contents, OthersNow) ELSE contents
  /\ UNCHANGED <<view, other, running, cover, covered>>

\* view = other, for an array_ref: contents are copied, nothing is rebound.
Assign ==
  /\ view.kind = "ref"
  /\ \/ view.size # other.size /\ Throws
     \/ view.size = other.size /\ CopyAllowed /\ Wrote(Others, OthersNow)
     \/ view.size = other.size /\ ~CopyAllowed /\ Clobbered(Bits(view), Named(cover))

\* view = other, for two bit_spans: the span is rebound, no bit is copied.
Rebind ==
  /\ view.kind = "span" /\ other.kind = "span"
  /\ view' = other /\ cover' = covered
  /\ UNCHANGED <<storage, other, running, contents, covered>>

\* view.swap(other), by swap_ranges.
Swap ==
  /\ view.kind = "ref" /\ other.kind = "ref"
  /\ \/ view.size # other.size /\ Throws
     \/ /\ view.size = other.size /\ Disjoint
        /\ storage' = [a \in Addr |->
                      IF In(a, view) THEN Others[a - view.start + 1]
                      ELSE IF In(a, other) THEN BitsOf(storage, view)[a - other.start + 1]
                      ELSE storage[a]]
        /\ contents' = LET exchanged == ViewsNow \o OthersNow
                           places    == covered \o cover
                       IN  [a \in Addr |-> IF \E i \in DOMAIN places : places[i] = a
                                             THEN exchanged[CHOOSE i \in DOMAIN places : places[i] = a]
                                             ELSE contents[a]]
        /\ UNCHANGED <<view, other, running, cover, covered>>
     \/ /\ view.size = other.size /\ ~Disjoint
        /\ Clobbered(Bits(view) \cup Bits(other), Named(cover) \cup Named(covered))

\* at(pos) = b, and [pos] = b where pos < size(); front and back are [0] and
\* [size() - 1].  Of an array_ref and of a bit_span.
PutAt(pos, b) ==
  \/ pos >= view.size /\ Throws
  \/ /\ pos < view.size
     /\ storage' = [storage EXCEPT ![view.start + pos] = b]
     /\ contents' = [contents EXCEPT ![cover[pos + 1]] = b]
     /\ UNCHANGED <<view, other, running, cover, covered>>

At(pos, b)     == view.kind = "ref" /\ PutAt(pos, b)
SpanAt(pos, b) == view.kind = "span" /\ PutAt(pos, b)

\* view.fill(b)
Fill(b) ==
  view.kind = "ref" /\ Wrote([i \in 1 .. view.size |-> b], [i \in DOMAIN cover |-> b])

Join(op, b, c) == CASE op = "&=" -> b * c
                    [] op = "|=" -> b + c - b * c
                    [] op = "^=" -> (b + c) % 2

\* view op other, with equal sizes asserted: a binary transform in place.
JoinAssign(op) ==
  /\ view.kind = "ref" /\ view.size = other.size
  /\ \/ /\ view.start <= other.start \/ Disjoint
        /\ Wrote([i \in 1 .. view.size |-> Join(op, BitsOf(storage, view)[i], Others[i])],
                 [i \in DOMAIN cover |-> Join(op, ViewsNow[i], OthersNow[i])])
     \/ ~(view.start <= other.start \/ Disjoint) /\ Clobbered(Bits(view), Named(cover))

\* view = (view op other) and view = ~view: the result is as many
\* new bits, so it is right however the two overlap.
AssignJoined(op) ==
  /\ view.kind = "ref" /\ view.size = other.size
  /\ Wrote([i \in 1 .. view.size |-> Join(op, BitsOf(storage, view)[i], Others[i])],
           [i \in DOMAIN cover |-> Join(op, ViewsNow[i], OthersNow[i])])
AssignComplement ==
  /\ view.kind = "ref"
  /\ Wrote([i \in 1 .. view.size |-> 1 - BitsOf(storage, view)[i]],
           [i \in DOMAIN cover |-> 1 - ViewsNow[i]])

\* operator==, and a reference definition of it.
Equal      == view.size = other.size /\ BitsOf(storage, view) = Others
ShouldEqual == Len(cover) = Len(covered) /\ \A i \in DOMAIN cover : ViewsNow[i] = OthersNow[i]

----------------------------------------------------------------------------
(* Views of views.                                                         *)

\* A call gives the view v; it replaces other, or view itself, so that views of
\* views of views arise.
Gives(v, addresses) ==
  /\ \/ other' = v /\ covered' = addresses /\ UNCHANGED <<view, cover>>
     \/ view' = v /\ cover' = addresses /\ UNCHANGED <<other, covered>>
  /\ UNCHANGED <<storage, running, contents>>

\* A faulty Slice: the second argument is taken for a length.
SliceOfLength(offset, right) ==
  /\ view.kind = "ref" /\ offset <= right /\ right <= view.size
  /\ offset < view.size /\ Fits(view.start + offset, right)
  /\ Gives(Ref(view.start + offset, right), SubSeq(cover, offset + 1, right))

\* array_ref's view(offset, right), the bits of [offset, right), through
\* &at(offset).  The operator is noexcept, so if at throws the program ends.
Slice(offset, right) ==
  /\ view.kind = "ref" /\ offset <= right /\ right <= view.size
  /\ \/ /\ offset < view.size
        /\ Gives(Ref(view.start + offset, right - offset), SubSeq(cover, offset + 1, right))
     \/ /\ offset = view.size
        /\ running' = FALSE
        /\ UNCHANGED <<storage, view, other, contents, cover, covered>>

\* bit_span's view(begin, end), through &begin()[begin].
SpanSlice(begin, end) ==
  /\ view.kind = "span" /\ begin <= end /\ end <= view.size
  /\ Gives(Ref(view.start + begin, end - begin), SubSeq(cover, begin + 1, end))

\* view.subspan(offset, count), and view.subspan(offset), to the end.
Subspan(offset, count) ==
  /\ view.kind = "span" /\ offset + count <= view.size
  /\ Gives(Span(view.start + offset, count), SubSeq(cover, offset + 1, offset + count))
SubspanToEnd(offset) ==
  /\ view.kind = "span" /\ offset <= view.size
  /\ Gives(Span(view.start + offset, view.size - offset),
           SubSeq(cover, offset + 1, view.size))

\* view.first<count>(), and view.last<rev>(), a span of size() - rev bits from
\* the one rev before the end; with a smaller rev it would pass the end.
First(count) ==
  /\ view.kind = "span" /\ count <= view.size
  /\ Gives(Span(view.start, count), SubSeq(cover, 1, count))
Last(rev) ==
  /\ view.kind = "span" /\ rev <= view.size /\ view.size - rev <= rev
  /\ LET from == view.size - rev
     IN  Gives(Span(view.start + from, from), SubSeq(cover, from + 1, from + from))

\* view.first(offset) and view.last(offset): spans made of a pointer alone, which
\* leaves the length that is not a constant 0.
FirstDynamic(offset) ==
  view.kind = "span" /\ offset <= view.size /\ Gives(Span(view.start + offset, 0), <<>>)
LastDynamic(offset) ==
  /\ view.kind = "span" /\ offset <= view.size
  /\ Gives(Span(view.start + view.size - offset, 0), <<>>)

\* array_ref(view, extent) and bit_span(&view[0], count).
RefOver(extent) == extent <= view.size /\ Gives(Ref(view.start, extent), SubSeq(cover, 1, extent))
SpanOver(count) == count <= view.size /\ Gives(Span(view.start, count), SubSeq(cover, 1, count))

\* A faulty WordAccess: the index counts bits.
BitAccess(i, size) ==
  /\ (i + 1) * size <= view.size
  /\ Gives(Ref(view.start + i, size), SubSeq(cover, i * size + 1, (i + 1) * size))

\* bit_word_accessor(size).access(&view[0], i), the i-th element of size bits.
WordAccess(i, size) ==
  /\ (i + 1) * size <= view.size
  /\ Gives(Ref(view.start + i * size, size), SubSeq(cover, i * size + 1, (i + 1) * size))

Lengths == 0 .. NumBits

Next ==
  \/ /\ running
     /\ \/ Assign \/ Rebind \/ Swap
        \/ \E b \in Bit : Fill(b) \/ \E pos \in Lengths : At(pos, b) \/ SpanAt(pos, b)
        \/ \E op \in {"&=", "|=", "^="} : JoinAssign(op) \/ AssignJoined(op)
        \/ AssignComplement
        \/ \E m, n \in Lengths :
             Slice(m, n) \/ SpanSlice(m, n) \/ Subspan(m, n) \/ WordAccess(m, n)
        \/ \E n \in Lengths :
             \/ SubspanToEnd(n) \/ First(n) \/ Last(n) \/ FirstDynamic(n) \/ LastDynamic(n)
             \/ RefOver(n) \/ SpanOver(n)
  \/ ~running /\ UNCHANGED vars  \* std::terminate

Spec == Init /\ [][Next]_vars

----------------------------------------------------------------------------
(* Properties                                                              *)

\* Types; and a view is over bits the memory has.
TypeOK ==
  /\ storage \in [Addr -> Bit] /\ contents \in [Addr -> Bit] /\ running \in BOOLEAN
  /\ \A v \in {view, other} :
       v.kind \in Kind /\ v.size \in Nat /\ Fits(v.start, v.size)

\* Whatever views of views are made, assigned, swapped and joined, a view is over
\* the bits the calls that made it name, and a write by way of one reaches those
\* bits and no others, also when two views share bits; views compare as their bits.
ViewsExact ==
  /\ storage = contents
  /\ Addresses(view) = cover /\ Addresses(other) = covered
  /\ Equal = ShouldEqual

\* The slice operator returns a view of any half-open range of the view it is
\* called on, as README.md:215 says; the program does not end.
SlicesReturn == running
=============================================================================
