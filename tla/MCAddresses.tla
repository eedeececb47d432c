---------------------------- MODULE MCAddresses ----------------------------
(***************************************************************************)
(* The types that designate bits and words, and every sequence of calls on *)
(* one of them: a bit_iterator (the module extended), a                    *)
(* bit_word_pointer_adapter to smaller or to bigger words, a bit_iterator  *)
(* over such an adapter, two bit_word_reference_adapters, two              *)
(* bit_references, or two views.  The initial state picks the type; the    *)
(* variables of the others stay 0.                                         *)
(***************************************************************************)
EXTENDS BitIterator

CONSTANTS
  Ratio, Digits,          \* of the adapters: pieces in a word, bits in a piece
  PointerReach,           \* source words an adapter to smaller words goes away
  RefDigits, RefWords,    \* bits in a word, and words, of the bit_references
  PieceRatio, NumPieces, Piece,  \* of the references to words: see WordReference
  NumBits                 \* in the memory of the views

ASSUME RatioAssumption ==
  /\ Ratio \in Nat \ {0, 1} /\ SizeMod % Ratio = 0
  /\ Digits \in Nat \ {0} /\ SizeMod % Digits = 0
  /\ PointerReach \in Nat
ASSUME ReferenceAssumption == RefDigits \in Nat \ {0} /\ RefWords \in Nat \ {0}
ASSUME ViewAssumption == NumBits \in Nat \ {0}
ASSUME PieceAssumption ==
  PieceRatio \in Nat \ {0, 1} /\ NumPieces \in Nat \ {0} /\ NumPieces % PieceRatio = 0

VARIABLES
  type,                                                         \* the type picked
  source, index, osource, oindex, word_address, oword_address,  \* of an adapter
  in_piece, oin_piece, bit, obit,                               \* of an iterator over it
  words, value, bits, lbit, rbit, bvalue,                       \* of bit_references
  memory, expected, lvalue, rvalue,                             \* of references to words
  lhs, rhs,                                                     \* of either references
  storage, view, other, running, contents, cover, covered       \* of the views

pointer_vars   == <<source, index, osource, oindex, word_address, oword_address>>
adapted_vars   == <<in_piece, oin_piece, bit, obit>>
proxy_vars     == <<words, value, bits, lbit, rbit, bvalue>>
word_vars      == <<memory, expected, lvalue, rvalue>>
reference_vars == <<proxy_vars, word_vars, lhs, rhs>>
view_vars      == <<storage, view, other, running, contents, cover, covered>>

all_vars == <<type, vars, pointer_vars, adapted_vars, reference_vars, view_vars>>

Smaller == INSTANCE WordPointer WITH
             SmallToBig <- FALSE, Reach <- PointerReach,
             address <- word_address, oaddress <- oword_address,
             position <- in_piece, oposition <- oin_piece
Bigger  == INSTANCE WordPointer WITH
             SmallToBig <- TRUE, Reach <- Ratio * PointerReach,
             address <- word_address, oaddress <- oword_address,
             position <- in_piece, oposition <- oin_piece
Proxy   == INSTANCE BitReference WITH W <- RefDigits, NumWords <- RefWords
ToSmaller == INSTANCE WordReference WITH SmallToBig <- FALSE, Ratio <- PieceRatio
ToBigger  == INSTANCE WordReference WITH SmallToBig <- TRUE, Ratio <- PieceRatio
View == INSTANCE Views

NoIterator ==
  /\ current = 0 /\ position = 0 /\ ocurrent = 0 /\ oposition = 0
  /\ address = 0 /\ oaddress = 0
NoPointer ==
  /\ source = 0 /\ index = 0 /\ osource = 0 /\ oindex = 0
  /\ word_address = 0 /\ oword_address = 0
NotAdapted == in_piece = 0 /\ oin_piece = 0 /\ bit = 0 /\ obit = 0
NoProxy ==
  words = 0 /\ value = 0 /\ bits = 0 /\ lbit = 0 /\ rbit = 0 /\ bvalue = 0
NoWord == memory = 0 /\ expected = 0 /\ lvalue = 0 /\ rvalue = 0
NoReference == NoProxy /\ NoWord /\ lhs = 0 /\ rhs = 0
NoView ==
  /\ storage = 0 /\ view = 0 /\ other = 0 /\ running = 0
  /\ contents = 0 /\ cover = 0 /\ covered = 0

AnyInit ==
  \/ /\ NoReference /\ NoView
     /\ \/ type = "bit_iterator" /\ Init /\ NoPointer /\ NotAdapted
        \/ type = "smaller" /\ Smaller!Init /\ NoIterator /\ NotAdapted
        \/ type = "bigger"  /\ Bigger!Init  /\ NoIterator /\ NotAdapted
        \/ type = "adapted" /\ Smaller!AdaptedInit /\ NoIterator
  \/ /\ NoIterator /\ NoPointer /\ NotAdapted
     /\ \/ type = "bit_reference" /\ Proxy!Init /\ NoWord /\ NoView
        \/ type = "to_smaller" /\ ToSmaller!Init /\ NoProxy /\ NoView
        \/ type = "to_bigger"  /\ ToBigger!Init  /\ NoProxy /\ NoView
        \/ type = "view" /\ View!Init /\ NoReference

AnyNext ==
  /\ UNCHANGED type
  /\ \/ /\ type = "bit_iterator" /\ Next
        /\ UNCHANGED <<pointer_vars, adapted_vars, reference_vars, view_vars>>
     \/ /\ type = "smaller" /\ Smaller!Next
        /\ UNCHANGED <<vars, adapted_vars, reference_vars, view_vars>>
     \/ /\ type = "bigger" /\ Bigger!Next
        /\ UNCHANGED <<vars, adapted_vars, reference_vars, view_vars>>
     \/ /\ type = "adapted" /\ Smaller!AdaptedNext
        /\ UNCHANGED <<vars, reference_vars, view_vars>>
     \/ /\ type = "bit_reference" /\ Proxy!Next
        /\ UNCHANGED <<vars, pointer_vars, adapted_vars, word_vars, view_vars>>
     \/ /\ type = "to_smaller" /\ ToSmaller!Next
        /\ UNCHANGED <<vars, pointer_vars, adapted_vars, proxy_vars, view_vars>>
     \/ /\ type = "to_bigger" /\ ToBigger!Next
        /\ UNCHANGED <<vars, pointer_vars, adapted_vars, proxy_vars, view_vars>>
     \/ /\ type = "view" /\ View!Next
        /\ UNCHANGED <<vars, pointer_vars, adapted_vars, reference_vars>>

AnySpec == AnyInit /\ [][AnyNext]_all_vars

----------------------------------------------------------------------------
(* Properties, besides TypeOK, Designates and Ordered of bit_iterator.     *)

\* An adapter designates the word, and an iterator over an adapter the bit, the
\* calls add up to, also when they cross source words backwards; the distance of
\* two is the number of words or bits between them, which is what copy and equal
\* take for the length of a range; adapters to smaller words are equal, or
\* ordered, as the words they designate (those to bigger words compare an index
\* nothing initialises); and what is written by way of a reference an adapter
\* gives reaches the pieces it stands for and no others, and what is read is what
\* was written there last, also when references share pieces or are swapped.
AdaptersExact ==
  /\ type = "smaller" =>
       Smaller!TypeOK /\ Smaller!Designates /\ Smaller!Distance /\ Smaller!Compares
  /\ type = "bigger" => Bigger!Designates /\ Bigger!Distance
  /\ type = "adapted" =>
       Smaller!AdaptedTypeOK /\ Smaller!ConvertsBack /\ Smaller!BitDistance
  /\ type = "to_smaller" => ToSmaller!TypeOK /\ ToSmaller!WordsExact
  /\ type = "to_bigger"  => ToBigger!TypeOK /\ ToBigger!WordsExact

\* After any calls by way of references the memory holds the bits the calls
\* wrote and no other bit of a word has changed, also when the two references
\* share a word or a bit and are assigned to each other or swapped; a reference
\* taken by way of a pointer is to the bit that many bits away.
ProxiesExact ==
  type = "bit_reference" => Proxy!TypeOK /\ Proxy!ProxiesExact /\ Proxy!PointersExact

\* Whatever views of views are made, assigned, swapped and joined, each is over the
\* bits its making named, and a write by way of one changes those bits only.
ViewsExact == type = "view" => View!TypeOK /\ View!ViewsExact
=============================================================================
