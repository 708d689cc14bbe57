------------------------------- MODULE Words --------------------------------
(***************************************************************************)
(* The unsigned words of the C code, as sets: a word is the set of the     *)
(* positions of its one bits, 0 being the least significant.  The same set *)
(* is the polynomial over GF(2) that has those exponents.                  *)
(***************************************************************************)
EXTENDS Integers

(* The values of a byte. *)
Bytes == SUBSET (0 .. 7)

(* w ^ v; the sum, and the difference, of two polynomials. *)
BitXor(v, w) == (v \ w) \cup (w \ v)

(* The word with the value n. *)
Word(n) == {b \in 0 .. 30 : (n \div 2^b) % 2 = 1}

(* (high << 16) | low *)
Word32(high, low) == {b + 16 : b \in high} \cup low

(* w >> 1 *)
ShiftRight(w) == {b - 1 : b \in w \ {0}}

(* (w << 1) in a type of the given width *)
ShiftLeft(w, width) == {b + 1 : b \in w} \ {width}
=============================================================================
