---------------------------- MODULE Polynomials -----------------------------
(***************************************************************************)
(* The arithmetic that checksums and ciphers are defined with: polynomials *)
(* over GF(2), as the sets of their exponents, modulo x^degree + low.      *)
(***************************************************************************)
EXTENDS Words, SequencesExt

(* x^n, reduced. *)
PowerOfX(n, degree, low) ==
  LET power[i \in 0 .. n] ==
        IF i = 0 THEN {0}
        ELSE LET raised == {e + 1 : e \in power[i - 1]}
             IN IF degree \in raised THEN BitXor(raised \ {degree}, low) ELSE raised
  IN power[n]

(* Reduction is linear: the residue of a sum of powers is the sum of theirs. *)
Residue(p, degree, low) ==
  FoldSet(LAMBDA e, sum : BitXor(PowerOfX(e, degree, low), sum), {}, p)

Product(p, q) ==
  {e \in {i + j : i \in p, j \in q} : Cardinality({i \in p : e - i \in q}) % 2 = 1}

(* The polynomial of an array of bytes, the first byte in the highest place. *)
OfBytes(data) ==
  UNION {{b + 8 * (Len(data) - i) : b \in data[i]} : i \in DOMAIN data}

(* What a CRC is: the remainder of the message, its first bits inverted by *)
(* the initial value, with room for the checksum behind it.                *)
CrcOf(data, degree, low, initial) ==
  Residue(BitXor({b + degree : b \in OfBytes(data)}, {b + 8 * Len(data) : b \in initial}),
          degree, low)
=============================================================================
