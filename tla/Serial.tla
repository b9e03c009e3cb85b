-------------------------------- MODULE Serial --------------------------------
(***************************************************************************)
(* Serial-number arithmetic (core/include/radio/serial.hpp): sequence      *)
(* numbers, timestamps and request ids are unsigned machine integers that  *)
(* wrap, compared by their signed distance.  The machine word is 2 * Half: *)
(* Half is 2^31 in the program.                                            *)
(***************************************************************************)
EXTENDS Integers

CONSTANT Half

ASSUME HalfAssumption == Half \in Nat \ {0, 1}

Modulus == 2 * Half

\* The values of a serial number (std::uint32_t).
Serials == 0 .. Modulus - 1

\* Unsigned arithmetic: what `a + n` or `a - n` leaves in the word.
Wrap(n) == n % Modulus

\* Signed distance from `from` to `to`: positive when `to` is ahead.  The
\* unsigned difference is reinterpreted in two's complement.
Distance(from, to) ==
  LET d == Wrap(to - from) IN IF d < Half THEN d ELSE d - Modulus

Precedes(a, b) == Distance(a, b) > 0

PrecedesOrEqual(a, b) == Distance(a, b) >= 0
===============================================================================
