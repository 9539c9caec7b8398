---------------------------- MODULE DiffieHellman -----------------------------
(***************************************************************************)
(* core/src/diffie_hellman.rs with util::powm: how the two ends of a       *)
(* connection come to the same secret.  Prime is DH_PRIME, of 96 bytes in  *)
(* the code; numbers are not turned into bytes here.                       *)
(***************************************************************************)
EXTENDS Integers

CONSTANT Prime

ASSUME PrimeAssumption == Prime \in Nat \ {0, 1}

DH_GENERATOR == 2

\* What the loop of powm turns result into from exp = e and base = b: bit by
\* bit of the exponent, the lowest first.
PowmLoop(modulus) ==
  LET Loop[e \in Nat] ==
        [b \in Nat |-> [result \in Nat |->
           IF e = 0 THEN result
           ELSE Loop[e \div 2][(b * b) % modulus]
                              [IF e % 2 = 1 THEN (result * b) % modulus ELSE result]]]
  IN  Loop

Powm(base, exp, modulus) == PowmLoop(modulus)[exp][base][1]

PublicKey(private) == Powm(DH_GENERATOR, private, Prime)

SharedSecret(remote, private) == Powm(remote, private, Prime)
=============================================================================
