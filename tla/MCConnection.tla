---------------------------- MODULE MCConnection ----------------------------
(* Everything that can go wrong once, and payloads of no and of two bytes. *)
EXTENDS Connection

MCResolutions == {"list", "error", "silent"}
MCSockets == {"open", "refused", "unknown"}
MCResponses == {"good", "refusal", "garbled", "short"}
MCFirstCmds == {"welcome", "unreadable", "failed", "other"}
MCSizes == {0, 2}

\* powm is a power modulo the prime, and the secrets agree, for every pair of
\* private keys below 16 (the run itself has one pair).
ASSUME PowmIsPower ==
  \A base \in 1 .. Prime - 1, exp \in 0 .. 5 : Powm(base, exp, Prime) = base ^ exp % Prime
ASSUME SecretsAgree ==
  \A x, y \in 0 .. 15 : SharedSecret(PublicKey(x), y) = SharedSecret(PublicKey(y), x)
=============================================================================
