------------------------- MODULE KeyexchangeMessages --------------------------
(***************************************************************************)
(* protocol/src/keyexchange.rs: every field that a message has, in the     *)
(* order in which it is written, and every value that an enum has, the     *)
(* default first. The messages of the handshake (handshake.rs sends        *)
(* ClientHello and ClientResponsePlaintext and reads APResponseMessage),   *)
(* and what the access point answers a login with when it fails.           *)
(***************************************************************************)
EXTENDS Schema

Product == <<0, 1, 2, 3, 5>>
ProductFlags == <<0, 1>>
Platform == Values(0, 23)
Fingerprint == <<0, 1>>
Cryptosuite == <<0, 1>>
Powscheme == <<0>>
ErrorCode == <<0, 2, 5, 9, 11, 12, 13, 14, 15, 16, 17>>

ClientHello == <<
  Required("build_info", 10, Message("BuildInfo")),
  Repeated("fingerprints_supported", 20, Enum(Fingerprint)),
  Repeated("cryptosuites_supported", 30, Enum(Cryptosuite)),
  Repeated("powschemes_supported", 40, Enum(Powscheme)),
  Required("login_crypto_hello", 50, Message("LoginCryptoHelloUnion")),
  Required("client_nonce", 60, Bytes), Optional("padding", 70, Bytes),
  Optional("feature_set", 80, Message("FeatureSet"))>>

BuildInfo == <<
  Required("product", 10, Enum(Product)), Repeated("product_flags", 20, Enum(ProductFlags)),
  Required("platform", 30, Enum(Platform)), Required("version", 40, UInt64)>>

LoginCryptoHelloUnion == <<
  Optional("diffie_hellman", 10, Message("LoginCryptoDiffieHellmanHello"))>>

LoginCryptoDiffieHellmanHello == <<
  Required("gc", 10, Bytes), Required("server_keys_known", 20, UInt32)>>

FeatureSet == <<Optional("autoupdate2", 1, Bool), Optional("current_location", 2, Bool)>>

APResponseMessage == <<
  Optional("challenge", 10, Message("APChallenge")),
  Optional("upgrade", 20, Message("UpgradeRequiredMessage")),
  Optional("login_failed", 30, Message("APLoginFailed"))>>

APChallenge == <<
  Required("login_crypto_challenge", 10, Message("LoginCryptoChallengeUnion")),
  Required("fingerprint_challenge", 20, Message("FingerprintChallengeUnion")),
  Required("pow_challenge", 30, Message("PoWChallengeUnion")),
  Required("crypto_challenge", 40, Message("CryptoChallengeUnion")),
  Required("server_nonce", 50, Bytes), Optional("padding", 60, Bytes)>>

LoginCryptoChallengeUnion == <<
  Optional("diffie_hellman", 10, Message("LoginCryptoDiffieHellmanChallenge"))>>

LoginCryptoDiffieHellmanChallenge == <<
  Required("gs", 10, Bytes), Required("server_signature_key", 20, Int32),
  Required("gs_signature", 30, Bytes)>>

FingerprintChallengeUnion == <<
  Optional("grain", 10, Message("FingerprintGrainChallenge")),
  Optional("hmac_ripemd", 20, Message("FingerprintHmacRipemdChallenge"))>>

FingerprintGrainChallenge == <<Required("kek", 10, Bytes)>>

FingerprintHmacRipemdChallenge == <<Required("challenge", 10, Bytes)>>

PoWChallengeUnion == <<Optional("hash_cash", 10, Message("PoWHashCashChallenge"))>>

PoWHashCashChallenge == <<
  Optional("prefix", 10, Bytes), Optional("length", 20, Int32), Optional("target", 30, Int32)>>

CryptoChallengeUnion == <<
  Optional("shannon", 10, Message("CryptoShannonChallenge")),
  Optional("rc4_sha1_hmac", 20, Message("CryptoRc4Sha1HmacChallenge"))>>

CryptoShannonChallenge == <<>>

CryptoRc4Sha1HmacChallenge == <<>>

UpgradeRequiredMessage == <<
  Required("upgrade_signed_part", 10, Bytes), Required("signature", 20, Bytes),
  Optional("http_suffix", 30, String)>>

APLoginFailed == <<
  Required("error_code", 10, Enum(ErrorCode)), Optional("retry_delay", 20, Int32),
  Optional("expiry", 30, Int32), Optional("error_description", 40, String)>>

ClientResponsePlaintext == <<
  Required("login_crypto_response", 10, Message("LoginCryptoResponseUnion")),
  Required("pow_response", 20, Message("PoWResponseUnion")),
  Required("crypto_response", 30, Message("CryptoResponseUnion"))>>

LoginCryptoResponseUnion == <<
  Optional("diffie_hellman", 10, Message("LoginCryptoDiffieHellmanResponse"))>>

LoginCryptoDiffieHellmanResponse == <<Required("hmac", 10, Bytes)>>

PoWResponseUnion == <<Optional("hash_cash", 10, Message("PoWHashCashResponse"))>>

PoWHashCashResponse == <<Required("hash_suffix", 10, Bytes)>>

CryptoResponseUnion == <<
  Optional("shannon", 10, Message("CryptoShannonResponse")),
  Optional("rc4_sha1_hmac", 20, Message("CryptoRc4Sha1HmacResponse"))>>

CryptoShannonResponse == <<Optional("dummy", 1, Int32)>>

CryptoRc4Sha1HmacResponse == <<Optional("dummy", 1, Int32)>>

KeyexchangeSchemas == [
  ClientHello |-> ClientHello, BuildInfo |-> BuildInfo,
  LoginCryptoHelloUnion |-> LoginCryptoHelloUnion,
  LoginCryptoDiffieHellmanHello |-> LoginCryptoDiffieHellmanHello, FeatureSet |-> FeatureSet,
  APResponseMessage |-> APResponseMessage, APChallenge |-> APChallenge,
  LoginCryptoChallengeUnion |-> LoginCryptoChallengeUnion,
  LoginCryptoDiffieHellmanChallenge |-> LoginCryptoDiffieHellmanChallenge,
  FingerprintChallengeUnion |-> FingerprintChallengeUnion,
  FingerprintGrainChallenge |-> FingerprintGrainChallenge,
  FingerprintHmacRipemdChallenge |-> FingerprintHmacRipemdChallenge,
  PoWChallengeUnion |-> PoWChallengeUnion, PoWHashCashChallenge |-> PoWHashCashChallenge,
  CryptoChallengeUnion |-> CryptoChallengeUnion,
  CryptoShannonChallenge |-> CryptoShannonChallenge,
  CryptoRc4Sha1HmacChallenge |-> CryptoRc4Sha1HmacChallenge,
  UpgradeRequiredMessage |-> UpgradeRequiredMessage, APLoginFailed |-> APLoginFailed,
  ClientResponsePlaintext |-> ClientResponsePlaintext,
  LoginCryptoResponseUnion |-> LoginCryptoResponseUnion,
  LoginCryptoDiffieHellmanResponse |-> LoginCryptoDiffieHellmanResponse,
  PoWResponseUnion |-> PoWResponseUnion, PoWHashCashResponse |-> PoWHashCashResponse,
  CryptoResponseUnion |-> CryptoResponseUnion,
  CryptoShannonResponse |-> CryptoShannonResponse,
  CryptoRc4Sha1HmacResponse |-> CryptoRc4Sha1HmacResponse]
=============================================================================
