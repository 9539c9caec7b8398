------------------------ MODULE AuthenticationMessages ------------------------
(***************************************************************************)
(* protocol/src/authentication.rs: every field that a message has, in the  *)
(* order in which it is written, and every value that an enum has, the     *)
(* default first. The messages of the login (connection/mod.rs sends       *)
(* ClientResponseEncrypted and reads APWelcome).                           *)
(***************************************************************************)
EXTENDS Schema

AuthenticationType == Values(0, 4)
AccountCreation == <<1, 3>>
CpuFamily == Values(0, 9)
Brand == Values(0, 3)
Os == Values(0, 22)
AccountType == <<0, 1>>

ClientResponseEncrypted == <<
  Required("login_credentials", 10, Message("LoginCredentials")),
  Optional("account_creation", 20, Enum(AccountCreation)),
  Optional("fingerprint_response", 30, Message("FingerprintResponseUnion")),
  Optional("peer_ticket", 40, Message("PeerTicketUnion")),
  Required("system_info", 50, Message("SystemInfo")), Optional("platform_model", 60, String),
  Optional("version_string", 70, String),
  Optional("appkey", 80, Message("LibspotifyAppKey")),
  Optional("client_info", 90, Message("ClientInfo"))>>

LoginCredentials == <<
  Optional("username", 10, String), Required("typ", 20, Enum(AuthenticationType)),
  Optional("auth_data", 30, Bytes)>>

FingerprintResponseUnion == <<
  Optional("grain", 10, Message("FingerprintGrainResponse")),
  Optional("hmac_ripemd", 20, Message("FingerprintHmacRipemdResponse"))>>

FingerprintGrainResponse == <<Required("encrypted_key", 10, Bytes)>>

FingerprintHmacRipemdResponse == <<Required("hmac", 10, Bytes)>>

PeerTicketUnion == <<
  Optional("public_key", 10, Message("PeerTicketPublicKey")),
  Optional("old_ticket", 20, Message("PeerTicketOld"))>>

PeerTicketPublicKey == <<Required("public_key", 10, Bytes)>>

PeerTicketOld == <<
  Required("peer_ticket", 10, Bytes), Required("peer_ticket_signature", 20, Bytes)>>

SystemInfo == <<
  Required("cpu_family", 10, Enum(CpuFamily)), Optional("cpu_subtype", 20, UInt32),
  Optional("cpu_ext", 30, UInt32), Optional("brand", 40, Enum(Brand)),
  Optional("brand_flags", 50, UInt32), Required("os", 60, Enum(Os)),
  Optional("os_version", 70, UInt32), Optional("os_ext", 80, UInt32),
  Optional("system_information_string", 90, String), Optional("device_id", 100, String)>>

LibspotifyAppKey == <<
  Required("version", 1, UInt32), Required("devkey", 2, Bytes),
  Required("signature", 3, Bytes), Required("useragent", 4, String),
  Required("callback_hash", 5, Bytes)>>

ClientInfo == <<
  Optional("limited", 1, Bool), Optional("fb", 2, Message("ClientInfoFacebook")),
  Optional("language", 3, String)>>

ClientInfoFacebook == <<Optional("machine_id", 1, String)>>

APWelcome == <<
  Required("canonical_username", 10, String),
  Required("account_type_logged_in", 20, Enum(AccountType)),
  Required("credentials_type_logged_in", 25, Enum(AccountType)),
  Required("reusable_auth_credentials_type", 30, Enum(AuthenticationType)),
  Required("reusable_auth_credentials", 40, Bytes), Optional("lfs_secret", 50, Bytes),
  Optional("account_info", 60, Message("AccountInfo")),
  Optional("fb", 70, Message("AccountInfoFacebook"))>>

AccountInfo == <<
  Optional("spotify", 1, Message("AccountInfoSpotify")),
  Optional("facebook", 2, Message("AccountInfoFacebook"))>>

AccountInfoSpotify == <<>>

AccountInfoFacebook == <<
  Optional("access_token", 1, String), Optional("machine_id", 2, String)>>

AuthenticationSchemas == [
  ClientResponseEncrypted |-> ClientResponseEncrypted, LoginCredentials |-> LoginCredentials,
  FingerprintResponseUnion |-> FingerprintResponseUnion,
  FingerprintGrainResponse |-> FingerprintGrainResponse,
  FingerprintHmacRipemdResponse |-> FingerprintHmacRipemdResponse,
  PeerTicketUnion |-> PeerTicketUnion, PeerTicketPublicKey |-> PeerTicketPublicKey,
  PeerTicketOld |-> PeerTicketOld, SystemInfo |-> SystemInfo,
  LibspotifyAppKey |-> LibspotifyAppKey, ClientInfo |-> ClientInfo,
  ClientInfoFacebook |-> ClientInfoFacebook, APWelcome |-> APWelcome,
  AccountInfo |-> AccountInfo, AccountInfoSpotify |-> AccountInfoSpotify,
  AccountInfoFacebook |-> AccountInfoFacebook]
=============================================================================
