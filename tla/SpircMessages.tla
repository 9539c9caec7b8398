---------------------------- MODULE SpircMessages -----------------------------
(***************************************************************************)
(* protocol/src/spirc.rs: every field that a message has, in the order in  *)
(* which it is written, and every value that an enum has, the default      *)
(* first. The frames that the devices of a user exchange (src/spirc.rs).   *)
(***************************************************************************)
EXTENDS Schema

MessageType == <<1, 2, 3, 10, 20, 21, 22, 23, 24, 25, 26, 27, 28, 29, 31, 32, 33, 34,
  35, 36, 128>>
CapabilityType == Values(1, 12)
PlayStatus == Values(0, 3)

Frame == <<
  Optional("version", 1, UInt32), Optional("ident", 2, String),
  Optional("protocol_version", 3, String), Optional("seq_nr", 4, UInt32),
  Optional("typ", 5, Enum(MessageType)), Optional("device_state", 7, Message("DeviceState")),
  Optional("goodbye", 11, Message("Goodbye")), Optional("state", 12, Message("State")),
  Optional("position", 13, UInt32), Optional("volume", 14, UInt32),
  Optional("state_update_id", 17, Int64), Repeated("recipient", 18, String),
  Optional("context_player_state", 19, Bytes), Optional("new_name", 20, String),
  Optional("metadata", 25, Message("Metadata"))>>

DeviceState == <<
  Optional("sw_version", 1, String), Optional("is_active", 10, Bool),
  Optional("can_play", 11, Bool), Optional("volume", 12, UInt32),
  Optional("name", 13, String), Optional("error_code", 14, UInt32),
  Optional("became_active_at", 15, Int64), Optional("error_message", 16, String),
  Repeated("capabilities", 17, Message("Capability")),
  Optional("context_player_error", 20, String), Repeated("metadata", 25, Message("Metadata"))>>

Capability == <<
  Optional("typ", 1, Enum(CapabilityType)), Repeated("intValue", 2, Int64),
  Repeated("stringValue", 3, String)>>

Goodbye == <<Optional("reason", 1, String)>>

State == <<
  Optional("context_uri", 2, String), Optional("index", 3, UInt32),
  Optional("position_ms", 4, UInt32), Optional("status", 5, Enum(PlayStatus)),
  Optional("position_measured_at", 7, UInt64), Optional("context_description", 8, String),
  Optional("shuffle", 13, Bool), Optional("repeat", 14, Bool),
  Optional("last_command_ident", 20, String), Optional("last_command_msgid", 21, UInt32),
  Optional("playing_from_fallback", 24, Bool), Optional("row", 25, UInt32),
  Optional("playing_track_index", 26, UInt32), Repeated("track", 27, Message("TrackRef")),
  Optional("ad", 28, Message("Ad"))>>

TrackRef == <<
  Optional("gid", 1, Bytes), Optional("uri", 2, String), Optional("queued", 3, Bool),
  Optional("context", 4, String)>>

Ad == <<
  Optional("next", 1, Int32), Optional("ogg_fid", 2, Bytes), Optional("image_fid", 3, Bytes),
  Optional("duration", 4, Int32), Optional("click_url", 5, String),
  Optional("impression_url", 6, String), Optional("product", 7, String),
  Optional("advertiser", 8, String), Optional("gid", 9, Bytes)>>

Metadata == <<Optional("type", 1, String), Optional("metadata", 2, String)>>

SpircSchemas == [
  Frame |-> Frame, DeviceState |-> DeviceState, Capability |-> Capability,
  Goodbye |-> Goodbye, State |-> State, TrackRef |-> TrackRef, Ad |-> Ad,
  Metadata |-> Metadata]
=============================================================================
