--------------------------- MODULE MetadataMessages ---------------------------
(***************************************************************************)
(* protocol/src/metadata.rs: every field that a message has, in the order  *)
(* in which it is written, and every value that an enum has, the default   *)
(* first. What the access point knows of tracks, albums and artists        *)
(* (metadata/src).                                                         *)
(***************************************************************************)
EXTENDS Schema

Album_Type == Values(1, 4)
Image_Size == Values(0, 3)
Copyright_Type == <<0, 1>>
Restriction_Type == <<0>>
AudioFile_Format == Values(0, 13)

TopTracks == <<Optional("country", 1, String), Repeated("track", 2, Message("Track"))>>

ActivityPeriod == <<
  Optional("start_year", 1, SInt32), Optional("end_year", 2, SInt32),
  Optional("decade", 3, SInt32)>>

Artist == <<
  Optional("gid", 1, Bytes), Optional("name", 2, String), Optional("popularity", 3, SInt32),
  Repeated("top_track", 4, Message("TopTracks")),
  Repeated("album_group", 5, Message("AlbumGroup")),
  Repeated("single_group", 6, Message("AlbumGroup")),
  Repeated("compilation_group", 7, Message("AlbumGroup")),
  Repeated("appears_on_group", 8, Message("AlbumGroup")), Repeated("genre", 9, String),
  Repeated("external_id", 10, Message("ExternalId")),
  Repeated("portrait", 11, Message("Image")),
  Repeated("biography", 12, Message("Biography")),
  Repeated("activity_period", 13, Message("ActivityPeriod")),
  Repeated("restriction", 14, Message("Restriction")),
  Repeated("related", 15, Message("Artist")), Optional("is_portrait_album_cover", 16, Bool),
  Optional("portrait_group", 17, Message("ImageGroup"))>>

AlbumGroup == <<Repeated("album", 1, Message("Album"))>>

Date == <<
  Optional("year", 1, SInt32), Optional("month", 2, SInt32), Optional("day", 3, SInt32)>>

Album == <<
  Optional("gid", 1, Bytes), Optional("name", 2, String),
  Repeated("artist", 3, Message("Artist")), Optional("typ", 4, Enum(Album_Type)),
  Optional("label", 5, String), Optional("date", 6, Message("Date")),
  Optional("popularity", 7, SInt32), Repeated("genre", 8, String),
  Repeated("cover", 9, Message("Image")), Repeated("external_id", 10, Message("ExternalId")),
  Repeated("disc", 11, Message("Disc")), Repeated("review", 12, String),
  Repeated("copyright", 13, Message("Copyright")),
  Repeated("restriction", 14, Message("Restriction")),
  Repeated("related", 15, Message("Album")),
  Repeated("sale_period", 16, Message("SalePeriod")),
  Optional("cover_group", 17, Message("ImageGroup"))>>

Track == <<
  Optional("gid", 1, Bytes), Optional("name", 2, String),
  Optional("album", 3, Message("Album")), Repeated("artist", 4, Message("Artist")),
  Optional("number", 5, SInt32), Optional("disc_number", 6, SInt32),
  Optional("duration", 7, SInt32), Optional("popularity", 8, SInt32),
  Optional("explicit", 9, Bool), Repeated("external_id", 10, Message("ExternalId")),
  Repeated("restriction", 11, Message("Restriction")),
  Repeated("file", 12, Message("AudioFile")), Repeated("alternative", 13, Message("Track")),
  Repeated("sale_period", 14, Message("SalePeriod")),
  Repeated("preview", 15, Message("AudioFile"))>>

Image == <<
  Optional("file_id", 1, Bytes), Optional("size", 2, Enum(Image_Size)),
  Optional("width", 3, SInt32), Optional("height", 4, SInt32)>>

ImageGroup == <<Repeated("image", 1, Message("Image"))>>

Biography == <<
  Optional("text", 1, String), Repeated("portrait", 2, Message("Image")),
  Repeated("portrait_group", 3, Message("ImageGroup"))>>

Disc == <<
  Optional("number", 1, SInt32), Optional("name", 2, String),
  Repeated("track", 3, Message("Track"))>>

Copyright == <<Optional("typ", 1, Enum(Copyright_Type)), Optional("text", 2, String)>>

Restriction == <<
  Optional("countries_allowed", 2, String), Optional("countries_forbidden", 3, String),
  Optional("typ", 4, Enum(Restriction_Type)), Repeated("catalogue_str", 5, String)>>

SalePeriod == <<
  Repeated("restriction", 1, Message("Restriction")), Optional("start", 2, Message("Date")),
  Optional("end", 3, Message("Date"))>>

ExternalId == <<Optional("typ", 1, String), Optional("id", 2, String)>>

AudioFile == <<Optional("file_id", 1, Bytes), Optional("format", 2, Enum(AudioFile_Format))>>

MetadataSchemas == [
  TopTracks |-> TopTracks, ActivityPeriod |-> ActivityPeriod, Artist |-> Artist,
  AlbumGroup |-> AlbumGroup, Date |-> Date, Album |-> Album, Track |-> Track, Image |-> Image,
  ImageGroup |-> ImageGroup, Biography |-> Biography, Disc |-> Disc, Copyright |-> Copyright,
  Restriction |-> Restriction, SalePeriod |-> SalePeriod, ExternalId |-> ExternalId,
  AudioFile |-> AudioFile]
=============================================================================
