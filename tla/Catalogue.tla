------------------------------ MODULE Catalogue -------------------------------
(***************************************************************************)
(* metadata/src/lib.rs: a track is looked up by its id, then its artist    *)
(* and its album (Scrobbler::get_track_meta), and what the access point    *)
(* says of each is parsed.  The id comes from the bytes in a frame, or     *)
(* from a text.  The country that the restrictions of a track are held     *)
(* against is the session's at the time of parsing: the access point sends *)
(* it when it likes.                                                       *)
(*                                                                         *)
(* A field of a message is a sequence of at most one value if it is        *)
(* optional.  A list of countries is their two letters, one country after  *)
(* the other, without separators; the session's country is what the access *)
(* point says it is, of whatever length.  A gid is any sequence of bytes,  *)
(* or not there; the id of a file or of a cover is "whole", "short" (not   *)
(* of the length of one) or "none".                                        *)
(***************************************************************************)
EXTENDS Numbers, SequencesExt

CONSTANTS
  Countries,   \* those that the access point may say we are in
  Gids,        \* the bytes that an id may be read from
  MaxDigits,   \* how many digits it may be read from, by the base
  Known,       \* the bytes of the ids that the access point knows
  Tracks, Artists, Albums \* what it may answer, each with any gid

IdBytes == 4   \* 16 in the code

Bytes == Seq(0 .. Quarter - 1)
Ids == [1 .. IdBytes -> 0 .. Quarter - 1]
Texts == Seq(STRING)
Optional(Values) == {field \in Seq(Values) : Len(field) <= 1}

RestrictionMessage ==
  [premium : BOOLEAN, countries_forbidden : Optional(Texts), countries_allowed : Optional(Texts)]
TrackMessage ==
  [gid : Optional(Bytes), artist : Seq(Optional(Bytes)), album : Optional(Bytes),
   alternative : Seq(Optional(Bytes)), file : Seq({"whole", "short", "none"}),
   restriction : Seq(RestrictionMessage)]
ArtistMessage ==
  [gid : Optional(Bytes),
   top_track : Seq([country : Optional(Texts), track : Seq(Optional(Bytes))])]
AlbumMessage ==
  [gid : Optional(Bytes), artist : Seq(Optional(Bytes)), disc : Seq(Seq(Optional(Bytes))),
   cover : Seq({"whole", "short", "none"})]

ASSUME CatalogueAssumption ==
  /\ Countries \subseteq Texts
  /\ Gids \subseteq Bytes /\ Known \subseteq Ids
  /\ Tracks \subseteq TrackMessage /\ Artists \subseteq ArtistMessage
  /\ Albums \subseteq AlbumMessage

VARIABLES
  debug,   \* the program was built with overflow checks (cargo build)
  country, \* SessionData's country, empty until it is known
  source,  \* what the id was read from
  id,      \* the id of the track
  stage,   \* what was asked for last, or how that ended
  uri,     \* the uri asked for
  answer,  \* the answer to it, if there is one
  track,   \* the track parsed, with the message and the country it was made from
  names    \* the names of track, artist and album, as far as they are known

vars == <<debug, country, source, id, stage, uri, answer, track, names>>

---------------------------------------------------------------------------
(* Restrictions *)

CountrylistContains(list, cc) ==
  \E i \in 1 .. Len(list) \div 2 : SubSeq(list, 2 * i - 1, 2 * i) = cc

\* StrChunks slices past the end if a letter is left over, and the iteration
\* gets there if no chunk before it matches.
RunsOut(list, cc) == Len(list) % 2 = 1 /\ ~CountrylistContains(list, cc)

Has(field) == field # <<>>
Get(field, default) == IF field = <<>> THEN default ELSE field[1]

\* Mutant: only the last restriction counts.
JoinedLast(lists) == IF lists = <<>> THEN <<>> ELSE Get(lists[Len(lists)], <<>>)

\* The lists of all restrictions, one after the other.
Joined(lists) == FlattenSeq([i \in DOMAIN lists |-> Get(lists[i], <<>>)])

\* One that is for another catalogue counts like one that lists nothing.
Forbidden(message) ==
  [i \in DOMAIN message.restriction |->
     IF message.restriction[i].premium THEN message.restriction[i].countries_forbidden ELSE <<>>]
Allowed(message) ==
  [i \in DOMAIN message.restriction |->
     IF message.restriction[i].premium THEN message.restriction[i].countries_allowed ELSE <<>>]

HasAny(lists) == \E i \in DOMAIN lists : Has(lists[i])

ParseRestrictions(message, cc) ==
  /\ HasAny(Forbidden(message)) \/ HasAny(Allowed(message))
  /\ HasAny(Forbidden(message)) => ~CountrylistContains(Joined(Forbidden(message)), cc)
  /\ HasAny(Allowed(message)) => CountrylistContains(Joined(Allowed(message)), cc)

RestrictionsPanic(message, cc) ==
  \/ RunsOut(Joined(Forbidden(message)), cc)
  \/ /\ ~CountrylistContains(Joined(Forbidden(message)), cc)
     /\ RunsOut(Joined(Allowed(message)), cc)

---------------------------------------------------------------------------
(* Parsing *)

\* SpotifyId::from_raw asserts the length; the getter of a gid that is not
\* there returns no bytes at all.
RawPanics(gid) == Len(Get(gid, <<>>)) # IdBytes

\* Of a list of messages the gids, those that have none left out.
WithGid(gids) == FlattenSeq(gids)

\* Mutant: also those without a gid are parsed.
AnyPanics(gids) == \E i \in DOMAIN gids : RawPanics(gids[i])

WithGidPanics(gids) == \E i \in DOMAIN gids : Has(gids[i]) /\ RawPanics(gids[i])

TrackPanics(message, cc) ==
  \/ RawPanics(message.gid) \/ RawPanics(message.album)
  \/ \E i \in DOMAIN message.alternative : RawPanics(message.alternative[i])
  \/ WithGidPanics(message.artist)
  \/ "short" \in Range(message.file)
  \/ RestrictionsPanic(message, cc)

ParseTrack(message, cc) ==
  [artists |-> [i \in DOMAIN WithGid(message.artist) |-> FromRaw(WithGid(message.artist)[i])],
   album |-> FromRaw(message.album[1]),
   available |-> ParseRestrictions(message, cc)]

\* The top tracks are those of the first entry that is for every country, or
\* for ours; an entry before it whose list runs out panics.
Matches(entry, cc) == ~Has(entry.country) \/ CountrylistContains(entry.country[1], cc)

ArtistPanics(message, cc) ==
  LET first == SelectInSeq(message.top_track, LAMBDA entry :
                 Matches(entry, cc) \/ RunsOut(entry.country[1], cc))
  IN \/ RawPanics(message.gid)
     \/ first # 0 /\ ~Matches(message.top_track[first], cc)
     \/ first # 0 /\ WithGidPanics(message.top_track[first].track)

\* The artists of an album, the tracks of its discs, and its covers.
AlbumPanics(message) ==
  \/ RawPanics(message.gid) \/ "short" \in Range(message.cover)
  \/ WithGidPanics(message.artist)
  \/ \E i \in DOMAIN message.disc : WithGidPanics(message.disc[i])

---------------------------------------------------------------------------
(* The program *)

Uri(kind, n) == [kind |-> kind, digits |-> ToBase16(n)]

NoUri == [kind |-> "none", digits |-> <<>>]

Init ==
  /\ debug \in BOOLEAN
  /\ country = <<>> /\ source = [base |-> 0, digits |-> <<>>] /\ id = Zero
  /\ stage = "start" /\ uri = NoUri /\ answer = <<>> /\ track = <<>> /\ names = <<>>

FromRawId ==
  /\ stage = "start"
  /\ \E gid \in Gids :
       /\ Len(gid) = IdBytes
       /\ source' = [base |-> Quarter, digits |-> gid] /\ id' = FromRaw(gid)
  /\ stage' = "ready"
  /\ UNCHANGED <<debug, country, uri, answer, track, names>>

\* The gid in the frame has another length.
FromOtherBytes ==
  /\ stage = "start"
  /\ \E gid \in Gids : RawPanics(<<gid>>)
  /\ stage' = "panicked"
  /\ UNCHANGED <<debug, country, source, id, uri, answer, track, names>>

\* from_base16 and from_base62: public, but nothing here asks for what they read.
StartText ==
  /\ stage = "start"
  /\ \E base \in {HexBase, WordBase} : source' = [base |-> base, digits |-> <<>>]
  /\ stage' = "reading"
  /\ UNCHANGED <<debug, country, id, uri, answer, track, names>>

ReadDigit ==
  /\ stage = "reading" /\ Len(source.digits) < MaxDigits[source.base]
  /\ \E digit \in 0 .. source.base - 1 :
       /\ source' = [source EXCEPT !.digits = Append(@, digit)]
       /\ id' = NextDigit(id, digit, source.base, debug)
  /\ stage' = IF id'.panicked THEN "panicked" ELSE "reading"
  /\ UNCHANGED <<debug, country, uri, answer, track, names>>

\* Not a digit of the base: position finds nothing to unwrap.  Not ASCII: the
\* assertion fails, before the first digit is read.
ReadOther ==
  /\ stage = "reading" /\ stage' = "panicked"
  /\ UNCHANGED <<debug, country, source, id, uri, answer, track, names>>

EndText ==
  /\ stage = "reading"
  /\ stage' = "read"
  /\ UNCHANGED <<debug, country, source, id, uri, answer, track, names>>

\* The packet 0x1b; one that is not UTF-8 is a matter of module Session.
SetCountry ==
  /\ country' \in Countries
  /\ UNCHANGED <<debug, source, id, stage, uri, answer, track, names>>

\* Metadata::get: format the uri, send the request.
Ask(kind, n) == stage' = kind /\ uri' = Uri(kind, n) /\ answer' = <<>>

GetTrack ==
  /\ stage = "ready"
  /\ Ask("track", id)
  /\ UNCHANGED <<debug, country, source, id, track, names>>

---------------------------------------------------------------------------
(* The access point *)

NumberAsked == NumberOf(uri.digits, HexBase)

Fetching == stage \in {"track", "artist", "album"}

Answers(messages) ==
  \E message \in messages, gid \in {g \in Known : NumberOf(g, Quarter) = NumberAsked} :
    \E own \in {<<>>, <<gid>>, <<Tail(gid)>>} :
      answer' = <<[status |-> "ok", name |-> <<uri.kind, NumberAsked>>,
                   message |-> [message EXCEPT !.gid = own]]>>

\* An error, which is all there is for an id that it does not know; no payload
\* at all, or one that does not parse; or the meta-data, with the gid of what
\* it is about, with none, or with one that lacks a byte.
Answer ==
  /\ Fetching /\ answer = <<>>
  /\ \/ \E status \in {"error", "no payload", "garbled"} : answer' = <<[status |-> status]>>
     \/ stage = "track" /\ Answers(Tracks)
     \/ stage = "artist" /\ Answers(Artists)
     \/ stage = "album" /\ Answers(Albums)
  /\ UNCHANGED <<debug, country, source, id, stage, uri, track, names>>

---------------------------------------------------------------------------
(* Polling the chain of get_track_meta *)

Reply == answer[1]

\* The future of the request is done: with an error the chain ends; expect and
\* unwrap panic at an answer without a message in it.
PollFailure ==
  /\ Fetching /\ answer # <<>> /\ Reply.status # "ok"
  /\ stage' = IF Reply.status = "error" THEN "error" ELSE "panicked"
  /\ UNCHANGED <<debug, country, source, id, uri, answer, track, names>>

Panic == stage' = "panicked" /\ UNCHANGED <<answer, uri, track, names>>

PollAnswer(kind) ==
  /\ stage = kind /\ answer # <<>> /\ Reply.status = "ok"
  /\ UNCHANGED <<debug, country, source, id>>

\* get_track_meta expects an artist.
PollTrack ==
  /\ PollAnswer("track")
  /\ \/ TrackPanics(Reply.message, country) /\ Panic
     \/ /\ ~TrackPanics(Reply.message, country)
        /\ track' = <<[parsed |-> ParseTrack(Reply.message, country),
                       message |-> Reply.message, country |-> country]>>
        /\ names' = <<Reply.name>>
        /\ IF WithGid(Reply.message.artist) = <<>>
           THEN stage' = "panicked" /\ UNCHANGED <<uri, answer>>
           ELSE Ask("artist", Head(ParseTrack(Reply.message, country).artists))

PollArtist ==
  /\ PollAnswer("artist")
  /\ \/ ArtistPanics(Reply.message, country) /\ Panic
     \/ /\ ~ArtistPanics(Reply.message, country)
        /\ names' = Append(names, Reply.name)
        /\ Ask("album", track[1].parsed.album)
        /\ UNCHANGED track

PollAlbum ==
  /\ PollAnswer("album")
  /\ \/ AlbumPanics(Reply.message) /\ Panic
     \/ /\ ~AlbumPanics(Reply.message)
        /\ names' = Append(names, Reply.name)
        /\ stage' = "done"
        /\ UNCHANGED <<answer, uri, track>>

Done == stage \in {"read", "done", "error", "panicked"} /\ UNCHANGED vars

Next ==
  \/ FromRawId \/ FromOtherBytes \/ StartText \/ ReadDigit \/ ReadOther \/ EndText
  \/ GetTrack \/ SetCountry \/ Answer
  \/ PollFailure \/ PollTrack \/ PollArtist \/ PollAlbum
  \/ Done

Spec == Init /\ [][Next]_vars

---------------------------------------------------------------------------
(* Properties *)

SourceNumber == NumberOf(source.digits, source.base)

\* The number in an id is the one that its text or its bytes stand for, modulo
\* 2^128.  Of a digit, the arithmetic panics only in a debug build and in base
\* 62, where the low halves may carry: never in base 16, whatever the length of
\* the text.
IdIsTheNumber ==
  stage # "start" =>
    IF id.panicked
    THEN debug /\ source.base = WordBase
    ELSE Value(id) = SourceNumber % (Word * Word)

FirstArtist == Head(WithGid(track[1].message.artist))

\* The names in a scrobble are of the track with the id that was given, of the
\* first of its artists that has an id, and of its album: each uri names what
\* is asked for, however often an id was read, written and parsed on the way.
NamesAreOfTheTrack ==
  /\ names # <<>> => names[1] = <<"track", SourceNumber % (Word * Word)>>
  /\ Len(names) > 1 => names[2] = <<"artist", NumberOf(FirstArtist, Quarter)>>
  /\ stage = "done" => names[3] = <<"album", NumberOf(track[1].message.album[1], Quarter)>>

Codes(list) == {SubSeq(list, 2 * i - 1, 2 * i) : i \in 1 .. Len(list) \div 2}

Listed(lists, cc) == \E i \in DOMAIN lists : Has(lists[i]) /\ cc \in Codes(lists[i][1])

\* A track is available if one of its restrictions for premium accounts lists
\* something, none of them forbids the country that was known when the track
\* was parsed, and one of them allows it, if any allows anything: whatever the
\* number of restrictions, as long as no list has half a country in it.
AvailableAsListed ==
  track # <<>> =>
    LET message == track[1].message  cc == track[1].country
        lists == Forbidden(message) \o Allowed(message)
    IN (\A i \in DOMAIN lists : Len(Get(lists[i], <<>>)) % 2 = 0) =>
         (track[1].parsed.available <=>
            /\ HasAny(lists) /\ ~Listed(Forbidden(message), cc)
            /\ HasAny(Allowed(message)) => Listed(Allowed(message), cc))

HasHalf(lists) == \E i \in DOMAIN lists : Len(Get(lists[i], <<>>)) % 2 = 1

IsId(gid) == Has(gid) /\ gid[1] \in Ids

Misshapen(gids) == \E i \in DOMAIN gids : Has(gids[i]) /\ ~IsId(gids[i])

\* Fetching panics only when the answer has no message in it, when what it is
\* about or its album or an alternative has no id, when a gid or the id of a
\* file or a cover is there and has not the length of one, when no artist has
\* an id, or when a list of countries has half a country in it: never because
\* of an artist, a top track or a file without an id, nor because the country
\* is not known yet or has another length.
PanicsForAReason ==
  (stage = "panicked" /\ answer # <<>>) =>
    \/ Reply.status \in {"no payload", "garbled"}
    \/ ~IsId(Reply.message.gid)
    \/ /\ uri.kind = "track"
       /\ \/ ~IsId(Reply.message.album)
          \/ \E i \in DOMAIN Reply.message.alternative : ~IsId(Reply.message.alternative[i])
          \/ WithGid(Reply.message.artist) = <<>> \/ Misshapen(Reply.message.artist)
          \/ "short" \in Range(Reply.message.file)
          \/ HasHalf(Forbidden(Reply.message)) \/ HasHalf(Allowed(Reply.message))
    \/ /\ uri.kind = "album"
       /\ \/ "short" \in Range(Reply.message.cover) \/ Misshapen(Reply.message.artist)
          \/ \E i \in DOMAIN Reply.message.disc : Misshapen(Reply.message.disc[i])
    \/ /\ uri.kind = "artist"
       /\ \/ HasHalf([i \in DOMAIN Reply.message.top_track |-> Reply.message.top_track[i].country])
          \/ \E i \in DOMAIN Reply.message.top_track : Misshapen(Reply.message.top_track[i].track)
=============================================================================
