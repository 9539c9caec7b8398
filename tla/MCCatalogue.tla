----------------------------- MODULE MCCatalogue ------------------------------
(***************************************************************************)
(* Ids of 8 bits, in halves of 4: every text of up to 9 binary and 6       *)
(* ternary digits, so that some do not fit.  Lists that allow or forbid    *)
(* two countries, one after the other, in two restrictions; a list with    *)
(* half a country; gids that are not there, or one byte short; a country   *)
(* of three letters, the first two of which are one that is listed.        *)
(***************************************************************************)
EXTENDS Catalogue

MCMaxDigits == HexBase :> 9 @@ WordBase :> 6

song == <<1, 2, 3, 0>>
singer == <<3, 3, 0, 1>>
band == <<0, 0, 2, 3>>
record == <<3, 0, 1, 2>>  \* the halves of song, swapped
MCKnown == {song, singer, band, record}
short == <<3, 3, 0>>
MCGids == {song, record, <<0, 3, 3, 3>>, short}

ab == <<"a", "b">>
ba == <<"b", "a">>
MCCountries == {ab, ba, <<"a", "b", "a">>}

Lists == {<<>>, <<ab>>, <<ab \o ba>>, <<ba \o <<"b">>>>}

Restriction(premium, forbidden, allowed) ==
  [premium |-> premium, countries_forbidden |-> forbidden, countries_allowed |-> allowed]

OneOf ==
  {Restriction(TRUE, forbidden, allowed) : forbidden \in Lists, allowed \in Lists}
    \cup {Restriction(FALSE, <<ab>>, <<>>)}

Track_(artist, album, alternative, file, restriction) ==
  [gid |-> <<>>, artist |-> artist, album |-> album, alternative |-> alternative, file |-> file,
   restriction |-> restriction]

Gids_ == {<<>>, <<singer>>, <<band>>}

MCTracks ==
  {Track_(<<<<singer>>>>, <<record>>, <<>>, <<"whole">>, restriction) :
     restriction \in UNION {[1 .. n -> OneOf] : n \in 0 .. 2}}
  \cup
  {Track_(artist, album, alternative, file, <<>>) :
     artist \in UNION {[1 .. n -> Gids_] : n \in 0 .. 2},
     album \in {<<>>, <<record>>}, alternative \in {<<>>, <<<<>>>>, <<<<song>>>>},
     file \in {<<"none">>, <<"whole", "short">>}}
  \cup
  {Track_(<<<<singer>>, <<short>>>>, <<record>>, <<>>, <<>>, <<>>),
   Track_(<<<<singer>>>>, <<short>>, <<>>, <<>>, <<>>),
   Track_(<<<<singer>>>>, <<record>>, <<<<song>>, <<short>>>>, <<>>, <<>>)}

TopTrack ==
  [country : {<<>>, <<ab>>, <<ba \o <<"b">>>>}, track : {<<<<>>, <<song>>>>}]
    \cup [country : {<<ba>>}, track : {<<<<song>>, <<short>>>>}]

MCArtists == {[gid |-> <<>>, top_track |-> top] : top \in UNION {[1 .. n -> TopTrack] : n \in 0 .. 2}}
MCAlbums ==
  [gid : {<<>>}, artist : {<<<<singer>>, <<>>>>, <<<<short>>>>},
   disc : {<<<<<<>>>>, <<<<song>>, <<>>>>>>, <<<<<<song>>>>, <<<<short>>>>>>},
   cover : {<<"whole">>, <<"none", "short">>}]
=============================================================================
