------------------------------ MODULE Operations ------------------------------
(***************************************************************************)
(* The generated half of the TypeScript client as data: what each method   *)
(* of generated/operations.ts hands to Core.call (verb, path, the query    *)
(* keys it picks, whether a body goes out, the scope) and what it answers, *)
(* and which shapes of generated/types.ts mention which.  A path parameter *)
(* is the segment written in braces.  The other five libraries are emitted *)
(* from the same contract.                                                 *)
(***************************************************************************)
EXTENDS Sequences, TLC

One(shape)  == [kind |-> "one",     of |-> shape]
Page(shape) == [kind |-> "page",    of |-> shape]
Nothing     == [kind |-> "nothing", of |-> "-"]

Get(scope, path, query, answer) ==
    [verb |-> "GET", scope |-> scope, path |-> path, query |-> query, body |-> "-", answer |-> answer]

Write(verb, scope, path, body, answer) ==
    [verb |-> verb, scope |-> scope, path |-> path, query |-> {}, body |-> body, answer |-> answer]

Lang   == {"lang"}
Window == {"limit", "offset"}
Catalog(path, query, answer)    == Get("catalog:read", path, query, answer)
PeopleRead(path, query, answer) == Get("people:read", path, query, answer)

account == [getMe |-> Get("profile", <<"me">>, {}, One("Me"))]

characters ==
    [calendar        |-> Catalog(<<"calendar">>, Lang, Page("Airing")),
     characterTitles |-> Catalog(<<"characters", "{id}", "titles">>, Lang \cup Window, Page("Appearance")),
     characterVoices |-> Catalog(<<"characters", "{id}", "voices">>, Lang, Page("Voice")),
     getCharacter    |-> Catalog(<<"characters", "{id}">>, Lang, One("Character"))]

titles ==
    [getPerson  |-> Catalog(<<"people", "{id}">>, Lang, One("PersonPage")),
     getTitle   |-> Catalog(<<"titles", "{id}">>, Lang, One("Title")),
     listGenres |-> Catalog(<<"genres">>, {}, Page("string")),
     listTitles |-> Catalog(<<"titles">>,
                            Lang \cup Window \cup {"q", "order", "status", "kind", "genre", "score",
                                                   "year_from", "year_to", "rating"},
                            Page("TitleCard"))]

people ==
    [personCharacters |-> Catalog(<<"people", "{id}", "characters">>, Lang \cup Window, Page("VoicedRole")),
     personTitles     |-> Catalog(<<"people", "{id}", "titles">>, Lang \cup Window, Page("Appearance")),
     randomTitle      |-> Catalog(<<"titles", "random">>, Lang, One("TitleCard")),
     relatedTitles    |-> Catalog(<<"titles", "{id}", "related">>, Lang, Page("Related"))]

searches ==
    [searchCharacters |-> Catalog(<<"characters">>, Lang \cup {"q", "limit"}, Page("CharacterCard")),
     searchPeople     |-> Catalog(<<"people">>, Lang \cup {"q", "limit"}, Page("PersonCard")),
     similarTitles    |-> Catalog(<<"titles", "{id}", "similar">>, Lang, Page("TitleCard")),
     titleCharacters  |-> Catalog(<<"titles", "{id}", "characters">>, Lang \cup Window, Page("TitleCharacter"))]

titleParts ==
    [titleEpisodes    |-> Catalog(<<"titles", "{id}", "episodes">>, {}, Page("Episode")),
     titleScreenshots |-> Catalog(<<"titles", "{id}", "screenshots">>, {}, Page("string")),
     titleStaff       |-> Catalog(<<"titles", "{id}", "staff">>, Lang, Page("TitleStaff"))]

users ==
    [getUser         |-> PeopleRead(<<"users", "{nick}">>, {}, One("Profile")),
     searchUsers     |-> PeopleRead(<<"users">>, {"q", "limit"}, Page("Person")),
     userCollections |-> PeopleRead(<<"users", "{nick}", "collections">>, {}, Page("Collection")),
     userFollowers   |-> PeopleRead(<<"users", "{nick}", "followers">>, Window, Page("Person"))]

userLists ==
    [userFollowing |-> PeopleRead(<<"users", "{nick}", "following">>, Window, Page("Person")),
     userLists     |-> PeopleRead(<<"users", "{nick}", "lists">>, Window \cup {"status"}, Page("ListEntry")),
     userStats     |-> PeopleRead(<<"users", "{nick}", "stats">>, {}, One("Stats"))]

collectionItem == <<"collections", "{code}", "items", "{shikimori_id}">>
listEntry      == <<"lists", "{shikimori_id}">>

collections ==
    [addCollectionItem |-> Write("PUT", "lists:write", collectionItem, "EntryBody", One("CollectionItem")),
     collectionItems   |-> Get("lists:read", <<"collections", "{code}", "items">>, {}, Page("CollectionItem")),
     createCollection  |-> Write("POST", "lists:write", <<"collections">>, "CollectionBody", One("Collection")),
     getCollection     |-> Get("lists:read", <<"collections", "{code}">>, {}, One("Collection")),
     listMyCollections |-> Get("lists:read", <<"collections">>, {}, Page("Collection"))]

library ==
    [listMyList           |-> Get("lists:read", <<"lists">>, Window \cup {"status"}, Page("ListEntry")),
     rateListEntry        |-> Write("PUT", "lists:write", listEntry \o <<"score">>, "ScoreBody", One("ListEntry")),
     removeCollectionItem |-> Write("DELETE", "lists:write", collectionItem, "-", Nothing),
     removeListEntry      |-> Write("DELETE", "lists:write", listEntry, "-", Nothing),
     saveListEntry        |-> Write("PUT", "lists:write", listEntry, "ListBody", One("ListEntry")),
     unrateListEntry      |-> Write("DELETE", "lists:write", listEntry \o <<"score">>, "-", Nothing)]

following == <<"following", "{nickname}">>

social ==
    [followUser      |-> Write("PUT", "social:write", following, "-", Nothing),
     listMyFollowing |-> Get("social:read", <<"following">>, Window, Page("Person")),
     listMyPosts     |-> Get("social:read", <<"posts">>, Window, Page("Post")),
     unfollowUser    |-> Write("DELETE", "social:write", following, "-", Nothing),
     writePost       |-> Write("POST", "social:write", <<"posts">>, "PostBody", One("Post"))]

\* Which shapes a shape of types.ts mentions; PostId is the one alias.
airingToEntryBody ==
    [Airing |-> {}, Appearance |-> {}, Character |-> {}, CharacterCard |-> {}, Collection |-> {},
     CollectionBody |-> {}, CollectionItem |-> {}, EntryBody |-> {}]

episodeToPersonPage ==
    [Episode |-> {}, ListBody |-> {}, ListEntry |-> {}, Me |-> {}, Person |-> {}, PersonCard |-> {},
     PersonPage |-> {}]

postToStats ==
    [Post |-> {"PostId"}, PostBody |-> {"PostId"}, Profile |-> {}, Refusal |-> {}, Related |-> {},
     ScoreBody |-> {}, Stats |-> {}]

titleToVoicedRole ==
    [Title |-> {}, TitleCard |-> {}, TitleCharacter |-> {"Voice"}, TitleStaff |-> {}, Voice |-> {},
     VoicedRole |-> {"TitleCard"}]

Aliases == {"PostId"}

Account   == account
Catalogue == characters @@ titles @@ people @@ searches @@ titleParts
People    == users @@ userLists
Library   == collections @@ library
Social    == social

operations == Account @@ Catalogue @@ People @@ Library @@ Social

namespaces ==
    [account |-> Account, catalogue |-> Catalogue, people |-> People, library |-> Library, social |-> Social]

\* spec.ts `pages`, which is also where a `...All` stands beside the operation.
Paged   == {o \in DOMAIN operations : operations[o].answer.kind = "page" /\ Window \subseteq operations[o].query}
Writing == {o \in DOMAIN operations : operations[o].verb # "GET"}

mentions == airingToEntryBody @@ episodeToPersonPage @@ postToStats @@ titleToVoicedRole

SCOPES == {"catalog:read", "email", "lists:read", "lists:write", "offline_access", "openid",
           "people:read", "profile", "social:read", "social:write"}
================================================================================
