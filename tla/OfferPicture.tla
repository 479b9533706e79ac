---------------------------- MODULE OfferPicture ----------------------------
(***************************************************************************)
(* useOfferImage: one component's picture of an offer, fetched with the      *)
(* session's token and held as an object URL, which keeps the bytes resident  *)
(* until it is revoked.  The effect's live flag is the call's own.  The       *)
(* browser may answer a fetch from its HTTP cache, by address.               *)
(***************************************************************************)
EXTENDS StoreThunks

CONSTANTS
  Keys,        \* what components may want: an offer's picture, at the version they read, or 0
               \* for a component that gives none; a version numbers the change an updatedAt is of
  UrlIds       \* object URLs

ASSUME PictureConstants == \A k \in Keys : k.version \in Nat

\* A URL for the picture shown and another for the next.
ASSUME UrlConstants == None \notin UrlIds /\ \E u, v \in UrlIds : u # v

VARIABLES
  wanted,    \* the key of the picture to show; None with no offer, picture or token
  fetched,   \* the state: the key a URL was fetched for, the URL, and what it is of
  created,   \* the URL the running effect made, for its cleanup
  urls,      \* the browser's object URLs not yet revoked
  stored,    \* offer-service: each offer's version, that of the picture it has now
  httpCache  \* the browser: the version of the response kept under an address, or 0

pictureVars == <<wanted, fetched, created, urls, stored, httpCache>>

PictureOffers == {k.offer : k \in Keys}
Addresses == PictureOffers \X ({0} \cup {k.version : k \in Keys})

\* Mutant: the version only in the effect's dependencies.
AddressUnversioned(key) == <<key.offer, 0>>

\* The version goes into the query string, which is left off with no version.
Address(key) == <<key.offer, key.version>>

NothingFetched == [key |-> None, url |-> None, of |-> None]

OfferPictureInit ==
  /\ wanted = None /\ created = None
  /\ fetched = NothingFetched
  /\ urls = {}
  /\ stored = [o \in PictureOffers |-> 1]
  /\ httpCache = [a \in Addresses |-> 0]

\* Mutant: a fetch whose effect was cleaned up goes on.
CleanedUpStillLive(flight) == flight

\* The effect's cleanup: live = false, and the URL given back.
CleanedUp(flight) == Orphaned(flight)
GivenBack == urls' = urls \ {created}

\* The effect, when what is wanted or the token changes.
Effect(key) ==
  /\ key = None \/ Room
  /\ wanted' = key
  /\ created' = None
  /\ GivenBack
  /\ calls' = IF key = None THEN CleanedUp(calls)
              ELSE Awaited(CleanedUp(calls), "image", key)

\* The component is given another offer or version, or none.  A version comes out of some
\* answer about the offer, however old.
Want(key) ==
  /\ key # wanted /\ (key # None => key.version <= stored[key.offer])
  /\ Effect(key) /\ UNCHANGED <<fetched, stored, httpCache>>

\* A refresh replaces the access token: the effect runs again for the same key.
TokenChanges == wanted # None /\ Effect(wanted) /\ UNCHANGED <<fetched, stored, httpCache>>

\* It leaves the page, and its state with it.
Unmount ==
  /\ wanted # None /\ fetched' = NothingFetched
  /\ Effect(None) /\ UNCHANGED <<stored, httpCache>>

\* The seller changes the offer, its picture or its terms: its updatedAt moves on.
\* (Bounded by the versions that are wanted.)
OfferUpdated(o) ==
  /\ \E k \in Keys : k.offer = o /\ k.version > stored[o]
  /\ stored' = [stored EXCEPT ![o] = @ + 1]
  /\ UNCHANGED <<calls, wanted, fetched, created, urls, httpCache>>

\* offer_image reads the id and no version: it answers with what is stored, to be kept
\* for five minutes.  Within them the browser may answer with what it has kept.
ServeImage(i) ==
  LET key == calls[i].arg
      kept == httpCache[Address(key)]
      now == stored[key.offer]
  IN  /\ On(i, "image")
      /\ \/ /\ kept # 0
            /\ Answer(i, [offer |-> key.offer, version |-> kept])
            /\ UNCHANGED httpCache
         \/ /\ Answer(i, [offer |-> key.offer, version |-> now])
            /\ httpCache' \in {httpCache, [httpCache EXCEPT ![Address(key)] = now]}
      /\ UNCHANGED <<wanted, fetched, created, urls, stored>>

\* An answer to the running effect makes a URL; a late one, or a failure, is dropped.
ImageLands(i) ==
  /\ calls[i].at \in {"fulfilled", "rejected"}
  /\ calls' = Done(i)
  /\ IF calls[i].own /\ calls[i].at = "fulfilled"
     THEN LET u == CHOOSE u \in UrlIds \ (urls \cup {fetched.url}) : TRUE
          IN  /\ created' = u
              /\ urls' = urls \cup {u}
              /\ fetched' = [key |-> calls[i].arg, url |-> u, of |-> calls[i].data]
     ELSE UNCHANGED <<created, urls, fetched>>
  /\ UNCHANGED <<wanted, stored, httpCache>>

\* What the hook returns.
Shown == IF fetched.key = wanted THEN fetched.url ELSE None

PictureActs ==
  \/ Unmount \/ TokenChanges
  \/ \E k \in Keys \cup {None} : Want(k)
  \/ \E o \in PictureOffers : OfferUpdated(o)

-----------------------------------------------------------------------------
\* What was fetched is the offer's picture, no older than the version asked for.
IsPictureOf(of, key) == of.offer = key.offer /\ of.version >= key.version

\* "A stale URL is never shown against a new offer", and no seller "who replaces their
\* picture would keep being served the old one from cache" (images.ts): what is shown is
\* the wanted offer's picture, at the version wanted or a later one, though offers change
\* under the fetch, answers overtake each other and the browser answers from its cache.
\* (The URL may be one already revoked, for a picture wanted, left and wanted again.)
ShownIsNotStale == Shown # None => IsPictureOf(fetched.of, wanted)
=============================================================================
