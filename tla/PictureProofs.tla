---------------------------- MODULE PictureProofs ----------------------------
(***************************************************************************)
(* The proofs that the application keeps no object URL but the ones on show, *)
(* and shows no picture of another offer or older than the one wanted, for   *)
(* any number of calls in flight, offers, versions and files.                *)
(***************************************************************************)
EXTENDS StorePages, TLAPS

ThunkFields == {"thunk", "arg", "at", "data", "own"}

\* A version that is wanted has been stored.
KeyFits(key, versions) == key \in Keys /\ key.version <= versions[key.offer]

\* So what offer-service answers a fetch with is no older than it asks for.
FetchFits(call, versions) ==
  /\ call.at = "wire" => KeyFits(call.arg, versions)
  /\ call.at = "fulfilled" => IsPictureOf(call.data, call.arg)

\* Nor is anything the browser keeps under an address that names a version.
CacheFits(cache) ==
  /\ cache \in [Addresses -> Nat]
  /\ \A a \in Addresses : cache[a] # 0 => cache[a] >= a[2]

\* At most one fetch is the running effect's, and none is once the effect has its URL: a
\* second URL would be made over the first, which nobody could then give back.
OneLiveFetch ==
  /\ DOMAIN calls = CallSlots
  /\ \A i \in CallSlots : DOMAIN calls[i] = ThunkFields
  /\ \A i, j \in CallSlots : calls[i].own = TRUE /\ calls[j].own = TRUE => i = j
  /\ \A i \in CallSlots : calls[i].own = TRUE => created = None
  /\ \A i \in CallSlots : FetchFits(calls[i], stored)

\* Only the tour of the pictures fetches them, and only the field's makes previews.
PictureInv ==
  /\ UrlsAreGivenBack /\ None \notin urls
  /\ stored \in [PictureOffers -> Nat] /\ CacheFits(httpCache)
  /\ wanted # None => KeyFits(wanted, stored)
  /\ fetched.url # None => IsPictureOf(fetched.of, fetched.key)
  /\ tour = "picture" => OneLiveFetch /\ preview = None

\* A dispatch after the cleanup is the only fetch that is live.
LEMMA EffectLeavesOneLive ==
  ASSUME OneLiveFetch, NEW key, Effect(key), key # None => KeyFits(key, stored),
         UNCHANGED stored
  PROVE  OneLiveFetch'
<1> DEFINE clean == CleanedUp(calls)
<1>1. /\ DOMAIN clean = CallSlots
      /\ \A i \in CallSlots :
           /\ DOMAIN clean[i] = ThunkFields /\ clean[i].own = FALSE
           /\ clean[i].at = calls[i].at /\ clean[i].data = calls[i].data
           /\ clean[i].arg = calls[i].arg
  BY DEF OneLiveFetch, CleanedUp, Orphaned, ThunkFields
<1>0. \A i \in CallSlots : FetchFits(clean[i], stored)
  BY <1>1 DEF OneLiveFetch, FetchFits
<1> HIDE DEF clean
<1>2. created' = None
  BY DEF Effect
<1>3. CASE key = None
  <2>1. calls' = clean
    BY <1>3 DEF Effect, clean
  <2>2. QED
    BY <1>0, <1>1, <1>2, <2>1 DEF OneLiveFetch
<1>4. CASE key # None
  <2> DEFINE slot == CHOOSE i \in FreeIn(clean) : TRUE
             call == [thunk |-> "image", arg |-> key, at |-> "wire", data |-> None, own |-> TRUE]
  <2>1. calls' = [clean EXCEPT ![slot] = call]
    BY <1>4 DEF Effect, Awaited, Put, clean
  <2>2. DOMAIN call = ThunkFields /\ FetchFits(call, stored)
    BY <1>4 DEF ThunkFields, FetchFits
  <2> HIDE DEF slot, call
  <2>3. DOMAIN calls' = CallSlots
    BY <1>1, <2>1
  <2>4. \A i \in CallSlots : calls'[i] = IF i = slot THEN call ELSE clean[i]
    BY <1>1, <2>1
  <2>5. QED
    BY <1>0, <1>1, <1>2, <2>2, <2>3, <2>4 DEF OneLiveFetch
<1>5. QED
  BY <1>3, <1>4

\* An answer or a failure that stays in its slot changes no fetch's owner.
LEMMA StampKeepsOwners ==
  ASSUME OneLiveFetch, NEW i \in CallSlots, NEW data,
         (Answer(i, data) /\ IsPictureOf(data, calls[i].arg)) \/ Refuse(i, data),
         UNCHANGED <<created, stored>>
  PROVE  OneLiveFetch'
<1>1. /\ DOMAIN calls' = CallSlots
      /\ \A j \in CallSlots :
           /\ DOMAIN calls'[j] = ThunkFields /\ calls'[j].own = calls[j].own
           /\ j # i => calls'[j] = calls[j]
  BY DEF OneLiveFetch, Answer, Refuse, ThunkFields
<1>2. \/ calls'[i].at = "rejected"
      \/ /\ calls'[i].at = "fulfilled" /\ calls'[i].data = data
         /\ calls'[i].arg = calls[i].arg /\ IsPictureOf(data, calls[i].arg)
  BY DEF OneLiveFetch, Answer, Refuse, ThunkFields
<1>3. FetchFits(calls'[i], stored)
  BY <1>2 DEF FetchFits
<1>4. QED
  BY <1>1, <1>3 DEF OneLiveFetch

\* The endpoint's answer or the cache's fits, and what the browser keeps of it.
LEMMA ServedFits ==
  ASSUME OneLiveFetch, stored \in [PictureOffers -> Nat], CacheFits(httpCache),
         NEW i \in CallSlots, ServeImage(i)
  PROVE  OneLiveFetch' /\ CacheFits(httpCache')
<1> DEFINE key == calls[i].arg
           a == Address(calls[i].arg)
           now == stored[calls[i].arg.offer]
           kept == httpCache[Address(calls[i].arg)]
<1>1. KeyFits(key, stored) /\ UNCHANGED <<created, stored>>
  BY DEF ServeImage, On, OneLiveFetch, FetchFits
<1>2. a \in Addresses /\ a[2] = key.version /\ key.version \in Nat
  BY <1>1, PictureConstants DEF KeyFits, Address, Addresses, PictureOffers
<1>3. now \in Nat /\ now >= key.version
  BY <1>1, <1>2 DEF KeyFits, PictureOffers
<1>4. kept # 0 => kept >= key.version
  BY <1>2 DEF CacheFits
<1>5. /\ \/ kept # 0 /\ Answer(i, [offer |-> key.offer, version |-> kept])
         \/ Answer(i, [offer |-> key.offer, version |-> now])
      /\ httpCache' = httpCache \/ httpCache' = [httpCache EXCEPT ![a] = now]
  BY DEF ServeImage
<1> HIDE DEF a, now, kept
<1>6. CacheFits(httpCache')
  <2>1. CASE httpCache' = httpCache
    BY <2>1
  <2>2. CASE httpCache' = [httpCache EXCEPT ![a] = now]
    BY <1>2, <1>3, <2>2 DEF CacheFits
  <2>3. QED
    BY <1>5, <2>1, <2>2
<1>7. PICK version : /\ Answer(i, [offer |-> key.offer, version |-> version])
                     /\ version >= key.version
  BY <1>3, <1>4, <1>5
<1>8. IsPictureOf([offer |-> key.offer, version |-> version], key)
  BY <1>7 DEF IsPictureOf
<1>9. OneLiveFetch'
  BY <1>1, <1>7, <1>8, StampKeepsOwners
<1>10. QED
  BY <1>6, <1>9

\* The landing of a fetch frees its slot; if it was the live one, none is left.
LEMMA LandingKeepsInv ==
  ASSUME OneLiveFetch, UrlsAreGivenBack, None \notin urls, preview = None,
         fetched.url # None => IsPictureOf(fetched.of, fetched.key),
         NEW i \in CallSlots, ImageLands(i), preview' = preview
  PROVE  /\ OneLiveFetch' /\ UrlsAreGivenBack' /\ None \notin urls'
         /\ fetched'.url # None => IsPictureOf(fetched'.of, fetched'.key)
<1>0. UNCHANGED stored
  BY DEF ImageLands
<1>1. DOMAIN NoThunk = ThunkFields /\ NoThunk.own = FALSE /\ FetchFits(NoThunk, stored)
  BY ThunkConstants DEF NoThunk, ThunkFields, FetchFits
<1>2. /\ DOMAIN calls' = CallSlots
      /\ \A j \in CallSlots : calls'[j] = IF j = i THEN NoThunk ELSE calls[j]
  BY DEF ImageLands, Done, OneLiveFetch
<1>3. CASE calls[i].own /\ calls[i].at = "fulfilled"
  <2> DEFINE u == CHOOSE u \in UrlIds \ (urls \cup {fetched.url}) : TRUE
  <2>1. /\ created' = u /\ urls' = urls \cup {u}
        /\ fetched' = [key |-> calls[i].arg, url |-> u, of |-> calls[i].data]
    BY <1>3 DEF ImageLands
  <2>0. urls = {} => u \in UrlIds
    BY UrlConstants
  <2> HIDE DEF u
  <2>2. created = None /\ \A j \in CallSlots : j # i => calls[j].own # TRUE
    BY <1>3 DEF OneLiveFetch
  <2>3. OneLiveFetch'
    BY <1>0, <1>1, <1>2, <2>2 DEF OneLiveFetch
  <2>4. urls = {}
    BY <2>2 DEF UrlsAreGivenBack
  <2>5. UrlsAreGivenBack' /\ None \notin urls'
    BY <2>0, <2>1, <2>4, UrlConstants DEF UrlsAreGivenBack
  <2>6. IsPictureOf(fetched'.of, fetched'.key)
    BY <1>3, <2>1 DEF OneLiveFetch, FetchFits
  <2>7. QED
    BY <2>3, <2>5, <2>6
<1>4. CASE ~(calls[i].own /\ calls[i].at = "fulfilled")
  <2>1. created' = created /\ urls' = urls /\ fetched' = fetched
    BY <1>4 DEF ImageLands
  <2>2. OneLiveFetch'
    BY <1>0, <1>1, <1>2, <2>1 DEF OneLiveFetch
  <2>3. UrlsAreGivenBack' /\ None \notin urls'
    BY <2>1 DEF UrlsAreGivenBack
  <2>4. QED
    BY <2>1, <2>2, <2>3
<1>5. QED
  BY <1>3, <1>4

\* The hook's steps.
LEMMA PictureStep ==
  ASSUME PictureInv, tour = "picture", ForPicture(PictureActs)
  PROVE  PictureInv'
<1>1. OneLiveFetch /\ preview = None /\ tour' = tour /\ preview' = preview
  BY DEF PictureInv, ForPicture, fieldVars
<1>2. ASSUME NEW o \in PictureOffers, OfferUpdated(o)
      PROVE  PictureInv'
  <2>1. /\ stored' = [stored EXCEPT ![o] = @ + 1]
        /\ UNCHANGED <<calls, wanted, fetched, created, urls, httpCache>>
    BY <1>2 DEF OfferUpdated
  <2>2. /\ stored' \in [PictureOffers -> Nat]
        /\ \A p \in PictureOffers : stored'[p] >= stored[p]
    BY <2>1 DEF PictureInv
  <2>3. ASSUME NEW key, KeyFits(key, stored)
        PROVE  KeyFits(key, stored')
    <3>1. key \in Keys /\ key.version \in Nat /\ key.offer \in PictureOffers
      BY <2>3, PictureConstants DEF KeyFits, PictureOffers
    <3>2. stored[key.offer] \in Nat /\ stored'[key.offer] \in Nat
      BY <2>2, <3>1 DEF PictureInv
    <3>3. QED
      BY <2>2, <2>3, <3>1, <3>2 DEF KeyFits
  <2>4. OneLiveFetch'
    <3>1. \A i \in CallSlots : FetchFits(calls[i], stored')
      BY <1>1, <2>3 DEF OneLiveFetch, FetchFits
    <3>2. QED
      BY <1>1, <2>1, <3>1 DEF OneLiveFetch
  <2>5. QED
    BY <1>1, <2>1, <2>2, <2>3, <2>4 DEF PictureInv, UrlsAreGivenBack
<1>3. ASSUME NEW key, Effect(key), key # None => KeyFits(key, stored),
             UNCHANGED <<stored, httpCache>>, UNCHANGED fetched \/ fetched' = NothingFetched
      PROVE  PictureInv'
  <2>1. OneLiveFetch'
    BY <1>1, <1>3, EffectLeavesOneLive
  <2>2. UrlsAreGivenBack' /\ None \notin urls'
    BY <1>1, <1>3 DEF PictureInv, UrlsAreGivenBack, Effect, GivenBack
  <2>3. fetched'.url # None => IsPictureOf(fetched'.of, fetched'.key)
    BY <1>3 DEF PictureInv, NothingFetched
  <2>4. wanted' = key
    BY <1>3 DEF Effect
  <2>5. QED
    BY <1>1, <1>3, <2>1, <2>2, <2>3, <2>4 DEF PictureInv
<1>4. CASE Unmount \/ TokenChanges
  BY <1>3, <1>4 DEF Unmount, TokenChanges, PictureInv
<1>5. ASSUME NEW key \in Keys \cup {None}, Want(key)
      PROVE  PictureInv'
  BY <1>3, <1>5 DEF Want, KeyFits
<1>6. QED
  BY <1>2, <1>4, <1>5 DEF ForPicture, PictureActs

\* The field's steps: the only URL it adds is the preview's.
LEMMA FieldStep ==
  ASSUME PictureInv, tour = "field", ForField(FieldActs)
  PROVE  PictureInv'
<1>1. /\ tour' = tour /\ created' = created /\ fetched' = fetched
      /\ UNCHANGED <<wanted, stored, httpCache>>
  BY DEF ForField, FieldActs
<1>2. \/ \E shown, blob : Previewed(shown, blob)
      \/ UNCHANGED <<preview, urls>>
  BY DEF ForField, FieldActs, OpenField, CloseField, Remove, SendForm, FormSent, Choose,
         Read, Chosen
<1>3. UrlsAreGivenBack' /\ None \notin urls'
  <2>1. CASE UNCHANGED <<preview, urls>>
    BY <1>1, <2>1 DEF PictureInv, UrlsAreGivenBack
  <2>2. ASSUME NEW shown, NEW blob, Previewed(shown, blob)
        PROVE  UrlsAreGivenBack' /\ None \notin urls'
    <3>1. urls' = (urls \ {preview}) \cup ({preview'} \ {None})
      BY <2>2 DEF Previewed
    <3>2. QED
      BY <1>1, <3>1 DEF PictureInv, UrlsAreGivenBack
  <2>3. QED
    BY <1>2, <2>1, <2>2
<1>4. QED
  BY <1>1, <1>3 DEF PictureInv

\* A step of another tour touches neither the pictures nor the field.
LEMMA OtherTours ==
  ASSUME PictureInv, tour # "picture", UNCHANGED <<tour, pictureVars, fieldVars>>
  PROVE  PictureInv'
BY DEF PictureInv, UrlsAreGivenBack, pictureVars, fieldVars

\* The invariant of the pictures.
LEMMA PicturesKept == Spec => []PictureInv
<1>1. Init => PictureInv
  <2> SUFFICES ASSUME Init PROVE PictureInv
    OBVIOUS
  <2>1. /\ urls = {} /\ preview = None /\ fetched.url = None /\ wanted = None
        /\ stored \in [PictureOffers -> Nat] /\ CacheFits(httpCache)
    BY DEF Init, OfferPictureInit, PictureFieldInit, NothingFetched, CacheFits
  <2>2. calls = [i \in CallSlots |-> NoThunk]
    BY DEF Init, NothingInFlight
  <2>3. DOMAIN NoThunk = ThunkFields /\ NoThunk.own = FALSE /\ FetchFits(NoThunk, stored)
    BY ThunkConstants DEF NoThunk, ThunkFields, FetchFits
  <2>4. OneLiveFetch
    BY <2>2, <2>3 DEF OneLiveFetch
  <2>5. QED
    BY <2>1, <2>4 DEF PictureInv, UrlsAreGivenBack
<1>2. PictureInv /\ [Next]_vars => PictureInv'
  <2> SUFFICES ASSUME PictureInv, [Next]_vars
               PROVE  PictureInv'
    OBVIOUS
  <2>1. CASE UserActs
    BY <2>1, PictureStep, FieldStep, OtherTours
    DEF UserActs, ForShop, ForOffers, ForDesk, ForInbox
  <2>2. CASE Timers
    BY <2>2, OtherTours DEF Timers, ForShop, ShopTours
  <2>3. ASSUME NEW i \in CallSlots, Serve(i)
        PROVE  PictureInv'
    <3>1. CASE tour = "picture" /\ ForPicture(ServeImage(i))
      <4>1. /\ ServeImage(i) /\ UNCHANGED <<tour, fieldVars>>
            /\ UNCHANGED <<wanted, fetched, created, urls, stored>>
        BY <3>1 DEF ForPicture, ServeImage
      <4>2. OneLiveFetch' /\ CacheFits(httpCache')
        BY <3>1, <4>1, ServedFits DEF PictureInv
      <4>3. QED
        BY <4>1, <4>2 DEF PictureInv, UrlsAreGivenBack, fieldVars
    <3>2. CASE tour # "picture"
      BY <2>3, <3>2, OtherTours DEF Serve, ForShop, ForOffers, ForDesk, ForInbox
    <3>3. QED
      BY <2>3, <3>1, <3>2 DEF Serve, ShopTours, DeskTours
  <2>4. ASSUME NEW i \in CallSlots, Settle(i)
        PROVE  PictureInv'
    <3>1. CASE tour = "picture" /\ ForPicture(ImageLands(i))
      <4>1. ImageLands(i) /\ UNCHANGED <<tour, fieldVars>> /\ UNCHANGED <<wanted, stored, httpCache>>
        BY <3>1 DEF ForPicture, ImageLands
      <4>2. /\ OneLiveFetch' /\ UrlsAreGivenBack' /\ None \notin urls'
            /\ fetched'.url # None => IsPictureOf(fetched'.of, fetched'.key)
        BY <3>1, <4>1, LandingKeepsInv DEF PictureInv, fieldVars
      <4>3. QED
        BY <4>1, <4>2 DEF PictureInv, fieldVars
    <3>2. CASE tour # "picture"
      BY <2>4, <3>2, OtherTours DEF Settle, ForShop, ForOffers, ForDesk, ForInbox
    <3>3. QED
      BY <2>4, <3>1, <3>2 DEF Settle, ShopTours, DeskTours
  <2>5. ASSUME NEW i \in CallSlots, Fail(i)
        PROVE  PictureInv'
    <3>1. Refuse(i, None) /\ UNCHANGED <<tour, pictureVars, fieldVars>>
      BY <2>5 DEF Fail, FailThunk
    <3>2. CASE tour = "picture"
      <4>1. OneLiveFetch'
        BY <3>1, <3>2, StampKeepsOwners DEF PictureInv, pictureVars
      <4>2. QED
        BY <3>1, <4>1 DEF PictureInv, UrlsAreGivenBack, pictureVars, fieldVars
    <3>3. QED
      BY <3>1, <3>2, OtherTours
  <2>6. CASE UNCHANGED vars
    BY <2>6 DEF vars, PictureInv, UrlsAreGivenBack, OneLiveFetch, pictureVars, fieldVars
  <2>7. QED
    BY <2>1, <2>2, <2>3, <2>4, <2>5, <2>6 DEF Next
<1>3. QED
  BY <1>1, <1>2, PTL DEF Spec

\* Whatever is fetched, chosen, replaced, overtaken or abandoned, the browser keeps the
\* bytes of what is on show and no others (the cleanups of images.ts and image-field.tsx).
THEOREM UrlsGivenBack == Spec => []UrlsAreGivenBack
<1>1. PictureInv => UrlsAreGivenBack
  BY DEF PictureInv
<1>2. QED
  BY <1>1, PicturesKept, PTL

\* The URL useOfferImage returns is of the offer wanted, and of its picture as it was at
\* the version wanted or later, whichever offers it was given before, whichever answers
\* overtook each other and whatever the browser had kept (images.ts).
THEOREM NoStalePicture == Spec => []ShownIsNotStale
<1>1. PictureInv => ShownIsNotStale
  BY DEF PictureInv, ShownIsNotStale, Shown
<1>2. QED
  BY <1>1, PicturesKept, PTL
=============================================================================
