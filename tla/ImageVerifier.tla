----------------------------- MODULE ImageVerifier ----------------------------
(* The streaming verifier of signed firmware images (microtun-mcuboot): a       *)
(* container arrives in chunks of any size, its payload goes to a flash slot,   *)
(* its header, payload and protected TLVs to the digest; after the last piece   *)
(* the digest, signature and policy are checked, and then the slot is read      *)
(* back.  A unit stands for a word: three make the image header, two an area's  *)
(* info and two an entry's header.  A digest is the sequence it is a digest of. *)
EXTENDS Naturals, Sequences, SequencesExt, Optional

CONSTANTS
    Containers,   \* containers that arrive: sequences of units
    SigningKey, Vid, Cid, MinVersion, MaxImage,   \* the key and the Policy
    MaxProtected  \* MAX_PROTECTED_TLV_SIZE

VARIABLES
    container,    \* the container that arrives
    fed,          \* units of it fed so far
    piece,        \* what is left of the piece being fed
    verif,        \* StreamingVerifier
    stored,       \* the units the sink stored
    outcome       \* None, "accepted", or why not

imageVars == <<container, fed, piece, verif, stored, outcome>>

\* A unit is a name, a number, or a value: a name and what it is a digest of.
Value(name, digest) == [kind |-> "value", name |-> name, num |-> 0, digest |-> digest]
Named(kind, name) == [Value(name, <<>>) EXCEPT !.kind = kind]
Number(kind, num) == [Value("", <<>>) EXCEPT !.kind = kind, !.num = num]

Collected == {"KEYHASH", "SHA256", "ED25519", "SIG_PURE", "VID", "CID"}

\* The room of entry_value, in units: a value takes one, so that a longer one may
\* still fit.
EntryRoom == 2

NewArea == [info |-> <<>>, entry |-> <<>>, value |-> <<>>, consumed |-> 0]
AreaTotal(a) == a.info[2].num
AreaComplete(a) == Len(a.info) = 2 /\ a.consumed = AreaTotal(a)

NewVerifier ==
    [header |-> <<>>, offset |-> 0, protected |-> NewArea, regular |-> NewArea,
     hashed |-> <<>>, kept |-> <<>>, complete |-> FALSE,
     found |-> [t \in Collected |-> None]]

Lesser(a, b) == IF a <= b THEN a ELSE b
First(s, n) == SubSeq(s, 1, Lesser(n, Len(s)))
Beyond(s, n) == SubSeq(s, n + 1, Len(s))

-------------------------------------------------------------------------------
\* Mutant: an image that fills the slot is refused.
HeaderErrorAtLimit(h) ==
    IF h[1].kind # "version" THEN "header"
    ELSE IF h[2].num = 0 THEN "empty"
    ELSE IF h[3].num = 1 THEN "protected size"
    ELSE IF h[2].num >= MaxImage THEN "too large"
    ELSE IF h[3].num > MaxProtected THEN "protected too large"
    ELSE None

\* ImageHeader::parse and the checks on the header that feed makes: the error.
HeaderError(h) ==
    IF h[1].kind # "version" THEN "header"
    ELSE IF h[2].num = 0 THEN "empty"
    ELSE IF h[3].num = 1 THEN "protected size"
    ELSE IF h[2].num > MaxImage THEN "too large"
    ELSE IF h[3].num > MaxProtected THEN "protected too large"
    ELSE None

Size == verif.header[2].num
ProtectedSize == verif.header[3].num

\* TlvArea::finish_entry: which entries count where, and set_once_array.
FinishEntry(isProtected, a, found) ==
    LET t == a.entry[1].name
        here == t \in (IF isProtected THEN {"VID", "CID"} ELSE Collected \ {"VID", "CID"})
    IN  IF here /\ t # "SIG_PURE" /\ Len(a.value) # 1 THEN [error |-> "length", found |-> found]
        ELSE IF here /\ t # "SIG_PURE" /\ found[t] # None THEN [error |-> "duplicate", found |-> found]
        ELSE [error |-> None,
              found |-> IF here THEN [found EXCEPT ![t] = <<a.value>>] ELSE found]

\* One pass of TlvArea::feed over the units `in` of an area of known total, or None.
AreaFeed(isProtected, a, expected, found, in) ==
    LET Result(area, fnd, take, err) == [area |-> area, found |-> fnd, take |-> take, error |-> err]
        Ended(area, take) ==
            LET e == FinishEntry(isProtected, area, found)
            IN  Result([area EXCEPT !.entry = <<>>, !.value = <<>>], e.found, take, e.error)
    IN  IF Len(a.info) < 2
        THEN LET take == Lesser(2 - Len(a.info), Len(in))
                 b == [a EXCEPT !.info = @ \o First(in, take), !.consumed = @ + take]
             IN  Result(b, found, take,
                        IF Len(b.info) < 2 THEN None
                        ELSE IF b.info[1].name # (IF isProtected THEN "PROTECTED" ELSE "INFO") THEN "magic"
                        ELSE IF AreaTotal(b) < 2 \/ expected \notin {None, <<AreaTotal(b)>>} THEN "area size"
                        ELSE None)
        ELSE IF Len(a.entry) < 2
        THEN IF AreaTotal(a) - a.consumed < 2 - Len(a.entry) THEN Result(a, found, 0, "truncated")
             ELSE LET take == Lesser(2 - Len(a.entry), Len(in))
                      b == [a EXCEPT !.entry = @ \o First(in, take), !.consumed = @ + take]
                  IN  IF Len(b.entry) < 2 THEN Result(b, found, take, None)
                      ELSE IF b.entry[2].num > AreaTotal(b) - b.consumed THEN Result(b, found, take, "truncated")
                      ELSE IF b.entry[1].name \in Collected /\ b.entry[2].num > EntryRoom
                      THEN Result(b, found, take, "length")
                      ELSE IF b.entry[2].num = 0 THEN Ended(b, take)
                      ELSE Result(b, found, take, None)
        ELSE LET take == Lesser(a.entry[2].num - Len(a.value), Len(in))
                 b == [a EXCEPT !.value = @ \o First(in, take), !.consumed = @ + take]
             IN  IF Len(b.value) = b.entry[2].num THEN Ended(b, take) ELSE Result(b, found, take, None)

-------------------------------------------------------------------------------
Fails(why) == outcome' = why /\ UNCHANGED <<verif, stored, piece>>

\* The next piece comes in: any part of what is left.
Arrives ==
    /\ outcome = None /\ piece = <<>> /\ fed < Len(container)
    /\ \E n \in 1..(Len(container) - fed) :
       /\ piece' = SubSeq(container, fed + 1, fed + n)
       /\ fed' = fed + n
    /\ UNCHANGED <<container, verif, stored, outcome>>

Feeding == outcome = None /\ piece # <<>>

FeedPadding ==
    /\ Feeding /\ verif.complete
    /\ IF \A i \in DOMAIN piece : piece[i].kind = "pad"
       THEN piece' = <<>> /\ UNCHANGED <<verif, stored, outcome>>
       ELSE Fails("padding")
    /\ UNCHANGED <<container, fed>>

FeedHeader ==
    /\ Feeding /\ Len(verif.header) < 3
    /\ LET take == Lesser(3 - Len(verif.header), Len(piece))
           h == verif.header \o First(piece, take)
       IN  IF Len(h) = 3 /\ HeaderError(h) # None THEN Fails(HeaderError(h))
           ELSE /\ verif' = [verif EXCEPT !.header = h, !.hashed = @ \o First(piece, take)]
                /\ piece' = Beyond(piece, take)
                /\ UNCHANGED <<stored, outcome>>
    /\ UNCHANGED <<container, fed>>

\* hasher.update of what is consumed.
Hashed(take) == First(piece, take)

\* The sink stores the units, or fails; a unit may end up wrong in the flash.
FeedPayload ==
    /\ Feeding /\ Len(verif.header) = 3 /\ verif.offset < Size
    /\ LET take == Lesser(Size - verif.offset, Len(piece)) IN
       \/ Fails("sink")
       \/ /\ \/ stored' = stored \o First(piece, take)
             \/ stored' = stored \o [i \in 1..take |-> Named("payload", "worn")]
          /\ verif' = [verif EXCEPT !.offset = @ + take, !.hashed = @ \o Hashed(take)]
          /\ piece' = Beyond(piece, take)
          /\ UNCHANGED outcome
    /\ UNCHANGED <<container, fed>>

PayloadDone == Len(verif.header) = 3 /\ verif.offset = Size /\ ~verif.complete
InProtected == ProtectedSize # 0 /\ ~AreaComplete(verif.protected)

FeedProtected ==
    /\ Feeding /\ PayloadDone /\ InProtected
    /\ LET in == First(piece, Lesser(ProtectedSize - verif.protected.consumed, Len(piece)))
           r == AreaFeed(TRUE, verif.protected, <<ProtectedSize>>, verif.found, in)
       IN  IF r.error # None THEN Fails(r.error)
           ELSE /\ verif' = [verif EXCEPT !.protected = r.area, !.found = r.found,
                                  !.hashed = @ \o Hashed(r.take), !.kept = @ \o First(in, r.take)]
                /\ piece' = Beyond(piece, r.take)
                /\ UNCHANGED <<stored, outcome>>
    /\ UNCHANGED <<container, fed>>

FeedRegular ==
    /\ Feeding /\ PayloadDone /\ ~InProtected
    /\ LET r == AreaFeed(FALSE, verif.regular, None, verif.found, piece)
       IN  IF r.error # None THEN Fails(r.error)
           ELSE /\ verif' = [verif EXCEPT !.regular = r.area, !.found = r.found, !.complete = AreaComplete(r.area)]
                /\ piece' = Beyond(piece, r.take)
                /\ UNCHANGED <<stored, outcome>>
    /\ UNCHANGED <<container, fed>>

\* StreamingVerifier::finish: authenticity first, the policy after.
Verdict ==
    LET f == verif.found
        Is(t, value) == f[t] = <<<<value>>>>
        digest == verif.hashed
    IN  IF ~verif.complete THEN "incomplete"
        ELSE IF f["SIG_PURE"] # None THEN "pure signature"
        ELSE IF None \in {f["SHA256"], f["KEYHASH"], f["ED25519"]} THEN "missing"
        ELSE IF ~Is("KEYHASH", Value(SigningKey, <<>>)) THEN "key"
        ELSE IF ~Is("SHA256", Value("", digest)) THEN "hash"
        ELSE IF ~Is("ED25519", Value(SigningKey, digest)) THEN "signature"
        ELSE IF ~Is("VID", Value(Vid, <<>>)) \/ ~Is("CID", Value(Cid, <<>>)) THEN "identity"
        ELSE IF verif.header[1].num < MinVersion THEN "version"
        ELSE None

\* verify_stored_image: the digest again, with the payload read back.
StoredDigest == verif.header \o First(stored, Size) \o verif.kept

\* The container was read: receive_firmware_update goes on to finish and read back.
Finish ==
    /\ outcome = None /\ piece = <<>> /\ fed = Len(container)
    /\ outcome' = IF Verdict # None THEN Verdict
                  ELSE IF StoredDigest # verif.hashed THEN "stored"
                  ELSE "accepted"
    /\ UNCHANGED <<container, fed, piece, verif, stored>>

ImageInit ==
    /\ container \in Containers
    /\ fed = 0 /\ piece = <<>> /\ verif = NewVerifier /\ stored = <<>> /\ outcome = None

ImageNext ==
    \/ Arrives \/ FeedPadding \/ FeedHeader \/ FeedPayload \/ FeedProtected \/ FeedRegular
    \/ Finish

ImageSpec == ImageInit /\ [][ImageNext]_imageVars

-------------------------------------------------------------------------------
(* What a release is, by position in the container.                             *)

\* Where the entries of an area begin, its end included: each follows the one before.
EntryStarts(area) ==
    LET begins[i \in 3 .. Len(area) + 1] ==
            i = 3 \/ \E j \in 3 .. i - 2 : begins[j] /\ i = j + 2 + area[j + 1].num
    IN  {i \in 3 .. Len(area) + 1 : begins[i]}

ValueAt(area, i) == SubSeq(area, i + 2, i + 1 + area[i + 1].num)
OfType(area, t) == {i \in EntryStarts(area) \ {Len(area) + 1} : area[i].name = t}

\* The area is as long as it says and full of entries that fit.
IsArea(area, magic) ==
    /\ area[1].name = magic /\ area[2].num = Len(area) /\ Len(area) + 1 \in EntryStarts(area)
    /\ \A t \in Collected : \A i \in OfType(area, t) : area[i + 1].num <= EntryRoom

\* Exactly one entry of the type, and this is its value.
HasOnce(area, t, value) ==
    \E i \in OfType(area, t) : OfType(area, t) = {i} /\ ValueAt(area, i) = <<value>>

\* The container is a release for this device: whole and well formed, signed with its
\* key over its own contents, for this vendor and component, not older than what runs,
\* and with nothing but padding behind.
IsRelease(c) ==
    LET covered == First(c, 3 + c[2].num + c[3].num)
        ids == Beyond(covered, 3 + c[2].num)
        rest == Beyond(c, Len(covered))
        proof == First(rest, rest[2].num)
    IN  /\ c[1].kind = "version" /\ c[1].num >= MinVersion
        /\ c[2].num \in 1 .. MaxImage /\ c[3].num <= MaxProtected
        /\ Len(rest) >= 2 /\ Len(ids) >= 2 /\ IsArea(ids, "PROTECTED") /\ IsArea(proof, "INFO")
        /\ HasOnce(ids, "VID", Value(Vid, <<>>)) /\ HasOnce(ids, "CID", Value(Cid, <<>>))
        /\ HasOnce(proof, "KEYHASH", Value(SigningKey, <<>>))
        /\ HasOnce(proof, "SHA256", Value("", covered))
        /\ HasOnce(proof, "ED25519", Value(SigningKey, covered))
        /\ OfType(proof, "SIG_PURE") = {}
        /\ \A i \in DOMAIN Beyond(rest, Len(proof)) : Beyond(rest, Len(proof))[i].kind = "pad"

(* Only a release can be installed, and a release is never refused but for the  *)
(* flash: an accepted container is a whole release and the slot holds its       *)
(* payload, unit for unit, and a release is accepted or fails in the sink or the *)
(* read-back, however it is cut into chunks.                                    *)
OnlyReleases ==
    /\ outcome = "accepted" =>
          /\ IsRelease(container)
          /\ First(stored, Size) = SubSeq(container, 4, 3 + Size)
    /\ outcome # None /\ IsRelease(container) => outcome \in {"accepted", "sink", "stored"}
===============================================================================
