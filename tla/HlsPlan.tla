------------------------------- MODULE HlsPlan -------------------------------
(***************************************************************************)
(* What an HLS playlist is read as (hls.rs), what is planned from it        *)
(* (plan.rs), and the choices it offers (presentation.rs, selection.rs).    *)
(*                                                                         *)
(* A playlist is a sequence of lines, each one a record: the name of its    *)
(* tag (or "URI" for a line that is none) and what the tag declares, its    *)
(* attributes already split. A tag whose attributes do not parse is the     *)
(* line "BAD", and so is a URI that holds its data. A resolution is one      *)
(* number, a codec list whether it names AAC. The header line and unknown   *)
(* tags, which only admit or skip text, are left out.                       *)
(***************************************************************************)
EXTENDS SegmentPlan

ResourceRef(uri, range) == [uri |-> uri, range |-> range]

(***************************************************************************)
(* Parsing, a line at a time.                                               *)
(***************************************************************************)

Start ==
    [variants |-> <<>>, renditions |-> <<>>, segments |-> <<>>,
     ended |-> FALSE, master |-> FALSE, media |-> FALSE,
     streamInf |-> None, duration |-> None, range |-> None,
     discontinuity |-> FALSE, key |-> FALSE, map |-> None,
     sequence |-> 0, lastEnd |-> None, failed |-> FALSE]

(* Where a range without an offset starts: where the previous range ended,  *)
(* if it was of the same resource.                                          *)
Continued(s, uri) ==
    IF \E r \in s.range : r.offset # None
    THEN The(s.range).offset
    ELSE {e.at : e \in {x \in s.lastEnd : s.range # None /\ x.uri = uri}}

SegmentLine_KeepsRange(s, uri) ==
    LET range == {ByteRange(r.length, Continued(s, uri)) : r \in s.range}
    IN  IF Len(s.segments) >= MaxSegments
        THEN [s EXCEPT !.failed = TRUE]
        ELSE [s EXCEPT
                !.segments = Append(@,
                    [resource |-> ResourceRef(uri, range), duration |-> s.duration,
                     sequence |-> s.sequence, init |-> s.map, encrypted |-> s.key,
                     discontinuity |-> s.discontinuity]),
                !.lastEnd = {[uri |-> uri, at |-> OrElse(r.offset, 0) + r.length] : r \in range},
                !.duration = None, !.sequence = @ + 1,
                !.discontinuity = FALSE, !.media = TRUE]

SegmentLine(s, uri) ==
    LET range == {ByteRange(r.length, Continued(s, uri)) : r \in s.range}
    IN  IF Len(s.segments) >= MaxSegments
        THEN [s EXCEPT !.failed = TRUE]
        ELSE [s EXCEPT
                !.segments = Append(@,
                    [resource |-> ResourceRef(uri, range), duration |-> s.duration,
                     sequence |-> s.sequence, init |-> s.map, encrypted |-> s.key,
                     discontinuity |-> s.discontinuity]),
                !.lastEnd = {[uri |-> uri, at |-> OrElse(r.offset, 0) + r.length] : r \in range},
                !.range = None, !.duration = None, !.sequence = @ + 1,
                !.discontinuity = FALSE, !.media = TRUE]

Variant(attributes, uri) ==
    [uri |-> uri, bandwidth |-> attributes.bandwidth,
     resolution |-> attributes.resolution, aac |-> attributes.aac,
     group |-> attributes.group]

VariantLine(s, uri) ==
    IF s.range # None
    THEN [s EXCEPT !.failed = TRUE]
    ELSE [s EXCEPT !.variants = Append(@, Variant(The(s.streamInf), uri)),
                   !.streamInf = None, !.master = TRUE]

UriLine(s, line) ==
    IF s.streamInf # None THEN VariantLine(s, line.uri) ELSE SegmentLine(s, line.uri)

(* A key of method NONE ends the encryption of what follows it.              *)
IsEncrypted(key) == key.method # "NONE"

KeyLine(s, line) == [s EXCEPT !.key = IsEncrypted(line), !.media = TRUE]
MapLine(s, line) == [s EXCEPT !.map = Some(ResourceRef(line.uri, line.range)), !.media = TRUE]

(* Every tag that is known, and every line that is none, says which kind of *)
(* playlist it is of: master or media.                                       *)
ReadLine(s, line) ==
    CASE s.failed -> s
      [] line.tag = "BAD" -> [s EXCEPT !.failed = TRUE]
      [] line.tag = "URI" -> UriLine(s, line)
      [] line.tag = "STREAM-INF" -> [s EXCEPT !.streamInf = Some(line), !.master = TRUE]
      [] line.tag = "I-FRAME-STREAM-INF" -> [s EXCEPT !.master = TRUE]
      [] line.tag = "MEDIA" -> [s EXCEPT !.renditions = Append(@, line), !.master = TRUE]
      [] line.tag = "EXTINF" -> [s EXCEPT !.duration = Some(line.millis), !.media = TRUE]
      [] line.tag = "BYTERANGE" ->
            IF line.length = 0
            THEN [s EXCEPT !.failed = TRUE]
            ELSE [s EXCEPT !.range = Some(ByteRange(line.length, line.offset)), !.media = TRUE]
      [] line.tag = "MEDIA-SEQUENCE" -> [s EXCEPT !.sequence = line.number, !.media = TRUE]
      [] line.tag = "TARGETDURATION" -> [s EXCEPT !.media = TRUE]
      [] line.tag = "ENDLIST" -> [s EXCEPT !.ended = TRUE, !.media = TRUE]
      [] line.tag = "DISCONTINUITY" -> [s EXCEPT !.discontinuity = TRUE, !.media = TRUE]
      [] line.tag = "KEY" -> KeyLine(s, line)
      [] line.tag = "MAP" -> MapLine(s, line)

(* Neither kind, both kinds and a variant without its URI are refused.       *)
PlaylistOf(s) ==
    IF s.failed \/ s.streamInf # None \/ (s.master <=> s.media)
    THEN Error
    ELSE Good([kind |-> IF s.master THEN "master" ELSE "media",
               variants |-> s.variants, renditions |-> s.renditions,
               segments |-> s.segments, ended |-> s.ended])

Parse(lines) == PlaylistOf(FoldLeft(ReadLine, Start, lines))

(***************************************************************************)
(* The plan of a media playlist.                                            *)
(***************************************************************************)

(* An initialization segment is fetched where it first applies, and again   *)
(* where it changes.                                                        *)
AddSegment(acc, segment) ==
    LET inits == IF segment.init = acc.init THEN <<>>
                 ELSE [i \in 1..Cardinality(segment.init) |-> StreamResource(The(segment.init), TRUE, 0)]
    IN  [init |-> segment.init,
         resources |-> Append(acc.resources \o inits, StreamResource(segment.resource, FALSE, 0))]

TotalDuration(segments) ==
    IF \E i \in DOMAIN segments : segments[i].duration = None
    THEN None
    ELSE Some(FoldLeft(LAMBDA n, s : n + The(s.duration), 0, segments))

PlanMedia(playlist) ==
    LET segments == playlist.segments
        resources == FoldLeft(AddSegment, [init |-> None, resources |-> <<>>], segments).resources
        mapped == \E i \in DOMAIN segments : segments[i].init # None
    IN  IF \/ \E i \in DOMAIN segments : segments[i].encrypted
           \/ ~playlist.ended
           \/ Len(segments) + 1 > MaxSegments
        THEN Error
        ELSE TrackPlan(resources, TotalDuration(segments),
                       IF mapped THEN "mp4" ELSE "ts", None)

(***************************************************************************)
(* The choice of a variant and of its sound.                                *)
(***************************************************************************)

Quality(v) == <<OrElse(v.bandwidth, 0), OrElse(v.resolution, 0)>>

BestVariant(master, indexes) == MaxByKey(indexes, LAMBDA i : Quality(master.variants[i]))

AudioGroups(master) == UNION {master.variants[i].group : i \in DOMAIN master.variants}

(* With several audio groups, the best variant that declares AAC, if any.    *)
SelectVariant(master) ==
    LET aac == {i \in DOMAIN master.variants : master.variants[i].aac}
    IN  IF Cardinality(AudioGroups(master)) > 1 /\ aac # {}
        THEN BestVariant(master, aac)
        ELSE BestVariant(master, DOMAIN master.variants)

(* The renditions that are the sound of a variant.                           *)
AudioRenditions(master, variant) ==
    {i \in DOMAIN master.renditions :
        /\ master.renditions[i].kind = "AUDIO"
        /\ master.renditions[i].uri # None
        /\ variant.group # None
        /\ master.renditions[i].group = variant.group}

DefaultAudio(master, variant) ==
    LET sounds == AudioRenditions(master, variant)
        key(i) == <<IF master.renditions[i].default THEN 0 ELSE 1>>
    IN  IF sounds = {} THEN None ELSE Some(MinByKey(sounds, key))

(* A selection: the index of a variant with its bandwidth and resolution,   *)
(* and of its sound with the language as Written.                           *)
HlsSelection(index, variant, audio, language) ==
    [variant |-> index, bandwidth |-> variant.bandwidth, resolution |-> variant.resolution,
     audio |-> audio, language |-> language]

(* A character of the language that a selection cannot hold becomes a dash. *)
Written(language) == {IF l = "pt BR" THEN "pt-BR" ELSE l : l \in language}

SelectedVariant_ByIndex(master, selection) ==
    IF selection.variant \in DOMAIN master.variants THEN Some(selection.variant) ELSE None

SelectedVariant(master, selection) ==
    {i \in {selection.variant} \cap DOMAIN master.variants :
        /\ master.variants[i].bandwidth = selection.bandwidth
        /\ master.variants[i].resolution = selection.resolution}

(* The sound of the selection is one of the variant's group, or of none     *)
(* where the variant names none.                                             *)
SelectedAudio(master, variant, selection) ==
    IF selection.audio = None
    THEN Good(DefaultAudio(master, variant))
    ELSE LET i == The(selection.audio)
         IN  IF /\ i \in DOMAIN master.renditions
                /\ master.renditions[i].kind = "AUDIO"
                /\ master.renditions[i].uri # None
                /\ master.renditions[i].group = variant.group
                /\ master.renditions[i].language = selection.language
             THEN Good(Some(i))
             ELSE Error

(* plan_hls_selected of a master playlist: the variant to fetch, and the    *)
(* rendition to fetch with it.                                              *)
FetchVariant(master, index, audio) ==
    IF audio.ok THEN Good([variant |-> index, audio |-> audio.value]) ELSE Error

PlanMaster(master, selection) ==
    IF selection = None
    THEN LET i == SelectVariant(master)
         IN  IF master.variants = <<>> THEN Error
             ELSE FetchVariant(master, i, Good(DefaultAudio(master, master.variants[i])))
    ELSE LET chosen == SelectedVariant(master, The(selection))
             i == The(chosen)
         IN  IF chosen = None THEN Error
             ELSE FetchVariant(master, i, SelectedAudio(master, master.variants[i], The(selection)))

PlanHls(playlist, selection) ==
    IF playlist.kind = "master"
    THEN PlanMaster(playlist, selection)
    ELSE IF selection = None THEN PlanMedia(playlist) ELSE Error

(***************************************************************************)
(* What the playlist offers: one track for each variant and sound, best     *)
(* first, at most MaxDescribed of them, then the sounds by themselves.      *)
(***************************************************************************)

MaxDescribed == 24

Described(master, index) ==
    LET v == master.variants[index]
        sounds == SetToSortSeq(AudioRenditions(master, v), <)
        track(audio, language) ==
            [kind |-> "video", variant |-> index, audio |-> audio, bandwidth |-> v.bandwidth,
             selection |-> Some(HlsSelection(index, v, audio, Written(language)))]
    IN  IF sounds = <<>>
        THEN <<track(None, None)>>
        ELSE [n \in DOMAIN sounds |-> track(Some(sounds[n]), master.renditions[sounds[n]].language)]

SoundTrack(index) ==
    [kind |-> "audio", variant |-> 0, audio |-> Some(index), bandwidth |-> None, selection |-> None]

(* sort_tracks, which is stable.                                             *)
BestFirst(tracks) ==
    LET key(i) == <<IF tracks[i].kind = "video" THEN 0 ELSE 1, 100 - OrElse(tracks[i].bandwidth, 0)>>
        before(i, j) == Before(key(i), key(j)) \/ (key(i) = key(j) /\ i < j)
        order == SetToSortSeq(DOMAIN tracks, before)
    IN  [n \in DOMAIN tracks |-> tracks[order[n]]]

Tracks(master) ==
    LET videos == FoldLeftDomain(LAMBDA acc, i : acc \o Described(master, i), <<>>, master.variants)
        sounds == {i \in DOMAIN master.renditions :
                      master.renditions[i].kind = "AUDIO" /\ master.renditions[i].uri # None}
        order == SetToSortSeq(sounds, <)
    IN  BestFirst(SubSeq(videos, 1, IF Len(videos) < MaxDescribed THEN Len(videos) ELSE MaxDescribed)
                    \o [n \in DOMAIN order |-> SoundTrack(order[n])])
===============================================================================
