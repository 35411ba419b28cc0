------------------------------- MODULE MCFormats -------------------------------
(***************************************************************************)
(* The readers and writers of formats, on every small input: an input grows *)
(* one piece at a time, and in every state the result computed from it is   *)
(* compared with what it should be.                                         *)
(***************************************************************************)
EXTENDS HlsPlan, DashPlan, TsDemux, Mp4Mux, WebSocket, XmlReader

CONSTANTS Subjects, MaxLines, MaxMasterLines, MaxKindLines, MaxEntries, MaxDashPieces,
          MaxPackets, MaxChunks, MaxFragments, MaxItems, MaxFrames

VARIABLES subject, input
vars == <<subject, input>>

(***************************************************************************)
(* The pieces.                                                              *)
(***************************************************************************)

UriPiece(uri) == [tag |-> "URI", uri |-> uri]
RangePiece(length, offset) == [tag |-> "BYTERANGE", length |-> length, offset |-> offset]

MediaLines ==
    {UriPiece("a"), UriPiece("b"), RangePiece(2, None), RangePiece(3, Some(1)),
     [tag |-> "MAP", uri |-> "i", range |-> None],
     [tag |-> "MAP", uri |-> "j", range |-> Some(ByteRange(2, None))],
     [tag |-> "KEY", method |-> "NONE"], [tag |-> "KEY", method |-> "AES-128"],
     [tag |-> "EXTINF", millis |-> 4000], [tag |-> "ENDLIST"]}

VariantTag(bandwidth, group) ==
    [tag |-> "STREAM-INF", bandwidth |-> Some(bandwidth), resolution |-> None, group |-> group, aac |-> FALSE]

MasterLines ==
    {UriPiece("a")} \cup
    {VariantTag(b, g) : b \in {1, 2}, g \in {None, Some("g")}} \cup
    {[tag |-> "STREAM-INF", bandwidth |-> Some(1), resolution |-> Some(1), group |-> Some("h"), aac |-> TRUE]} \cup
    {[tag |-> "MEDIA", kind |-> "AUDIO", group |-> Some("g"), language |-> l, uri |-> Some("s"), default |-> d] :
        l \in {Some("en"), Some("pt BR")}, d \in BOOLEAN}

(* One line of every tag, and a URI.                                         *)
AllLines ==
    {UriPiece("a"), VariantTag(1, None), RangePiece(2, None),
     [tag |-> "MEDIA", kind |-> "AUDIO", group |-> None, language |-> None, uri |-> None, default |-> FALSE],
     [tag |-> "EXTINF", millis |-> 4000], [tag |-> "MEDIA-SEQUENCE", number |-> 1],
     [tag |-> "KEY", method |-> "NONE"], [tag |-> "MAP", uri |-> "i", range |-> None]} \cup
    {[tag |-> t] : t \in {"I-FRAME-STREAM-INF", "TARGETDURATION", "ENDLIST", "DISCONTINUITY"}}

Entries == [time : {None, Some(0), Some(3)}, duration : {0, 2, 3}, repeat : {-1, 0, 1}]

Template(media, timeline) ==
    [NoTemplate EXCEPT !.duration = Some(4), !.media = media, !.timeline = timeline]

SetPieces ==
    [content : {Some("video"), Some("audio"), None}, mime : {None}, list : {None}, reps : {<<>>},
     template : {None, Some(Template(Some("Number"), None))}]
RepPieces ==
    [bandwidth : {None, Some(1), Some(2)}, mime : {None}, width : {None}, height : {None}, list : {None},
     base : {FALSE}, file : {TRUE},
     template : {None, Some([NoTemplate EXCEPT !.duration = Some(3), !.init = Some("i")])}] \cup
    [bandwidth : {Some(1)}, mime : {None}, width : {Some(1)}, height : {None, Some(2)}, list : {None},
     base : {FALSE}, file : {TRUE}, template : {None}]

(* Packets of the video, by the NAL units that begin in them.                *)
VideoPieces ==
    [tokens : {<<"aud", "slice">>, <<"aud", "sps", "pps", "idr">>, <<"slice">>, <<"byte">>,
               <<"byte", "aud", "slice">>},
     start : BOOLEAN, damaged : {FALSE}] \cup
    [tokens : {<<"slice">>}, start : {TRUE}, damaged : {TRUE}]

Adts(n, rate) == Token("adts", n, [rate |-> rate, channels |-> 2])
AudioTokens == {Adts(2, 1), Adts(3, 1), Adts(1, 2), Token("id3", 2, None), Token("byte", 1, None)}
AudioPieces == {<<t>> : t \in AudioTokens} \cup {<<t, u>> : t \in AudioTokens, u \in AudioTokens}

(* Fragments of an MP4 track, each with the media data behind it: one run    *)
(* whose samples leave their size and their flags out; two runs, the second *)
(* without an offset and with reordered samples; a run from a base of the   *)
(* fragment; samples without a duration; a run with nowhere to start; a     *)
(* second sample entry; an unreadable box.                                   *)
Entry(duration, size, sync, composition) ==
    [duration |-> duration, size |-> size, sync |-> sync, composition |-> composition]
Run(offset, firstSync, samples) == [offset |-> offset, firstSync |-> firstSync, samples |-> samples]
Traf(time, runs) ==
    [time |-> time, runs |-> runs, base |-> None, description |-> Some(1),
     duration |-> None, size |-> None, sync |-> None]

Shapes(time) ==
    {[Traf(time, <<Run(Some(2), Some(TRUE), <<Entry(Some(2), None, None, 0), Entry(Some(2), None, None, 0)>>)>>)
        EXCEPT !.size = Some(2), !.sync = Some(FALSE)],
     [Traf(time, <<Run(Some(3), None, <<Entry(None, Some(1), Some(TRUE), 0), Entry(None, Some(2), Some(FALSE), 1)>>),
                   Run(None, None, <<Entry(Some(1), Some(1), None, -1)>>)>>) EXCEPT !.duration = Some(2)],
     [Traf(time, <<Run(Some(3), None, <<Entry(Some(4), Some(3), None, 0)>>)>>) EXCEPT !.base = Some(0)]}
BadShapes ==
    {Traf(None, <<Run(Some(2), None, <<Entry(None, Some(1), None, 0)>>)>>),
     Traf(None, <<Run(None, None, <<Entry(Some(1), Some(1), None, 0)>>)>>),
     [Traf(None, <<Run(Some(2), None, <<Entry(Some(1), Some(1), None, 0)>>)>>) EXCEPT !.description = Some(2)]}

Piece(traf, form, length) == [traf |-> traf, form |-> form, length |-> length]
FragmentPieces ==
    {Piece(traf, "sized", 6) : traf \in UNION {Shapes(t) : t \in {None} \cup {Some(n) : n \in {3, 7, 8, 12, 27}}}}
    \cup {Piece(traf, "sized", 3) : traf \in Shapes(None) \cup BadShapes}
    \cup {Piece(traf, form, 6) : traf \in Shapes(Some(3)), form \in {"long", "impossible", "rest"}}

(* Frames of a browser, and frames no browser sends.                         *)
WsFrame(opcode, fin, length, cut) ==
    [opcode |-> opcode, fin |-> fin, length |-> LengthField(length), reserved |-> FALSE,
     masked |-> TRUE, chunk |-> [length |-> length, cut |-> cut]]
Frames ==
    {WsFrame(opcode, fin, length, "no") :
        opcode \in {"text", "continuation"}, fin \in BOOLEAN, length \in {1, 65536, MaxMessage}}
    \cup {WsFrame("text", FALSE, 125, "end"), WsFrame("text", TRUE, 126, "end"),
          WsFrame("continuation", TRUE, 65535, "start"), WsFrame("ping", TRUE, 125, "no"),
          WsFrame("ping", TRUE, 126, "no"), WsFrame("ping", FALSE, 1, "no"), WsFrame("pong", TRUE, 0, "no"),
          WsFrame("close", TRUE, 0, "no"), WsFrame("binary", TRUE, 1, "no"),
          [WsFrame("text", TRUE, 1, "no") EXCEPT !.masked = FALSE],
          [WsFrame("text", TRUE, 1, "no") EXCEPT !.reserved = TRUE]}

(* Items of a manifest: elements with an attribute, and with two of the same *)
(* local name; references, a bare "&", blanks, and an error in a reference.  *)
Attribute(key, value) == [key |-> key, value |-> value]
StartTagItem(name, attributes, closed) ==
    [kind |-> "start", name |-> name, attributes |-> attributes, closed |-> closed]
Items ==
    {StartTagItem(<<"a">>, <<>>, FALSE), StartTagItem(<<"b">>, <<>>, FALSE), StartTagItem(<<"p", "a">>, <<>>, FALSE),
     StartTagItem(<<"b">>, <<Attribute(<<"k">>, <<"x", "&", "amp", ";">>)>>, TRUE),
     StartTagItem(<<"b">>, <<Attribute(<<"k">>, <<"x">>), Attribute(<<"p", "k">>, <<"x">>)>>, TRUE),
     [kind |-> "end", name |-> <<"a">>], [kind |-> "end", name |-> <<"b">>],
     [kind |-> "skipped"], [kind |-> "text", text |-> <<" ">>],
     [kind |-> "text", text |-> <<"x", "&", "lt", ";", "x", "&", "n120", ";", "&", "nD800", ";">>],
     [kind |-> "text", text |-> <<"x", "&", "x">>],
     [kind |-> "text", text |-> <<"&", "nZZ", ";">>], [kind |-> "cdata", text |-> <<"&", "x", ";">>]}

Pieces(s) ==
    CASE s = "media" -> MediaLines
      [] s = "master" -> MasterLines
      [] s = "kinds" -> AllLines
      [] s = "timeline" -> Entries
      [] s = "dash" -> SetPieces \cup RepPieces
      [] s = "ts" -> VideoPieces
      [] s = "adts" -> AudioPieces
      [] s = "mp4" -> FragmentPieces
      [] s = "frames" -> Frames
      [] s = "xml" -> Items

Limit(s) ==
    CASE s = "media" -> MaxLines
      [] s = "master" -> MaxMasterLines
      [] s = "kinds" -> MaxKindLines
      [] s = "timeline" -> MaxEntries
      [] s = "dash" -> MaxDashPieces
      [] s = "ts" -> MaxPackets
      [] s = "adts" -> MaxChunks
      [] s = "mp4" -> MaxFragments
      [] s = "frames" -> MaxFrames
      [] s = "xml" -> MaxItems

Init == subject \in Subjects /\ input = <<>>

Grow ==
    /\ Len(input) < Limit(subject)
    /\ \E piece \in Pieces(subject) :
        /\ (subject = "dash" /\ piece \in RepPieces) => input # <<>>
        /\ (subject = "xml" /\ piece.kind = "text" /\ input # <<>>) => Last(input).kind # "text"
        /\ input' = Append(input, piece)
    /\ UNCHANGED subject

Next == Grow

Spec == Init /\ [][Next]_vars

(***************************************************************************)
(* HLS.                                                                     *)
(***************************************************************************)

UriLines == {i \in DOMAIN input : input[i].tag = "URI"}
LastOf(tags, from, to) ==
    LET found == {i \in from..to : input[i].tag \in tags}
    IN  IF found = {} THEN None ELSE Some(CHOOSE i \in found : \A j \in found : j <= i)

(* What the lines say of the kind of playlist: a URI behind a STREAM-INF is *)
(* a variant, every other one a segment, and a tag belongs to one kind.     *)
AfterUri(i) == OrElse(LastOf({"URI"}, 1, i - 1), 0) + 1
IsVariantLine(i) == i \in UriLines /\ LastOf({"STREAM-INF"}, AfterUri(i), i) # None
SaysMaster(i) == input[i].tag \in {"STREAM-INF", "I-FRAME-STREAM-INF", "MEDIA"} \/ IsVariantLine(i)
IsMasterText ==
    /\ \A i \in DOMAIN input : SaysMaster(i)
    /\ LastOf({"STREAM-INF"}, AfterUri(Len(input) + 1), Len(input)) = None
IsMediaText == \A i \in DOMAIN input : ~SaysMaster(i)

(* A text is a master playlist, a media playlist, or refused: never both.    *)
KindIsWhatTheLinesSay(playlist) ==
    /\ playlist.ok <=> input # <<>> /\ (IsMasterText \/ IsMediaText)
    /\ playlist.ok => (playlist.value.kind = "media" <=> IsMediaText)

(* A media playlist is planned if it is complete, has a segment, and none    *)
(* of its segments stands under a key.                                       *)
IsPlannable ==
    /\ UriLines # {} /\ \E i \in DOMAIN input : input[i].tag = "ENDLIST"
    /\ \A i \in UriLines : \A k \in LastOf({"KEY"}, 1, i) : input[k].method = "NONE"

PlansTheLines(resources) ==
    LET uris == SetToSortSeq(UriLines, <)
        media == SetToSortSeq({i \in DOMAIN resources : ~resources[i].init}, <)
        range(n) == LastOf({"BYTERANGE"}, AfterUri(uris[n]), uris[n])
        map(n) == LastOf({"MAP"}, 1, uris[n])
        continues(n) ==
            n > 1 /\ input[uris[n - 1]].uri = input[uris[n]].uri /\ range(n - 1) # None
        first(n) ==
            IF continues(n) THEN The(resources[media[n - 1]].interval).last + 1 ELSE 0
        inits(n) == {i \in 1..media[n] : resources[i].init}
    IN  /\ Len(media) = Len(uris)
        /\ \A n \in DOMAIN uris :
            /\ resources[media[n]].uri = input[uris[n]].uri
            /\ resources[media[n]].interval =
                 {[first |-> OrElse(input[r].offset, first(n)),
                   last |-> OrElse(input[r].offset, first(n)) + input[r].length - 1] : r \in range(n)}
            /\ (map(n) = None) = (inits(n) = {})
            /\ \A m \in map(n) :
                 \E i \in inits(n) : /\ \A j \in inits(n) : j <= i
                                     /\ resources[i].uri = input[m].uri

(* A text is read as the kind of playlist its lines say, one whose lines say *)
(* both or neither is refused, and a media playlist is planned exactly when *)
(* it is complete and in the clear. The plan then plays as the playlist      *)
(* does: its segments are the URI lines in order; each asks for the bytes of *)
(* the last range tag before it and after the previous URI line, from the    *)
(* end of the previous segment's bytes where the tag leaves the offset out   *)
(* and the resource is the same; and the nearest initialization before it is *)
(* the last map tag before its line (hls.rs parse, its pending tags,         *)
(* last_range_end, saw_master_tag and saw_media_tag; plan.rs                 *)
(* plan_media_playlist).                                                     *)
SegmentsFollowTags ==
    LET playlist == Parse(input)
        plan == PlanMedia(playlist.value)
    IN  subject \in {"media", "kinds"} =>
        /\ KindIsWhatTheLinesSay(playlist)
        /\ playlist.ok /\ playlist.value.kind = "media" =>
            /\ plan.ok <=> IsPlannable
            /\ plan.ok => PlansTheLines(plan.value.resources)

(* The playlists a master may have become when the download runs: itself,   *)
(* with one variant or rendition less, in another order, or with the sound  *)
(* no longer in groups.                                                      *)
Without(seq, i) == SubSeq(seq, 1, i - 1) \o SubSeq(seq, i + 1, Len(seq))
Ungrouped(seq) == [i \in DOMAIN seq |-> [seq[i] EXCEPT !.group = None]]
Later(master) ==
    {master}
    \cup {[master EXCEPT !.variants = Without(@, i)] : i \in DOMAIN master.variants}
    \cup {[master EXCEPT !.renditions = Without(@, i)] : i \in DOMAIN master.renditions}
    \cup {[master EXCEPT !.variants = Reverse(@), !.renditions = Reverse(@)],
          [master EXCEPT !.variants = Ungrouped(@), !.renditions = Ungrouped(@)]}

(* A track chosen from a list is downloaded as it was listed or refused,    *)
(* even when the presentation has changed: the variant has the listed       *)
(* bandwidth and resolution, the sound is one of the variant's, in the      *)
(* listed language. On an unchanged presentation it is refused only for a   *)
(* language that a selection cannot hold (selection.rs; plan.rs             *)
(* selected_variant, selected_audio_rendition).                             *)
HlsChoiceIsKept ==
    LET playlist == Parse(input)
        listed == playlist.value
        tracks == Tracks(listed)
    IN  subject = "master" /\ playlist.ok /\ listed.kind = "master" =>
        \A t \in {tracks[i] : i \in {j \in DOMAIN tracks : tracks[j].selection # None}} :
            LET language == UNION {listed.renditions[a].language : a \in t.audio}
            IN  \A now \in Later(listed) :
                LET plan == PlanHls(now, t.selection)
                    variant == now.variants[plan.value.variant]
                IN  /\ plan.ok =>
                        /\ variant.bandwidth = listed.variants[t.variant].bandwidth
                        /\ variant.resolution = listed.variants[t.variant].resolution
                        /\ \A a \in plan.value.audio :
                             /\ now.renditions[a].group = variant.group
                             /\ t.audio # None => now.renditions[a].language = language
                    /\ now = listed /\ language # Some("pt BR") =>
                        /\ plan.ok
                        /\ plan.value.variant = t.variant
                        /\ plan.value.audio = t.audio

(***************************************************************************)
(* DASH.                                                                    *)
(***************************************************************************)

Ends == {None, Some(0), Some(5), Some(8)}

(* The times of a timeline are those a player computes: every entry's       *)
(* segments follow each other without a gap, an entry without a time        *)
(* follows the one before, and the number of segments of a declared         *)
(* repetition is exact (dash.rs expand_timeline).                           *)
TimelineIsGapless ==
    subject = "timeline" => \A end \in Ends :
        LET result == ExpandTimeline(input, end)
            times == result.value
        IN  result.ok =>
            \E cut \in [0..Len(input) -> 0..Len(times)] :
                /\ cut[0] = 0 /\ cut[Len(input)] = Len(times)
                /\ \A n \in 1..Len(input) :
                    LET e == input[n]
                    IN  /\ cut[n - 1] < cut[n]
                        /\ e.repeat >= 0 => cut[n] - cut[n - 1] = e.repeat + 1
                        /\ \A t \in e.time : times[cut[n - 1] + 1] = t
                        /\ e.time = None => times[cut[n - 1] + 1] = times[cut[n - 1]] + input[n - 1].duration
                        /\ \A i \in (cut[n - 1] + 1)..(cut[n] - 1) : times[i + 1] = times[i] + e.duration

(* "Repeat until the period ends": the segments of a single repeated entry  *)
(* reach the end of the period (dash.rs:832).                               *)
RepeatsUntilPeriodEnds ==
    subject = "timeline" => \A end \in Ends :
        LET result == ExpandTimeline(input, end)
        IN  Len(input) = 1 /\ result.ok /\ input[1].repeat = -1 =>
            Last(result.value) + input[1].duration >= The(end)

AddPiece(sets, piece) ==
    IF piece \in SetPieces
    THEN Append(sets, piece)
    ELSE [sets EXCEPT ![Len(sets)].reps = Append(@, piece)]

Mpd(sets, millis) ==
    [dynamic |-> FALSE, duration |-> millis,
     periods |-> <<[duration |-> None, template |-> None, list |-> None, sets |-> sets]>>]

DashInput == Mpd(FoldLeft(AddPiece, <<>>, input), Some(8000))

(* Without a timeline, the segments of a representation cover the period    *)
(* and none starts after its end; the duration that counts is the most      *)
(* specific one (plan.rs segment_count, dash.rs inherit).                   *)
NumberedSegmentsCoverPeriod ==
    subject = "dash" =>
        \A s \in DOMAIN DashInput.periods[1].sets :
        \A r \in DOMAIN DashInput.periods[1].sets[s].reps :
            LET period == DashInput.periods[1]
                plan == PlanDashTrack(DashInput, period, s, r)
                own == period.sets[s].reps[r].template
                length == IF own # None THEN 3 ELSE 4
                segments == SelectSeq(plan.value.resources, LAMBDA x : ~x.init)
            IN  plan.ok /\ own \cup period.sets[s].template # None =>
                /\ Len(segments) * length >= 8
                /\ (Len(segments) - 1) * length < 8
                /\ \A n \in DOMAIN segments : segments[n].uri[2] = n

LaterDash(mpd) ==
    LET sets == mpd.periods[1].sets
    IN  {mpd, Mpd(Reverse(sets), mpd.duration)}
        \cup {Mpd(Without(sets, s), mpd.duration) : s \in DOMAIN sets}
        \cup {Mpd([sets EXCEPT ![s].reps = Reverse(@)], mpd.duration) : s \in DOMAIN sets}

IsOf(set, c, kind) == Kind(set) = kind /\ set.reps[c.rep].bandwidth = c.bandwidth
HoldsChoice(period, offer) ==
    /\ \A c \in offer.video : IsOf(period.sets[c.set], c, "video")
    /\ \A c \in offer.audio : IsOf(period.sets[c.set], c, "audio")
IsTaken(period, offer) ==
    SelectedTracks(period, offer).ok \/ \E c \in offer.audio : Kind(period.sets[c.set]) = "unknown"
OffersHold(mpd) ==
    \A offer \in Offers(mpd) :
        /\ \A now \in LaterDash(mpd) : PlanDash(now, Some(offer)).ok => HoldsChoice(now.periods[1], offer)
        /\ IsTaken(mpd.periods[1], offer)

(* A choice of representations is downloaded as listed or refused, and not  *)
(* refused on an unchanged presentation unless what it lists as sound is a  *)
(* set of unknown kind (selection.rs; plan.rs validate_dash_choice).        *)
DashChoiceIsKept == subject = "dash" => OffersHold(DashInput)

(* A track chosen from a list is downloaded as it was listed or refused,    *)
(* whatever the kind of manifest (plan.rs selected_variant,                  *)
(* validate_dash_choice).                                                    *)
ChoiceIsKept == HlsChoiceIsKept /\ DashChoiceIsKept

(* The segments of a DASH track follow each other through the period, with a *)
(* timeline and without one (dash.rs expand_timeline, plan.rs                *)
(* segment_count).                                                           *)
DashSegmentsFollow == TimelineIsGapless /\ NumberedSegmentsCoverPeriod

(***************************************************************************)
(* Transport streams and ADTS.                                              *)
(***************************************************************************)

TablePacket(pid, start, tokens) ==
    [pid |-> pid, start |-> start, damaged |-> FALSE, pes |-> None, pointer |-> 0, tokens |-> tokens]

(* The tables: the map is cut in two, behind a section of another table.     *)
Tables ==
    <<TablePacket(0, TRUE, <<Token("section", 1, [table |-> "pat", program |-> Some(1)])>>),
      TablePacket(1, TRUE, <<Token("section", 1, [table |-> "other"]),
                             Token("section", 2, [table |-> "pmt", video |-> Some(2), audio |-> Some(3)])>>),
      TablePacket(1, FALSE, <<Token("more", 1, None), Token("stuffing", 1, None)>>)>>

(* Packet n of the video, with the times of its PES packet. The fourth one  *)
(* jumps ahead, and the fifth goes back.                                    *)
Dts(n) == CASE n <= 3 -> 3 * n [] n = 4 -> 100 [] n >= 5 -> 50
VideoPacket(n) ==
    [pid |-> 2, start |-> input[n].start, damaged |-> input[n].damaged, pointer |-> 0,
     pes |-> IF input[n].start THEN Some([pts |-> Some(Dts(n) + (n % 2)), dts |-> Some(Dts(n))]) ELSE None,
     tokens |-> [i \in DOMAIN input[n].tokens |-> Token(input[n].tokens[i], 1, <<n, i>>)]]

VideoInput == Tables \o [n \in DOMAIN input |-> VideoPacket(n)]
VideoTokens ==
    FlattenSeq([n \in DOMAIN input |-> IF input[n].damaged THEN <<>> ELSE VideoPacket(n).tokens])

(* The PES packet that packet n belongs to.                                  *)
PesOf(n) == LET starts == {m \in 1..n : input[m].start /\ ~input[m].damaged}
            IN  IF starts = {} THEN None ELSE Some(CHOOSE m \in starts : \A k \in starts : k <= m)

BytesAreKept(samples, tokens, starts) ==
    FlattenSeq([i \in DOMAIN samples |-> samples[i].data])
        = SubSeq(tokens, First(starts), (CHOOSE i \in starts : \A j \in starts : j <= i) - 1)
HasTimesOf(sample, pes, next) == pes = next /\ pes # None => sample.dts = Dts(The(pes)) /\ sample.composition = The(pes) % 2
TimesAreKept(sample, nals) ==
    Cardinality(nals) > 1 =>
        HasTimesOf(sample, PesOf(sample.data[1].says[1]), PesOf(sample.data[First(nals \ {1})].says[1]))
LastsUntil(duration, delta) == delta \in 1..MaxFrame => duration = delta
TrackIsStream(samples, durations) ==
    /\ BytesAreKept(samples, VideoTokens, Starts(VideoTokens, NalStarts))
    /\ \A i \in DOMAIN samples : TimesAreKept(samples[i], Starts(samples[i].data, NalStarts))
    /\ \A i \in 1..(Len(samples) - 1) : LastsUntil(durations[i], samples[i + 1].dts - samples[i].dts)
KeepsTheStream(track) == track.ok => TrackIsStream(track.value.samples, track.value.durations)

(* The samples of a video are the byte stream: every byte from the first    *)
(* start code to the last one is in exactly one sample, in order; a sample  *)
(* whose first two NAL units begin in one PES packet has the times of that  *)
(* packet; and where decode times advance by at most a second a sample      *)
(* lasts until the next one (ts.rs VideoTrack, fill_durations).             *)
SamplesKeepTheStream == subject = "ts" => KeepsTheStream(Demux(VideoInput))

(* "The last access unit [is] complete only because the file ended": every  *)
(* byte from the first start code on is in a sample (ts.rs:487).            *)
LastUnitIsKept ==
    LET track == Demux(VideoInput)
        samples == track.value.samples
    IN  subject = "ts" /\ track.ok =>
        FlattenSeq([i \in DOMAIN samples |-> samples[i].data])
            = Drop(VideoTokens, First(Starts(VideoTokens, NalStarts)) - 1)

(* Where the chunks of a file cut it does not matter, if no tag holds what  *)
(* looks like a frame (ts.rs AudioTrack::push).                             *)
ChunksDoNotMatter ==
    LET whole == FlattenSeq(input)
    IN  subject = "adts" /\ (\A i \in 1..(Len(whole) - 1) : whole[i].kind = "id3" => whole[i + 1].kind = "byte") =>
        DemuxAdts(input) = DemuxAdts(<<whole>>)

(* The samples of video and sound are the stream (ts.rs VideoTrack,          *)
(* AudioTrack), except for the last NAL unit: see LastUnitIsKept.            *)
DemuxKeepsTheStream == SamplesKeepTheStream /\ ChunksDoNotMatter

(***************************************************************************)
(* MP4.                                                                     *)
(***************************************************************************)

Moof(piece) ==
    [kind |-> "moof", form |-> piece.form, size |-> 2, trafs |-> <<piece.traf>>, media |-> None]
Mdat(piece) == [kind |-> "mdat", form |-> "sized", size |-> piece.length, trafs |-> <<>>, media |-> None]
Moov(header) == [kind |-> "moov", form |-> "sized", size |-> 3, trafs |-> <<>>, media |-> Some(header)]

(* A track whose units are longer than the movie's, and two whose units are  *)
(* shorter.                                                                  *)
MediaHeaders == {MediaHeader(2, FALSE), MediaHeader(8, FALSE), MediaHeader(8, TRUE)}
Mp4Input(header) == <<Moov(header)>> \o FlattenSeq([n \in DOMAIN input |-> <<Moof(input[n]), Mdat(input[n])>>])
FileLength(file) == SumOf([i \in DOMAIN file |-> file[i].size])

(* The sound: two frames of an elementary stream, the second one longer.    *)
Sound == FromElementary(1, <<[offset |-> 0, size |-> 1, duration |-> 3, composition |-> 0, sync |-> TRUE],
                             [offset |-> 1, size |-> 2, duration |-> 3, composition |-> 0, sync |-> TRUE]>>)

(* What the input says of its samples, read fragment by fragment: sample e   *)
(* of the fragments starts where the sizes before it in its fragment put it, *)
(* and plays when its fragment does and the durations before it have passed. *)
EntriesOf(n) == FlattenSeq([r \in DOMAIN input[n].traf.runs |-> input[n].traf.runs[r].samples])
SizeOf(n, e) == The(Either(EntriesOf(n)[e].size, input[n].traf.size))
DurationOf(n, e) == The(Either(EntriesOf(n)[e].duration, input[n].traf.duration))
StartOf(n, e) ==
    OrElse(input[n].traf.base, 3 + SumOf([m \in 1..(n - 1) |-> 2 + input[m].length]))
    + The(input[n].traf.runs[1].offset) + SumOf([d \in 1..(e - 1) |-> SizeOf(n, d)])
TimeOf(n, e) ==
    The(input[n].traf.time) - The(input[1].traf.time) + SumOf([d \in 1..(e - 1) |-> DurationOf(n, d)])
SyncOf(n, e) ==
    OrElse(Either(EntriesOf(n)[e].sync,
                  IF e = 1 THEN Either(input[n].traf.runs[1].firstSync, input[n].traf.sync)
                  ELSE input[n].traf.sync), TRUE)
SamplesRead == FlattenSeq([n \in DOMAIN input |-> [e \in DOMAIN EntriesOf(n) |-> <<n, e>>]])

(* What a player reads from the tables of a written track.                   *)
Expand(runs) == FlattenSeq([r \in DOMAIN runs |-> [i \in 1..runs[r].count |-> runs[r].value]])
Played(file, t, i) ==
    LET trak == file.traks[t]
        start == file.starts[t] - file.header + SumOf([j \in 1..(i - 1) |-> trak.sizes[j]])
    IN  [bytes |-> SubSeq(file.data, start + 1, start + trak.sizes[i]),
         time |-> SumOf([j \in 1..(i - 1) |-> Expand(trak.stts)[j]]),
         composition |-> OrElse({Expand(c)[i] : c \in trak.ctts}, 0),
         sync |-> trak.stss = None \/ i \in ToSet(The(trak.stss))]

PlaysPicture(played, n, e) ==
    /\ played.bytes = [b \in 1..SizeOf(n, e) |-> <<1, StartOf(n, e) + b - 1>>]
    /\ played.composition = EntriesOf(n)[e].composition
    /\ played.sync = SyncOf(n, e)
    /\ (\A m \in 1..n : input[m].traf.time # None) => played.time = TimeOf(n, e)
PlaysSound(played, sample) == played.bytes = [b \in 1..sample.size |-> <<2, sample.offset + b - 1>>]
(* The movie lasts as long as its tracks, in whole units of its own.         *)
LastsAsLong(file) ==
    \A t \in DOMAIN file.traks :
        file.traks[t].duration * MovieTimescale < (file.duration + 1) * file.traks[t].timescale
HeadersHold(track) ==
    /\ track.duration * MovieTimescale < (U32Max + 1) * track.timescale
    /\ track.wide \/ track.duration <= U32Max
Plays(file, read) ==
    /\ Len(file.traks[1].sizes) = Len(read)
    /\ \A i \in DOMAIN read : PlaysPicture(Played(file, 1, i), read[i][1], read[i][2])
    /\ \A i \in DOMAIN Sound.samples : PlaysSound(Played(file, 2, i), Sound.samples[i])
    /\ LastsAsLong(file)
IsInTheFile(read, length) ==
    \A i \in DOMAIN read : StartOf(read[i][1], read[i][2]) + SizeOf(read[i][1], read[i][2]) <= length
IsWritten(file, track, read, length) ==
    /\ file.ok <=> IsInTheFile(read, length) /\ HeadersHold(track)
    /\ file.ok => Plays(file.value, read)
IsMuxed(track, length) ==
    track.ok => IsWritten(MuxMp4(<<track, Good(Sound)>>, <<length, 3>>), track.value, SamplesRead, length)

(* The tables of a muxed file play what the tracks hold: every sample of    *)
(* both tracks has its own bytes, its time in the media, its composition    *)
(* offset and its sync flag, whether the offsets are 32 or 64 bits wide;    *)
(* and a file that can be read is written, unless a sample runs past its end *)
(* or a duration is too long for its header (mux.rs Fragments,               *)
(* write_mp4_layout, put_duration).                                          *)
MuxedFilePlaysTheTracks ==
    subject = "mp4" /\ (\A n \in DOMAIN input : input[n].form = "sized")
        => \A header \in MediaHeaders : IsMuxed(DemuxMp4(Mp4Input(header)), FileLength(Mp4Input(header)))

(***************************************************************************)
(* The capture channel's frames.                                            *)
(***************************************************************************)

DataFrames == SelectSeq(input, LAMBDA f : f.opcode \in {"text", "continuation"})
EndsOf(frames) == {i \in DOMAIN frames : frames[i].fin}
(* The message frame i is of, and its bytes up to that frame.                *)
FirstFrame(frames, i) ==
    LET ended == {j \in EndsOf(frames) : j < i}
    IN  IF ended = {} THEN 1 ELSE 1 + CHOOSE j \in ended : \A k \in ended : k <= j
BytesTo(frames, i) == SumOf([n \in 1..(i - FirstFrame(frames, i) + 1) |->
                               frames[FirstFrame(frames, i) + n - 1].chunk.length])

(* What a browser sends: RFC 6455, in messages of the accepted size.         *)
BrowserStream ==
    /\ \A i \in DOMAIN input :
        /\ input[i].masked /\ ~input[i].reserved
        /\ input[i].opcode \notin {"text", "continuation"} =>
              input[i].opcode # "binary" /\ input[i].fin /\ input[i].chunk.length <= 125
    /\ \A i \in DOMAIN DataFrames :
        /\ (DataFrames[i].opcode = "text") = (FirstFrame(DataFrames, i) = i)
        /\ BytesTo(DataFrames, i) <= MaxMessage
        /\ DataFrames[i].chunk.cut = "end" <=>
              ~DataFrames[i].fin /\ i < Len(DataFrames) /\ DataFrames[i + 1].chunk.cut = "start"
        /\ DataFrames[i].chunk.cut = "start" =>
              DataFrames[i].opcode = "continuation" /\ DataFrames[i - 1].chunk.cut = "end"

(* How a browser cuts a message into frames, and where its pings fall, does  *)
(* not matter: the messages are the ones sent, whole and in order, none of   *)
(* them beyond the bound, and every ping is answered with its payload; and   *)
(* before any error the messages are the frames' up to there (websocket.rs   *)
(* receive, read_frame, push_bounded).                                      *)
MessagesArriveWhole ==
    LET session == Session(input)
        chunks == FlattenSeq(session.texts)
        closed == {i \in DOMAIN input : input[i].opcode = "close"}
    IN  subject = "frames" =>
        /\ Len(chunks) <= Len(DataFrames)
        /\ \A i \in DOMAIN chunks : DataFrames[i].chunk = chunks[i]
        /\ \A t \in DOMAIN session.texts :
            LET text == session.texts[t]
                before == Len(FlattenSeq(SubSeq(session.texts, 1, t - 1)))
            IN  /\ EndsOf(SubSeq(DataFrames, before + 1, before + Len(text))) = {Len(text)}
                /\ SumOf([i \in DOMAIN text |-> text[i].length]) <= MaxMessage
        /\ BrowserStream =>
            /\ session.state = IF closed = {} THEN "open" ELSE "closed"
            /\ closed = {} =>
                /\ Len(session.texts) = Cardinality(EndsOf(DataFrames))
                /\ session.pongs = LET pings == SelectSeq(input, LAMBDA f : f.opcode = "ping")
                                   IN  [i \in DOMAIN pings |-> pings[i].chunk]

(***************************************************************************)
(* XML.                                                                     *)
(***************************************************************************)

OpenTags == {i \in DOMAIN input : input[i].kind = "start" /\ ~input[i].closed}
EndTags == {i \in DOMAIN input : input[i].kind = "end"}
Elements == {i \in DOMAIN input : input[i].kind = "start"}
DepthAt(i) == Cardinality({j \in OpenTags : j <= i}) - Cardinality({j \in EndTags : j <= i})

(* The elements item i stands in, from the outermost.                        *)
Enclosing(i) ==
    SetToSortSeq({j \in OpenTags : j < i /\ \A k \in j..(i - 1) : DepthAt(k) >= DepthAt(j)}, <)
EndOf(i) == {k \in EndTags : k > i /\ DepthAt(k) < DepthAt(i) /\ \A l \in i..(k - 1) : DepthAt(l) >= DepthAt(i)}

Expanded(text) ==
    LET kept == {i \in DOMAIN text : ~\E j \in DOMAIN text :
                    /\ i \in (j + 1)..(j + 2) /\ text[j] = "&" /\ j + 2 <= Len(text)
                    /\ text[j + 1] \in {"amp", "lt", "n120"}}
        value(i) == IF i + 1 \in DOMAIN text \ kept
                    THEN CASE text[i + 1] = "amp" -> "&" [] text[i + 1] = "lt" -> "<" [] OTHER -> "x"
                    ELSE text[i]
        places == SetToSortSeq(kept, <)
    IN  [n \in DOMAIN places |-> value(places[n])]

WellFormed ==
    /\ \A i \in DOMAIN input : DepthAt(i) >= 0
    /\ \A i \in OpenTags : \E k \in EndOf(i) : Last(input[k].name) = Last(input[i].name)
    /\ Cardinality({i \in Elements : Enclosing(i) = <<>>}) = 1
    /\ \A i \in DOMAIN input :
        input[i].kind \in {"text", "cdata"} /\ input[i].text # <<" ">> =>
            Enclosing(i) # <<>> /\ input[i].text # <<"&", "nZZ", ";">>
    /\ \A i \in Elements : Len(input[i].attributes) < 2
    /\ \A i \in OpenTags : Len(Enclosing(i)) < MaxDepth
    /\ Cardinality(Elements) <= MaxNodes

RECURSIVE Flat(_, _)
Flat(node, path) ==
    <<[path |-> path, name |-> node.name, attributes |-> node.attributes, text |-> node.text]>>
    \o FlattenSeq([c \in DOMAIN node.children |-> Flat(node.children[c], Append(path, node.name))])

TextsOf(i) ==
    SelectSeq([j \in DOMAIN input |-> j],
              LAMBDA j : input[j].kind \in {"text", "cdata"} /\ input[j].text # <<" ">>
                         /\ Enclosing(j) # <<>> /\ Last(Enclosing(j)) = i)

(* A manifest is read exactly when its tags pair up, under one root and      *)
(* within the bounds, and then every element stands where the document has   *)
(* it, with its attributes and its own text, their references expanded, the  *)
(* elements of one parent in the order of the document, which is what orders *)
(* segments and timelines (xml.rs parse_document, attach, push_text).       *)
DocumentIsItsElements ==
    LET document == ParseDocument(input)
        elements == SetToSortSeq(Elements, <)
        name(i) == Last(input[i].name)
        path(i) == [n \in DOMAIN Enclosing(i) |-> name(Enclosing(i)[n])]
        text(i) == FlattenSeq([n \in DOMAIN TextsOf(i) |-> Expanded(input[TextsOf(i)[n]].text)])
    IN  subject = "xml" =>
        /\ document.ok = WellFormed
        /\ document.ok =>
            Flat(document.value, <<>>) =
                [n \in DOMAIN elements |->
                    LET i == elements[n]
                    IN  [path |-> path(i), name |-> name(i), text |-> text(i),
                         attributes |-> [a \in DOMAIN input[i].attributes |->
                             [key |-> Last(input[i].attributes[a].key),
                              value |-> Expanded(input[i].attributes[a].value)]]]]
================================================================================
