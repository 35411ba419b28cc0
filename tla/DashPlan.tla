------------------------------- MODULE DashPlan -------------------------------
(***************************************************************************)
(* What is planned from a DASH presentation (dash.rs, plan.rs), and the     *)
(* choices it offers (presentation.rs, selection.rs).                       *)
(*                                                                         *)
(* A presentation is the record its document parses to: periods of          *)
(* adaptation sets of representations. A template and a list are records    *)
(* of optional fields. A media template is the identifier it substitutes    *)
(* ("Number", "Time", or "Fixed" when it has none), so a segment's URL is   *)
(* that identifier's value. The base URLs, which only prefix the result,    *)
(* are left out but for whether a single file is named at all.              *)
(***************************************************************************)
EXTENDS SegmentPlan

NoTemplate ==
    [timescale |-> None, duration |-> None, start |-> None,
     media |-> None, init |-> None, timeline |-> None]
NoList == [init |-> None, urls |-> None]

(***************************************************************************)
(* Reading the presentation.                                                *)
(***************************************************************************)

(* What a set carries: its content type says, else its MIME type or that of *)
(* its first representation, else whether a width is declared.              *)
Kind(set) ==
    LET mime == Either(set.mime, IF set.reps = <<>> THEN None ELSE set.reps[1].mime)
        wide == \E i \in DOMAIN set.reps : set.reps[i].width # None
    IN  IF set.content \in {Some("video"), Some("audio"), Some("text")}
        THEN The(set.content)
        ELSE IF mime \in {Some("video"), Some("audio"), Some("text")}
        THEN The(mime)
        ELSE IF mime = Some("application")
        THEN "text"
        ELSE IF wide THEN "video" ELSE "unknown"

(* The only period with media in it.                                         *)
Populated(mpd) ==
    {p \in DOMAIN mpd.periods : \E s \in DOMAIN mpd.periods[p].sets : mpd.periods[p].sets[s].reps # <<>>}

MediaPeriod(mpd) == IF Cardinality(Populated(mpd)) = 1 THEN Populated(mpd) ELSE None

(* A field that is not set is the one of the less specific level.            *)
Inherit(inner, outer) == [f \in DOMAIN inner |-> Either(inner[f], outer[f])]

Merged(empty, inner, set, period) ==
    IF inner \cup set \cup period = {}
    THEN None
    ELSE Some(Inherit(Inherit(OrElse(inner, empty), OrElse(set, empty)), OrElse(period, empty)))

Addressing(rep, set, period) ==
    LET template == Merged(NoTemplate, rep.template, set.template, period.template)
        list == Merged(NoList, rep.list, set.list, period.list)
    IN  CASE template # None -> [by |-> "template", template |-> The(template)]
          [] template = None /\ list # None -> [by |-> "list", list |-> The(list)]
          [] template = None /\ list = None -> [by |-> IF rep.base THEN "base" ELSE "single"]

(***************************************************************************)
(* The segments of a representation.                                        *)
(***************************************************************************)

(* Repetitions of one timeline entry after its first: declared, or until    *)
(* the period ends (-1).                                                    *)
Repeats(entry, time, end) ==
    IF entry.repeat >= 0
    THEN Good(entry.repeat)
    ELSE IF end = None \/ The(end) <= time
    THEN Error
    ELSE LET n == (The(end) - time) \div entry.duration
         IN  Good(IF n = 0 THEN 0 ELSE n - 1)

AddEntry_Restarts(end, acc, entry) ==
    LET time == OrElse(entry.time, 0)
        repeats == Repeats(entry, time, end)
    IN  IF ~acc.ok \/ entry.duration = 0 \/ (entry.time = None /\ acc.next = None)
        THEN [acc EXCEPT !.ok = FALSE]
        ELSE IF ~repeats.ok
        THEN [acc EXCEPT !.ok = FALSE]
        ELSE [ok |-> Len(acc.times) + repeats.value + 1 <= MaxSegments,
              times |-> acc.times \o [n \in 1..(repeats.value + 1) |-> time + (n - 1) * entry.duration],
              next |-> Some(time + (repeats.value + 1) * entry.duration)]

(* An entry starts at its own time, or where the one before it ended.        *)
AddEntry(end, acc, entry) ==
    LET time == The(Either(entry.time, acc.next))
        repeats == Repeats(entry, time, end)
    IN  IF ~acc.ok \/ entry.duration = 0 \/ (entry.time = None /\ acc.next = None)
        THEN [acc EXCEPT !.ok = FALSE]
        ELSE IF ~repeats.ok
        THEN [acc EXCEPT !.ok = FALSE]
        ELSE [ok |-> Len(acc.times) + repeats.value + 1 <= MaxSegments,
              times |-> acc.times \o [n \in 1..(repeats.value + 1) |-> time + (n - 1) * entry.duration],
              next |-> Some(time + (repeats.value + 1) * entry.duration)]

ExpandTimeline(entries, end) ==
    LET acc == FoldLeft(LAMBDA a, e : AddEntry(end, a, e),
                        [ok |-> TRUE, times |-> <<>>, next |-> None], entries)
    IN  IF acc.ok THEN Good(acc.times) ELSE Error

SegmentCount_Floor(millis, timescale, duration) ==
    IF millis = None \/ duration = 0 \/ timescale = 0
    THEN Error
    ELSE Good((The(millis) * timescale) \div (duration * 1000))

(* As many segments as it takes to reach the end of the period.              *)
SegmentCount(millis, timescale, duration) ==
    IF millis = None \/ duration = 0 \/ timescale = 0
    THEN Error
    ELSE Good((The(millis) * timescale + duration * 1000 - 1) \div (duration * 1000))

(* substitute_template: an identifier without a value is an error.           *)
Expands(media, values) == media = "Fixed" \/ media \in DOMAIN values

Url(media, value) == <<media, IF media = "Fixed" THEN 0 ELSE value>>

Fetch(uri) == StreamResource([uri |-> uri, range |-> None], FALSE, 0)
FetchInit(init) == [StreamResource(init, TRUE, 0) EXCEPT !.init = TRUE]
Inits(option) == IF option = None THEN <<>> ELSE <<FetchInit(The(option))>>

ByTemplate(template, millis) ==
    LET inits == Inits({[uri |-> <<"init">>, range |-> None] : i \in template.init})
        timescale == OrElse(template.timescale, 1)
        start == OrElse(template.start, 1)
        end == {(m * timescale) \div 1000 : m \in millis}
        media == The(template.media)
        times == ExpandTimeline(The(template.timeline), end)
        count == SegmentCount(millis, timescale, The(template.duration))
    IN  IF template.media = None
        THEN Error
        ELSE IF template.timeline # None
        THEN IF times.ok /\ (media # "Number" \/ times.value = <<>>) /\ Len(inits) + Len(times.value) <= MaxSegments
             THEN Good(inits \o [n \in DOMAIN times.value |-> Fetch(Url(media, times.value[n]))])
             ELSE Error
        ELSE IF template.duration = None \/ ~count.ok
        THEN Error
        ELSE IF count.value > MaxSegments - Len(inits) \/ (media = "Time" /\ count.value > 0)
        THEN Error
        ELSE Good(inits \o [n \in 1..count.value |-> Fetch(Url(media, start + n - 1))])

ByList(list) ==
    LET inits == Inits(list.init)
        urls == The(list.urls)
    IN  IF list.urls = None \/ Len(inits) + Len(urls) > MaxSegments
        THEN Error
        ELSE Good(inits \o [n \in DOMAIN urls |-> StreamResource(urls[n], FALSE, 0)])

(* A segment index is not read, and a directory is not a file.               *)
Resources(addressing, rep, millis) ==
    CASE addressing.by = "template" -> ByTemplate(addressing.template, millis)
      [] addressing.by = "list" -> ByList(addressing.list)
      [] addressing.by = "base" -> Error
      [] addressing.by = "single" -> IF rep.file THEN Good(<<Fetch(<<"file">>)>>) ELSE Error

PlanDashTrack(mpd, period, s, r) ==
    LET set == period.sets[s]
        rep == set.reps[r]
        millis == Either(period.duration, mpd.duration)
        resources == Resources(Addressing(rep, set, period), rep, millis)
    IN  IF ~resources.ok
        THEN Error
        ELSE TrackPlan(resources.value, millis, IF Kind(set) = "audio" THEN "m4a" ELSE "mp4", rep.bandwidth)

(***************************************************************************)
(* The choice of representations.                                           *)
(***************************************************************************)

Bandwidths(set) == {OrElse(set.reps[r].bandwidth, 0) : r \in DOMAIN set.reps}
BestBandwidth(set) == CHOOSE b \in Bandwidths(set) : \A c \in Bandwidths(set) : c <= b

BestSet(period, kinds) ==
    LET sets == {s \in DOMAIN period.sets : period.sets[s].reps # <<>> /\ Kind(period.sets[s]) \in kinds}
    IN  IF sets = {} THEN None ELSE Some(MaxByKey(sets, LAMBDA s : <<BestBandwidth(period.sets[s])>>))

AudioSet(period) == BestSet(period, {"audio"})
SelectSet(period) == Either(BestSet(period, {"video"}), BestSet(period, {"video", "audio", "unknown"}))

(* A size is declared when both of its sides are.                            *)
Resolution(rep) == {<<w, h>> : w \in rep.width, h \in rep.height}

BestRepresentation(set) ==
    MaxByKey(DOMAIN set.reps, LAMBDA r :
        <<OrElse(set.reps[r].bandwidth, 0)>> \o OrElse(Resolution(set.reps[r]), <<0, 0>>))

Best(period, set) ==
    {[set |-> s, rep |-> BestRepresentation(period.sets[s]),
      bandwidth |-> period.sets[s].reps[BestRepresentation(period.sets[s])].bandwidth] : s \in set}

DefaultTracks(period) ==
    LET set == SelectSet(period)
    IN  IF set = None
        THEN Error
        ELSE Good([video |-> Best(period, set),
                   audio |-> IF Kind(period.sets[The(set)]) = "video" THEN Best(period, AudioSet(period)) ELSE None])

ChoiceHolds_Anything(period, choice, kind) ==
    choice.set \in DOMAIN period.sets /\ choice.rep \in DOMAIN period.sets[choice.set].reps

(* A choice still names a representation of that kind and bandwidth.         *)
ChoiceHolds(period, choice, kind) ==
    /\ choice.set \in DOMAIN period.sets
    /\ Kind(period.sets[choice.set]) = kind
    /\ choice.rep \in DOMAIN period.sets[choice.set].reps
    /\ period.sets[choice.set].reps[choice.rep].bandwidth = choice.bandwidth

SelectedTracks(period, selection) ==
    IF /\ \A c \in selection.video : ChoiceHolds(period, c, "video")
       /\ \A c \in selection.audio : ChoiceHolds(period, c, "audio")
    THEN Good(selection)
    ELSE Error

PlanTracks(mpd, period, tracks) ==
    LET plan(choice) == PlanDashTrack(mpd, period, choice.set, choice.rep)
        video == plan(The(tracks.video))
        audio == plan(The(tracks.audio))
    IN  CASE tracks.video = None /\ tracks.audio = None -> Error
          [] tracks.video = None /\ tracks.audio # None -> audio
          [] tracks.video # None /\ tracks.audio = None -> video
          [] tracks.video # None /\ tracks.audio # None ->
                IF video.ok /\ audio.ok THEN WithAudio(video.value, audio.value) ELSE Error

PlanDash(mpd, selection) ==
    LET period == mpd.periods[The(MediaPeriod(mpd))]
        tracks == IF selection = None
                  THEN DefaultTracks(period) ELSE SelectedTracks(period, The(selection))
    IN  IF mpd.dynamic \/ MediaPeriod(mpd) = None
        THEN Error
        ELSE IF tracks.ok THEN PlanTracks(mpd, period, tracks.value) ELSE Error

(***************************************************************************)
(* What the presentation offers: each representation of the picture with    *)
(* the best sound, then each one of the sound.                              *)
(***************************************************************************)

Offered(period, set) ==
    {[set |-> s, rep |-> r, bandwidth |-> period.sets[s].reps[r].bandwidth] :
        s \in set, r \in UNION {DOMAIN period.sets[t].reps : t \in set}}

Offers(mpd) ==
    LET period == mpd.periods[The(MediaPeriod(mpd))]
        set == SelectSet(period)
        picture == set # None /\ Kind(period.sets[The(set)]) = "video"
        video == IF picture THEN set ELSE None
        audio == IF picture \/ set = None THEN AudioSet(period) ELSE set
    IN  IF mpd.dynamic \/ MediaPeriod(mpd) = None
        THEN {}
        ELSE {[video |-> Some(c), audio |-> Best(period, audio)] : c \in Offered(period, video)}
             \cup {[video |-> None, audio |-> Some(c)] : c \in Offered(period, audio)}
===============================================================================
