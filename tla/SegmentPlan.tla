----------------------------- MODULE SegmentPlan -----------------------------
(***************************************************************************)
(* A download plan (plan.rs): the resources to fetch, in order, each with   *)
(* the track of the presentation it belongs to, and how the plans of a      *)
(* picture and of its sound become one. MaxSegments is MAX_SEGMENTS.        *)
(***************************************************************************)
EXTENDS Optional, FiniteSets, SequencesExt

CONSTANTS MaxSegments

ByteRange(length, offset) == [length |-> length, offset |-> offset]

(* The bytes asked for: the whole resource, or one interval of it.           *)
ByteInterval(range) ==
    {[first |-> OrElse(r.offset, 0), last |-> OrElse(r.offset, 0) + r.length - 1] : r \in range}

StreamResource(ref, init, track) ==
    [uri |-> ref.uri, interval |-> ByteInterval(ref.range), init |-> init, track |-> track]

KnownLength(resources) ==
    IF \E i \in DOMAIN resources : resources[i].interval = None
    THEN None
    ELSE Some(FoldLeft(LAMBDA n, r : n + The(r.interval).last - The(r.interval).first + 1, 0, resources))

TrackPlan(resources, duration, container, bandwidth) ==
    IF resources = <<>> \/ Len(resources) > MaxSegments
    THEN Error
    ELSE Good([resources |-> resources, duration |-> duration,
               container |-> container, bandwidth |-> bandwidth])

(* Container::can_be_muxed.                                                  *)
Muxable == {"mp4", "m4a", "ts", "aac"}

Added(a, b) == IF a = None THEN b ELSE IF b = None THEN a ELSE Some(The(a) + The(b))
Longest(a, b) == IF a = None \/ (b # None /\ The(b) > The(a)) THEN b ELSE a

Retracked(resources, track) == [i \in DOMAIN resources |-> [resources[i] EXCEPT !.track = track]]

(* The sound's resources follow the picture's, as track 1, and the two      *)
(* become an MP4 file; anything that cannot be muxed is refused.            *)
WithAudio(video, audio) ==
    IF ~{video.container, audio.container} \subseteq Muxable
    THEN Error
    ELSE TrackPlan(video.resources \o Retracked(audio.resources, 1),
                   Longest(video.duration, audio.duration), "mp4",
                   Added(video.bandwidth, audio.bandwidth))

ResourcesOf(plan, track) == SelectSeq(plan.resources, LAMBDA r : r.track = track)

(* The size shown before anything is fetched: exact when every resource     *)
(* declares its length, else estimated from the bandwidth and the duration. *)
EstimatedTotal(plan) ==
    IF KnownLength(plan.resources) # None
    THEN KnownLength(plan.resources)
    ELSE {(The(plan.bandwidth) * d) \div 8000 : d \in {x \in plan.duration : plan.bandwidth # None}}
===============================================================================
