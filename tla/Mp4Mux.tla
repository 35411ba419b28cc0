-------------------------------- MODULE Mp4Mux --------------------------------
(***************************************************************************)
(* One MP4 file from a picture and a sound (mux.rs): the fragments of a     *)
(* track file are read into one list of samples, and the samples of both    *)
(* tracks are written one track after the other behind tables that say      *)
(* where they are and when they play. A byte of a track is named by its     *)
(* track and its position. Box sizes are in units of one header; U32Max is  *)
(* the largest value of a 32-bit field, MovieTimescale is MOVIE_TIMESCALE.   *)
(***************************************************************************)
EXTENDS Optional, Integers, FiniteSets, SequencesExt

CONSTANTS U32Max, MovieTimescale

SumOf(numbers) == FoldLeft(LAMBDA n, m : n + m, 0, numbers)
Sizes(samples) == [i \in DOMAIN samples |-> samples[i].size]
DurationsOf(samples) == [i \in DOMAIN samples |-> samples[i].duration]
SampleBytes(samples) == SumOf(Sizes(samples))

(***************************************************************************)
(* Reading a track.                                                         *)
(***************************************************************************)

NoFragments == [ok |-> TRUE, samples |-> <<>>, decoded |-> 0, origin |-> None]
Refused(fragments) == [fragments EXCEPT !.ok = FALSE]

(* The timeline of the samples read so far is brought to the decode time of *)
(* a fragment: the sample before a gap lasts longer, an overlap is refused. *)
Align(fragments, base) ==
    LET gap == base - (The(fragments.origin) + fragments.decoded)
        last == Len(fragments.samples)
    IN  IF fragments.origin = None
        THEN [fragments EXCEPT !.origin = Some(base)]
        ELSE IF gap < 0 \/ gap > U32Max \/ (gap > 0 /\ last = 0)
        THEN Refused(fragments)
        ELSE IF gap = 0
        THEN fragments
        ELSE IF fragments.samples[last].duration + gap > U32Max
        THEN Refused(fragments)
        ELSE [fragments EXCEPT !.samples[last].duration = @ + gap, !.decoded = @ + gap]

(* A run of samples: what a sample leaves out is the fragment's default, and *)
(* the flags of the first sample may be the run's own.                       *)
PushSample(fragments, header, run, index, offset) ==
    LET entry == run.samples[index]
        duration == Either(entry.duration, header.duration)
        size == Either(entry.size, header.size)
        first == IF index = 1 THEN Either(run.firstSync, header.sync) ELSE header.sync
        sync == Either(entry.sync, first)
    IN  IF duration = None \/ size = None
        THEN Refused(fragments)
        ELSE [fragments EXCEPT
                !.samples = Append(@, [offset |-> offset, size |-> The(size), duration |-> The(duration),
                                       composition |-> entry.composition, sync |-> OrElse(sync, TRUE)]),
                !.decoded = @ + The(duration)]

(* A run starts where it says, from the start of its fragment unless the     *)
(* fragment states a base, or where the run before it ended.                 *)
PushRun(state, header, run, fragment) ==
    LET base == OrElse(header.base, fragment)
        start == IF run.offset = None THEN state.cursor ELSE Some(base + The(run.offset))
        Push(s, index) ==
            IF ~s.fragments.ok
            THEN s
            ELSE LET pushed == PushSample(s.fragments, header, run, index, The(s.cursor))
                 IN  [fragments |-> pushed,
                      cursor |-> IF pushed.ok THEN Some(The(s.cursor) + Last(pushed.samples).size) ELSE s.cursor]
    IN  IF ~state.fragments.ok
        THEN state
        ELSE IF start = None \/ The(start) < 0
        THEN [state EXCEPT !.fragments = Refused(@)]
        ELSE FoldLeft(Push, [state EXCEPT !.cursor = start], [i \in DOMAIN run.samples |-> i])

PushTraf(fragments, traf, fragment) ==
    LET aligned == IF traf.time = None THEN fragments ELSE Align(fragments, The(traf.time))
    IN  IF ~fragments.ok \/ traf.description \notin {None, Some(1)}
        THEN Refused(fragments)
        ELSE FoldLeft(LAMBDA s, run : PushRun(s, traf, run, fragment),
                      [fragments |-> aligned, cursor |-> None], traf.runs).fragments

(* One box after the other. A box that ends with the file hides what follows *)
(* it, and a box whose size cannot be read ends everything.                  *)
NextBox(s, box) ==
    LET fragments ==
            IF box.kind = "moof"
            THEN FoldLeft(LAMBDA f, traf : PushTraf(f, traf, s.position), s.fragments, box.trafs)
            ELSE s.fragments
    IN  IF s.done \/ ~s.fragments.ok
        THEN s
        ELSE IF box.form \in {"long", "impossible"}
        THEN [s EXCEPT !.fragments = Refused(@)]
        ELSE [fragments |-> fragments, position |-> s.position + box.size, done |-> box.form = "rest",
              media |-> IF box.kind = "moov" THEN box.media ELSE s.media]

(* A track of ISO media: it needs an initialization that describes it, which *)
(* is here its media header (None where there is no movie box), and at least *)
(* one sample. A wide header has 64 bits for the duration.                   *)
MediaHeader(timescale, wide) == [timescale |-> timescale, wide |-> wide]
DemuxMp4(file) ==
    LET read == FoldLeft(NextBox, [fragments |-> NoFragments, position |-> 0, done |-> FALSE,
                                   media |-> None], file)
    IN  IF ~read.fragments.ok \/ (\A m \in read.media : m.timescale = 0) \/ read.fragments.samples = <<>>
        THEN Error
        ELSE Good([timescale |-> The(read.media).timescale, wide |-> The(read.media).wide,
                   samples |-> read.fragments.samples, duration |-> read.fragments.decoded])

(* A track that was demuxed from a transport stream or an ADTS file.        *)
FromElementary(timescale, samples) ==
    [timescale |-> timescale, wide |-> FALSE, samples |-> samples,
     duration |-> SumOf(DurationsOf(samples))]

(***************************************************************************)
(* Writing the file.                                                        *)
(***************************************************************************)

DurationIn(track, timescale) == (track.duration * timescale) \div track.timescale

(* Runs of equal values, each with its length.                               *)
RunLengths(values) ==
    LET Extend(runs, value) ==
            IF runs # <<>> /\ Last(runs).value = value
            THEN [runs EXCEPT ![Len(runs)].count = @ + 1]
            ELSE Append(runs, [count |-> 1, value |-> value])
    IN  FoldLeft(Extend, <<>>, values)

BuildStts(samples) == RunLengths(DurationsOf(samples))
BuildCtts(samples) ==
    IF \A i \in DOMAIN samples : samples[i].composition = 0
    THEN None
    ELSE Some(RunLengths([i \in DOMAIN samples |-> samples[i].composition]))
BuildStss(samples) ==
    IF \A i \in DOMAIN samples : samples[i].sync
    THEN None
    ELSE Some(SelectSeq([i \in DOMAIN samples |-> i], LAMBDA i : samples[i].sync))

Trak(track) ==
    [timescale |-> track.timescale, duration |-> track.duration, sizes |-> Sizes(track.samples),
     stts |-> BuildStts(track.samples), ctts |-> BuildCtts(track.samples), stss |-> BuildStss(track.samples)]

TrakSize(trak, large) ==
    Len(trak.sizes) + Len(trak.stts) + Len(OrElse(trak.ctts, <<>>)) + Len(OrElse(trak.stss, <<>>))
    + (IF large THEN 2 ELSE 1)
MoovSize(traks, large) == 1 + SumOf([t \in DOMAIN traks |-> TrakSize(traks[t], large)])

FtypSize == 1
MdatHeaderSize(payload) == IF payload > U32Max - 1 THEN 2 ELSE 1

(* The bytes of every sample, in order, or an error where a sample runs     *)
(* past the end of its track.                                                *)
CopySamples(name, samples, length) ==
    IF \E i \in DOMAIN samples : samples[i].size > 0 /\ samples[i].offset + samples[i].size > length
    THEN Error
    ELSE Good(FlattenSeq([i \in DOMAIN samples |->
                            [b \in 1..samples[i].size |-> <<name, samples[i].offset + b - 1>>]]))

(* A layout in which every track begins where the first one does.             *)
ChunkStart_Same(tracks, header, t) == header

(* The samples of track t begin behind those of the tracks before it.        *)
ChunkStart(tracks, header, t) ==
    header + SumOf([u \in 1..(t - 1) |-> SampleBytes(tracks[u].samples)])

(* Offsets are 32 bits wide unless the file is larger than they reach.       *)
NeedsLargeOffsets(traks, payload) == FtypSize + MoovSize(traks, FALSE) + 1 + payload > U32Max

(* The longest track is as long as the movie.                                *)
MovieDuration(tracks) ==
    FoldLeft(LAMBDA d, t : IF DurationIn(t, MovieTimescale) > d THEN DurationIn(t, MovieTimescale) ELSE d,
             0, tracks)

(* The movie header has 32 bits for its duration, and so have the headers    *)
(* of a track unless it came with wider ones.                                *)
DurationsFit(tracks) ==
    /\ MovieDuration(tracks) <= U32Max
    /\ \A t \in DOMAIN tracks : tracks[t].wide \/ tracks[t].duration <= U32Max

(* The file, from the tracks and the lengths of their files.                 *)
WriteMp4(tracks, lengths) ==
    LET traks == [t \in DOMAIN tracks |-> Trak(tracks[t])]
        payload == SumOf([t \in DOMAIN tracks |-> SampleBytes(tracks[t].samples)])
        large == NeedsLargeOffsets(traks, payload)
        header == FtypSize + MoovSize(traks, large) + MdatHeaderSize(payload)
        starts == [t \in DOMAIN tracks |-> ChunkStart(tracks, header, t)]
        copies == [t \in DOMAIN tracks |-> CopySamples(t, tracks[t].samples, lengths[t])]
    IN  IF \/ ~DurationsFit(tracks)
           \/ ~large /\ \E t \in DOMAIN starts : starts[t] > U32Max
           \/ \E t \in DOMAIN copies : ~copies[t].ok
        THEN Error
        ELSE Good([traks |-> traks, starts |-> starts, large |-> large, header |-> header,
                   duration |-> MovieDuration(tracks),
                   data |-> FlattenSeq([t \in DOMAIN copies |-> copies[t].value]),
                   total |-> header + payload])

(* Nothing is written unless every input was read as a track.                *)
MuxMp4(reads, lengths) ==
    IF \E t \in DOMAIN reads : ~reads[t].ok
    THEN Error
    ELSE WriteMp4([t \in DOMAIN reads |-> reads[t].value], lengths)
===============================================================================
