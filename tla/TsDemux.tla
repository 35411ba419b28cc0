------------------------------- MODULE TsDemux -------------------------------
(***************************************************************************)
(* Reading the samples out of a transport stream, or out of a file of ADTS  *)
(* frames (ts.rs).                                                          *)
(*                                                                         *)
(* A packet carries tokens in place of bytes. In a table a token begins a   *)
(* section of n tokens, continues one or is stuffing; in video a token is   *)
(* the start code and header of a NAL unit of its kind or a byte of its     *)
(* body; in audio it is an ADTS header of a frame of n tokens, an ID3 tag   *)
(* of n, or any other byte. `says` is what the token declares, or which     *)
(* byte it is. MaxPending is MAX_PENDING, MaxFrame MAX_FRAME_DURATION and   *)
(* DefaultFrame DEFAULT_FRAME_DURATION.                                     *)
(***************************************************************************)
EXTENDS Optional, Integers, FiniteSets, SequencesExt

CONSTANTS MaxPending, MaxFrame, DefaultFrame

Token(kind, n, says) == [kind |-> kind, n |-> n, says |-> says]
Drop(seq, n) == SubSeq(seq, n + 1, Len(seq))
Starts(seq, kinds) == {i \in DOMAIN seq : seq[i].kind \in kinds}
First(positions) == CHOOSE i \in positions : \A j \in positions : i <= j

(***************************************************************************)
(* Program tables.                                                          *)
(***************************************************************************)

RECURSIVE Sections(_)
Sections(bytes) ==
    IF bytes = <<>> \/ bytes[1].n > Len(bytes)
    THEN [done |-> <<>>, rest |-> bytes]
    ELSE IF bytes[1].kind = "stuffing"
    THEN [done |-> <<>>, rest |-> <<>>]
    ELSE LET more == Sections(Drop(bytes, bytes[1].n))
         IN  [done |-> <<bytes[1].says>> \o more.done, rest |-> more.rest]

(* A packet that starts a section drops what was being assembled; one that  *)
(* does not only continues it.                                              *)
SectionPush(section, packet) ==
    IF packet.start /\ packet.pointer > Len(packet.tokens)
    THEN [done |-> <<>>, rest |-> section, ok |-> FALSE]
    ELSE IF ~packet.start /\ section = <<>>
    THEN [done |-> <<>>, rest |-> section, ok |-> TRUE]
    ELSE LET read == Sections(IF packet.start THEN Drop(packet.tokens, packet.pointer)
                              ELSE section \o packet.tokens)
         IN  [done |-> read.done, rest |-> read.rest, ok |-> TRUE]

(* The association table names the first program's map; the map declares    *)
(* elementary streams, of which the first video and the first audio count.  *)
Programs(d, packet) ==
    LET read == SectionPush(d.pat, packet)
        maps == {i \in DOMAIN read.done : read.done[i].table = "pat" /\ read.done[i].program # None}
    IN  [d EXCEPT !.failed = ~read.ok, !.pat = read.rest,
                  !.pmtPid = IF maps = {} THEN @ ELSE read.done[First(maps)].program]

Declare(d, section) ==
    IF section.table # "pmt" THEN d
    ELSE [d EXCEPT !.videoPid = Either(@, section.video),
                   !.audioPid = Either(@, section.audio)]

ProgramMap(d, packet) ==
    LET read == SectionPush(d.pmt, packet)
    IN  FoldLeft(Declare, [d EXCEPT !.failed = ~read.ok, !.pmt = read.rest], read.done)

(***************************************************************************)
(* Video: the byte stream is cut into NAL units, those into access units.   *)
(***************************************************************************)

NoVideo ==
    [pending |-> <<>>, unit |-> <<>>, unitTimes |-> [pts |-> None, dts |-> None],
     times |-> [pts |-> None, dts |-> None], lastDts |-> 0, slice |-> FALSE, sync |-> FALSE,
     sps |-> FALSE, pps |-> FALSE, samples |-> <<>>]

NalStarts == {"aud", "idr", "slice", "sps", "pps"}
Slices == {"idr", "slice"}

(* An access unit is written as a sample: its own decode time, else its     *)
(* presentation time, else the last decode time, since no sample has a      *)
(* duration yet.                                                            *)
WriteVideo(v) ==
    LET t == v.unitTimes
        dts == OrElse(Either(t.dts, t.pts), v.lastDts)
        pts == OrElse(t.pts, dts)
    IN  [v EXCEPT
           !.samples = Append(@, [data |-> v.unit, dts |-> dts, sync |-> v.sync,
                                  composition |-> IF pts > dts THEN pts - dts ELSE 0]),
           !.lastDts = dts]

(* The access unit being assembled is complete.                             *)
FlushVideo(v) ==
    IF v.unit = <<>> THEN v
    ELSE [WriteVideo(v) EXCEPT !.unit = <<>>, !.slice = FALSE, !.sync = FALSE,
                               !.unitTimes = [pts |-> None, dts |-> None]]

Nal_LatestTimes(v, nal) ==
    LET kind == nal[1].kind
        boundary == kind = "aud" \/ (kind \in Slices /\ v.slice)
        w == IF boundary THEN FlushVideo(v) ELSE v
    IN  [w EXCEPT !.unitTimes = w.times,
                  !.slice = @ \/ kind \in Slices, !.sync = @ \/ kind = "idr",
                  !.sps = @ \/ kind = "sps", !.pps = @ \/ kind = "pps",
                  !.unit = @ \o nal]

(* A delimiter opens an access unit, and so does a slice after a slice. It  *)
(* has the times of the PES packet that is being read when it opens.        *)
Nal(v, nal) ==
    LET kind == nal[1].kind
        boundary == kind = "aud" \/ (kind \in Slices /\ v.slice)
        w == IF boundary THEN FlushVideo(v) ELSE v
    IN  [w EXCEPT !.unitTimes = IF w.unit = <<>> THEN w.times ELSE @,
                  !.slice = @ \/ kind \in Slices, !.sync = @ \/ kind = "idr",
                  !.sps = @ \/ kind = "sps", !.pps = @ \/ kind = "pps",
                  !.unit = @ \o nal]

(* Every NAL unit whose successor has begun is complete.                     *)
RECURSIVE TakeNals(_)
TakeNals(v) ==
    LET starts == Starts(v.pending, NalStarts)
        from == First(starts)
        to == First(starts \ {from})
    IN  IF starts = {} THEN v
        ELSE IF Cardinality(starts) = 1 THEN [v EXCEPT !.pending = Drop(@, from - 1)]
        ELSE TakeNals([Nal(v, SubSeq(v.pending, from, to - 1)) EXCEPT !.pending = Drop(@, to - 1)])

VideoPayload(d, packet) ==
    LET video == OrElse(d.video, NoVideo)
        timed == IF packet.start THEN [video EXCEPT !.times = The(packet.pes)] ELSE video
        read == TakeNals([timed EXCEPT !.pending = @ \o packet.tokens])
    IN  [d EXCEPT !.failed = Len(read.pending) > MaxPending, !.video = Some(read)]

(***************************************************************************)
(* Audio: frames, wherever the packets cut them.                            *)
(***************************************************************************)

NoAudio == [pending |-> <<>>, rate |-> None, samples |-> <<>>, failed |-> FALSE]

WriteAudio(a, frame) == [a EXCEPT !.samples = Append(@, frame)]

Frame(a, head, body) ==
    IF head.says.channels = 0 \/ (a.rate # None /\ a.rate # Some(head.says.rate))
    THEN [a EXCEPT !.failed = TRUE]
    ELSE WriteAudio([a EXCEPT !.rate = Some(head.says.rate)], body)

TakeFrames_Impatient(a) ==
    LET p == a.pending
        head == p[1]
        heads == Starts(p, {"adts"}) \ {1}
    IN  IF p = <<>> \/ a.failed THEN a
        ELSE IF head.kind = "id3"
        THEN IF Len(p) < head.n THEN [a EXCEPT !.pending = <<>>]
             ELSE [a EXCEPT !.pending = Drop(p, head.n)]
        ELSE IF head.kind # "adts"
        THEN [a EXCEPT !.pending = IF heads = {} THEN <<>> ELSE Drop(p, First(heads) - 1)]
        ELSE IF Len(p) < head.n THEN [a EXCEPT !.pending = <<>>]
        ELSE [Frame(a, head, SubSeq(p, 2, head.n)) EXCEPT !.pending = Drop(p, head.n)]

(* A tag is stepped over, anything that begins no frame is skipped up to    *)
(* the next sync word, and a frame is taken when it is all there.           *)
RECURSIVE TakeFrames(_)
TakeFrames(a) ==
    LET p == a.pending
        head == p[1]
        heads == Starts(p, {"adts"}) \ {1}
    IN  IF p = <<>> \/ a.failed THEN a
        ELSE IF head.kind = "id3"
        THEN IF Len(p) < head.n THEN a ELSE TakeFrames([a EXCEPT !.pending = Drop(p, head.n)])
        ELSE IF head.kind # "adts"
        THEN IF heads = {} THEN [a EXCEPT !.pending = <<>>]
             ELSE TakeFrames([a EXCEPT !.pending = Drop(p, First(heads) - 1)])
        ELSE IF Len(p) < head.n THEN a
        ELSE TakeFrames([Frame(a, head, SubSeq(p, 2, head.n)) EXCEPT !.pending = Drop(p, head.n)])

PushAudio(a, tokens) ==
    LET read == TakeFrames([a EXCEPT !.pending = @ \o tokens])
    IN  [read EXCEPT !.failed = @ \/ Len(read.pending) > MaxPending]

AudioPayload(d, packet) ==
    LET read == PushAudio(OrElse(d.audio, NoAudio), packet.tokens)
    IN  [d EXCEPT !.failed = read.failed, !.audio = Some(read)]

(***************************************************************************)
(* The stream.                                                              *)
(***************************************************************************)

NewDemuxer ==
    [pat |-> <<>>, pmt |-> <<>>, pmtPid |-> None, videoPid |-> None, audioPid |-> None,
     video |-> None, audio |-> None, failed |-> FALSE]

(* A damaged packet is skipped; one that should start a PES packet and does *)
(* not ends the reading, as one out of alignment does.                      *)
ReadPacket(d, packet) ==
    LET pes == {d.videoPid, d.audioPid}
    IN  CASE d.failed -> d
          [] ~d.failed /\ packet.damaged -> d
          [] ~d.failed /\ ~packet.damaged ->
             IF packet.pid = 0
             THEN Programs(d, packet)
             ELSE IF d.pmtPid = Some(packet.pid)
             THEN ProgramMap(d, packet)
             ELSE IF Some(packet.pid) \in pes /\ packet.start /\ packet.pes = None
             THEN [d EXCEPT !.failed = TRUE]
             ELSE IF d.videoPid = Some(packet.pid)
             THEN VideoPayload(d, packet)
             ELSE IF d.audioPid = Some(packet.pid)
             THEN AudioPayload(d, packet)
             ELSE d

(* Each sample lasts until the next one is decoded; a jump, or a time that  *)
(* goes back, repeats the duration before it.                               *)
RECURSIVE DurationAt(_, _)
DurationAt(samples, i) ==
    LET previous == IF i = 1 THEN DefaultFrame ELSE DurationAt(samples, i - 1)
        delta == samples[i + 1].dts - samples[i].dts
    IN  IF i = Len(samples) THEN previous
        ELSE IF delta > 0 /\ delta <= MaxFrame THEN delta ELSE previous

Durations(samples) == [i \in DOMAIN samples |-> DurationAt(samples, i)]

(* The end of the file completes the access unit being assembled, but not   *)
(* the NAL unit that no start code has ended.                               *)
VideoTrack(v) ==
    LET samples == FlushVideo(v).samples
    IN  IF samples = <<>> \/ ~v.sps \/ ~v.pps
        THEN Error
        ELSE Good([samples |-> samples, durations |-> Durations(samples)])

AudioTrack(a) ==
    IF a.samples = <<>> THEN Error
    ELSE Good([samples |-> a.samples, durations |-> [i \in DOMAIN a.samples |-> 1024]])

(* One track or nothing: two are refused, and none.                          *)
Finish(d) ==
    IF d.failed \/ (d.video = None) = (d.audio = None)
    THEN Error
    ELSE IF d.video # None THEN VideoTrack(The(d.video)) ELSE AudioTrack(The(d.audio))

(* The file is read packet by packet; one of none is refused like one that  *)
(* names no track.                                                          *)
Demux(packets) == Finish(FoldLeft(ReadPacket, NewDemuxer, packets))

(* A file of ADTS frames, read in chunks.                                    *)
DemuxAdts(chunks) ==
    LET a == FoldLeft(PushAudio, NoAudio, chunks)
    IN  IF a.failed THEN Error ELSE AudioTrack(a)
===============================================================================
