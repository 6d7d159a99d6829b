---------------------------- MODULE Transcoding ----------------------------
(***************************************************************************)
(* MP4Transcoder::transcode (video_service/infrastructure): one input file *)
(* becomes one .mp4 file.  An mp4 file of the configured codec is copied;  *)
(* any other is demultiplexed, its video decoded and encoded again, its    *)
(* audio passed through.  Every call into libav or the file system may     *)
(* fail, and each failure returns at once.                                 *)
(*                                                                         *)
(* A packet is its position in the input file, a frame the packet it was   *)
(* decoded from.  The codecs are external: each delays what it is given by *)
(* a fixed number of frames, refuses more while it has output waiting, and *)
(* gives up the rest only when it is told that the input has ended.        *)
(* Timestamps, and the reordering they undo, are left out.                 *)
(***************************************************************************)
EXTENDS Naturals, Sequences

CONSTANTS
  MaxPackets,     (* bound on the packets of an input file                   *)
  DecoderDelay,   (* frames the decoder keeps back                           *)
  EncoderDelay    (* frames the encoder keeps back                           *)

ASSUME TranscodingAssumption ==
  /\ MaxPackets \in Nat
  /\ DecoderDelay \in Nat
  /\ EncoderDelay \in Nat

VARIABLES
  source,   (* the input file                                                *)
  target,   (* the output file: "none", "old" (there before), "partial",     *)
            (* "complete"                                                    *)
  at,       (* place in transcode()                                          *)
  next,     (* position of the packet av_read_frame reads next               *)
  decoder,  (* frames in the decoder                                         *)
  encoder,  (* frames in the encoder                                         *)
  muxed,    (* packets written to the output, in order                       *)
  owned,    (* what the call has allocated and not released                  *)
  result    (* "none", "failed", or success with the format of the file      *)
            (* "known" or left "blank"                                       *)

data == <<next, decoder, encoder, muxed>>
vars == <<source, target, at, data, owned, result>>

Streams == {"video", "audio", "other"}
Packets == UNION {[1..n -> Streams] : n \in 0..MaxPackets}
HasStream(packets, s) == \E i \in DOMAIN packets : packets[i] = s

Resources == {"input", "dec", "output", "enc", "avio", "frame", "packet"}

(* Whether a stream exists is in the file's header; packets of a stream     *)
(* that does not exist cannot occur.                                        *)
Sources ==
  {s \in [mp4 : BOOLEAN, targetCodec : BOOLEAN, video : BOOLEAN, audio : BOOLEAN,
          packets : Packets] :
     /\ HasStream(s.packets, "video") => s.video
     /\ HasStream(s.packets, "audio") => s.audio}

-----------------------------------------------------------------------------
(* Returning.  An error path releases nothing.                              *)

Fail(acquired, file) ==
  /\ at' = "returned"
  /\ result' = "failed"
  /\ owned' = owned \cup acquired
  /\ target' = file
  /\ UNCHANGED <<source, data>>

(* getVideoFormatFromContext: blank once the context is gone.               *)
FormatOf(context, contexts) == IF context \in contexts THEN "known" ELSE "blank"

-----------------------------------------------------------------------------
(* openInputFile and initVideoDecoder                                       *)

CopySuffices == source.targetCodec /\ source.mp4

(* What has been allocated when one of the calls fails.                     *)
InputStages == {{}, {"input"}}
DecoderStages == {{"input"}, {"input", "dec"}}

OpenInput ==
  /\ at = "open"
  /\ source.video
  /\ owned' = {"input", "dec"}
  /\ at' = IF CopySuffices THEN "copy" ELSE "create"
  /\ UNCHANGED <<source, target, data, result>>

OpenInputFails ==
  /\ at = "open"
  /\ \E acquired \in InputStages \cup (IF source.video THEN DecoderStages ELSE {}) :
       Fail(acquired, target)

-----------------------------------------------------------------------------
(* The copy.  The encoder context is released, which was never allocated,   *)
(* and the decoder context is kept.                                         *)

(* Mutant of ReleasedBeforeCopy: the decoder context, before its last use.  *)
DecoderAndInput == {"dec", "input"}

ReleasedBeforeCopy == {"enc", "input"}

ReturnCopy ==
  /\ target' = "complete"
  /\ at' = "returned"
  /\ result' = FormatOf("dec", owned')
  /\ UNCHANGED <<source, data>>

BrokenCopy == IF target = "none" THEN {"none", "partial"} ELSE {target}

Copy ==
  /\ at = "copy"
  /\ target = "none"
  /\ owned' = owned \ ReleasedBeforeCopy
  /\ ReturnCopy

CopyFails ==
  /\ at \in {"copy", "replace"}
  /\ at' = "returned"
  /\ result' = "failed"
  /\ target' \in BrokenCopy \cup (IF at = "replace" THEN {"none", "partial"} ELSE {})
  /\ owned' = owned \ ReleasedBeforeCopy
  /\ UNCHANGED <<source, data>>

CopyMeetsFile ==
  /\ at = "copy"
  /\ target # "none"
  /\ owned' = owned \ ReleasedBeforeCopy
  /\ at' = "replace"
  /\ UNCHANGED <<source, target, data, result>>

Replace ==
  /\ at = "replace"
  /\ owned' = owned
  /\ ReturnCopy

-----------------------------------------------------------------------------
(* openOutputFile with initVideoEncoder, the header, frame and packet       *)

OutputStages == {{}, {"output"}}
EncoderStages == {{"output"}, {"output", "enc"}}

CreateOutput ==
  /\ at = "create"
  /\ owned' = owned \cup {"output", "enc", "avio"}
  /\ target' = "partial"
  /\ at' = "header"
  /\ UNCHANGED <<source, data, result>>

CreateOutputFails ==
  /\ at = "create"
  /\ \E acquired \in OutputStages \cup EncoderStages : Fail(acquired, target)

WriteHeader ==
  /\ at = "header"
  /\ owned' = owned \cup {"frame", "packet"}
  /\ at' = "read"
  /\ UNCHANGED <<source, target, data, result>>

WriteHeaderFails ==
  /\ at = "header"
  /\ \E acquired \in {{}, {"frame"}, {"packet"}} : Fail(acquired, target)

-----------------------------------------------------------------------------
(* The loop over the packets                                                *)

Reading(s) ==
  /\ at = "read"
  /\ next <= Len(source.packets)
  /\ source.packets[next] = s
  /\ next' = next + 1

ReadVideo ==
  /\ Reading("video")
  /\ Len(decoder) <= DecoderDelay
  /\ decoder' = Append(decoder, next)
  /\ at' = "decode"
  /\ UNCHANGED <<source, target, encoder, muxed, owned, result>>

(* Mutant of PassAudio: audio is dropped like any other stream.             *)
DropAudio ==
  /\ Reading("audio")
  /\ UNCHANGED <<source, target, at, decoder, encoder, muxed, owned, result>>

PassAudio ==
  /\ Reading("audio")
  /\ muxed' = Append(muxed, next)
  /\ UNCHANGED <<source, target, at, decoder, encoder, owned, result>>

SkipOther ==
  /\ Reading("other")
  /\ UNCHANGED <<source, target, at, decoder, encoder, muxed, owned, result>>

(* The loop ends with the input, or with any error while reading it.        *)
ReadEnds ==
  /\ at = "read"
  /\ at' = "flush"
  /\ UNCHANGED <<source, target, data, owned, result>>

(* A frame goes from the decoder to the encoder, if that takes it.          *)
Decode ==
  /\ at = "decode"
  /\ Len(decoder) > DecoderDelay
  /\ Len(encoder) <= EncoderDelay
  /\ encoder' = Append(encoder, Head(decoder))
  /\ decoder' = Tail(decoder)
  /\ at' = "encode"
  /\ UNCHANGED <<source, target, next, muxed, owned, result>>

DecodeEnds ==
  /\ at = "decode"
  /\ Len(decoder) <= DecoderDelay
  /\ at' = "read"
  /\ UNCHANGED <<source, target, data, owned, result>>

MuxHead ==
  /\ muxed' = Append(muxed, Head(encoder))
  /\ encoder' = Tail(encoder)
  /\ UNCHANGED <<source, target, at, next, decoder, owned, result>>

Encode ==
  /\ at = "encode"
  /\ Len(encoder) > EncoderDelay
  /\ MuxHead

(* Mutant of EncodeEnds: one packet at most is fetched from the encoder.    *)
EncodeEndsEarly ==
  /\ at = "encode"
  /\ at' = "decode"
  /\ UNCHANGED <<source, target, data, owned, result>>

EncodeEnds ==
  /\ at = "encode"
  /\ Len(encoder) <= EncoderDelay
  /\ at' = "decode"
  /\ UNCHANGED <<source, target, data, owned, result>>

-----------------------------------------------------------------------------
(* The end: the encoder is flushed, the decoder is not.                     *)

Flush ==
  /\ at = "flush"
  /\ encoder # <<>>
  /\ MuxHead

(* Mutant of FlushEnds: the encoder is not flushed.                         *)
FlushOmitted ==
  /\ at = "flush"
  /\ at' = "trailer"
  /\ UNCHANGED <<source, target, data, owned, result>>

FlushEnds ==
  /\ at = "flush"
  /\ encoder = <<>>
  /\ at' = "trailer"
  /\ UNCHANGED <<source, target, data, owned, result>>

(* Mutant of Released: the output context is forgotten.                     *)
ReleasedNotOutput == {"dec", "enc", "input", "avio", "frame", "packet"}

(* freeContext, and the frame and the packet.                               *)
Released == {"dec", "enc", "input", "avio", "output", "frame", "packet"}

WriteTrailer ==
  /\ at = "trailer"
  /\ target' = "complete"
  /\ result' = FormatOf("enc", owned)
  /\ owned' = owned \ Released
  /\ at' = "returned"
  /\ UNCHANGED <<source, data>>

(* Sending, receiving, cloning or writing failed.                           *)
StepFails ==
  /\ at \in {"read", "decode", "encode", "flush", "trailer"}
  /\ Fail({}, target)

-----------------------------------------------------------------------------
Init ==
  /\ source \in Sources
  /\ target \in {"none", "old"}
  /\ at = "open"
  /\ next = 1
  /\ decoder = <<>> /\ encoder = <<>> /\ muxed = <<>>
  /\ owned = {}
  /\ result = "none"

Opening == OpenInput \/ OpenInputFails

Copying == Copy \/ CopyFails \/ CopyMeetsFile \/ Replace

Creating == CreateOutput \/ CreateOutputFails \/ WriteHeader \/ WriteHeaderFails

Transcode ==
  \/ ReadVideo \/ PassAudio \/ SkipOther \/ ReadEnds
  \/ Decode \/ DecodeEnds \/ Encode \/ EncodeEnds
  \/ Flush \/ FlushEnds \/ WriteTrailer \/ StepFails

Next == Opening \/ Copying \/ Creating \/ Transcode

Spec == Init /\ [][Next]_vars

-----------------------------------------------------------------------------
(* Properties                                                               *)

Places == {"open", "copy", "replace", "create", "header", "read", "decode",
           "encode", "flush", "trailer", "returned"}

(* Types, and the call has returned exactly when it has a result.           *)
TypeOK ==
  /\ source \in Sources
  /\ target \in {"none", "old", "partial", "complete"}
  /\ at \in Places
  /\ next \in 1..(Len(source.packets) + 1)
  /\ decoder \in Seq(Nat) /\ encoder \in Seq(Nat) /\ muxed \in Seq(Nat)
  /\ owned \subseteq Resources
  /\ result \in {"none", "failed", "known", "blank"}
  /\ at = "returned" <=> result # "none"

Succeeded == result \in {"known", "blank"}
IsVideo(i) == source.packets[i] = "video"
IsAudio(i) == source.packets[i] = "audio"

(* What is on its way through the codecs, and before it what is written.    *)
Codecs == encoder \o decoder
Pipeline == muxed \o Codecs

(* No frame is lost, doubled or overtaken on its way: what has been written *)
(* and what the codecs hold is exactly the video and audio read so far,     *)
(* each stream in the order of the input, and no audio is held back         *)
(* (mp4_transcoder.cpp:118-201).                                            *)
Conservation ==
  /\ {Pipeline[k] : k \in 1..Len(Pipeline)} =
       {i \in 1..(next - 1) : IsVideo(i) \/ IsAudio(i)}
  /\ \A j, k \in 1..Len(Pipeline) :
       j < k /\ source.packets[Pipeline[j]] = source.packets[Pipeline[k]]
         => Pipeline[j] < Pipeline[k]
  /\ \A k \in 1..Len(Codecs) : IsVideo(Codecs[k])

(* The codecs never refuse a packet or a frame for want of room, because    *)
(* each is drained before it is fed again (lines 125, 130-158).             *)
NeverRefused ==
  /\ at = "read" => Len(decoder) <= DecoderDelay
  /\ at = "decode" => Len(encoder) <= EncoderDelay

(* A file reported as transcoded has its trailer and all the encoder had;   *)
(* of the video read, it lacks no more than the decoder keeps back, because *)
(* the decoder is never flushed (lines 188-206).                            *)
SuccessIsWhole ==
  Succeeded =>
    /\ target = "complete"
    /\ encoder = <<>>
    /\ Len(decoder) <= DecoderDelay

(* A file is never recorded without its format, whichever context the       *)
(* format is taken from (lines 67, 92, 208, 389-410).                       *)
FormatIsKnown == result # "blank"

(* What a call leaves allocated, on every way out: freeContext is called at *)
(* one place, before the last return, and no error return releases what has *)
(* been acquired.  A successful transcode leaves nothing.  One that failed  *)
(* leaves the output file open, with both codecs and both contexts, exactly *)
(* when a partial file is left behind; if it failed before, it leaves at    *)
(* most what the two opening functions had acquired.  A copy leaves the     *)
(* decoder even when it succeeds, and never opens an output                 *)
(* (mp4_transcoder.cpp:57-218).                                             *)
ToCopy == {"input", "dec"}
ToTranscode == ToCopy \cup {"output", "enc"}

LeakBound ==
  at = "returned" =>
    IF CopySuffices
      THEN IF Succeeded THEN owned = {"dec"} ELSE owned \subseteq ToCopy
      ELSE /\ Succeeded => owned = {}
           /\ ~Succeeded /\ target = "partial" => ToTranscode \cup {"avio"} \subseteq owned
           /\ ~Succeeded /\ target # "partial" => owned \subseteq ToTranscode
=============================================================================
