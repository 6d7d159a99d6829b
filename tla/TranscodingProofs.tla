-------------------------- MODULE TranscodingProofs --------------------------
(***************************************************************************)
(* What a transcoding call guarantees for any input file and any delays of *)
(* the codecs.  Filling says how full the codecs may be at each place of   *)
(* transcode(), Holding what the call owns there, which way it took and    *)
(* whether it has begun an output file.                                    *)
(* Conservation is inductive as it stands: packets enter the pipeline at   *)
(* the end, or behind what is written, and move through it in order.       *)
(***************************************************************************)
EXTENDS Transcoding, TLAPS, SequenceTheorems

Early == {"open", "copy", "replace", "create", "header"}
Loop == {"read", "decode", "encode", "flush", "trailer"}

Filling ==
  /\ at \in Early => decoder = <<>> /\ encoder = <<>>
  /\ at \in {"read", "flush", "trailer"} => Len(decoder) <= DecoderDelay
  /\ at \in {"read", "decode"} => Len(encoder) <= EncoderDelay
  /\ at = "trailer" => encoder = <<>>

Holding ==
  /\ at = "open" => owned = {}
  /\ at \in {"copy", "create"} => owned = {"input", "dec"}
  /\ at = "replace" => owned = {"dec"}
  /\ at = "header" => owned = {"input", "dec", "output", "enc", "avio"}
  /\ at \in Loop => owned = Resources
  /\ at \in {"copy", "replace"} => CopySuffices
  /\ at \in {"create", "header"} \cup Loop => ~CopySuffices
  /\ at \in {"open", "create"} => target # "partial"
  /\ at \in {"header"} \cup Loop => target = "partial"

IndInv == TypeOK /\ Filling /\ Holding /\ SuccessIsWhole /\ FormatIsKnown /\ LeakBound

-----------------------------------------------------------------------------
LEMMA PacketFacts ==
  ASSUME NEW s \in Sources
  PROVE  s.packets \in Seq(Streams) /\ Len(s.packets) \in Nat
<1>1. s.packets \in Packets
  BY DEF Sources
<1>2. PICK n \in 0..MaxPackets : s.packets \in [1..n -> Streams]
  BY <1>1 DEF Packets
<1> QED
  BY <1>2, TranscodingAssumption

LEMMA Queues ==
  ASSUME NEW q \in Seq(Nat)
  PROVE  /\ Len(q) \in Nat
         /\ Len(<<>>) = 0
         /\ \A n \in Nat : Append(q, n) \in Seq(Nat)
         /\ q # <<>> => /\ Head(q) \in Nat /\ Tail(q) \in Seq(Nat)
                        /\ Len(Tail(q)) = Len(q) - 1
         /\ Len(q) > 0 => q # <<>>
<1>1. q # <<>> => Head(q) \in Nat /\ Tail(q) \in Seq(Nat) /\ Len(Tail(q)) = Len(q) - 1
  BY HeadTailProperties
<1>2. \A n \in Nat : Append(q, n) \in Seq(Nat)
  BY AppendProperties
<1> QED
  BY <1>1, <1>2, EmptySeq, LenProperties

LEMMA InitIndInv == Init => IndInv
<1> SUFFICES ASSUME Init PROVE IndInv
  OBVIOUS
<1> USE DEF Init
<1>1. decoder \in Seq(Nat) /\ encoder \in Seq(Nat) /\ muxed \in Seq(Nat)
  BY EmptySeq
<1>2. next \in 1..(Len(source.packets) + 1)
  BY PacketFacts
<1>3. TypeOK
  BY <1>1, <1>2 DEF TypeOK, Places, Resources
<1>4. Filling /\ Holding
  BY DEF Filling, Holding, Loop
<1>5. SuccessIsWhole /\ FormatIsKnown /\ LeakBound
  BY DEF SuccessIsWhole, FormatIsKnown, LeakBound, Succeeded
<1> QED
  BY <1>3, <1>4, <1>5 DEF IndInv

LEMMA TypeStep == IndInv /\ [Next]_vars => TypeOK'
<1> SUFFICES ASSUME IndInv, [Next]_vars PROVE TypeOK'
  OBVIOUS
<1>0. /\ TypeOK /\ Len(source.packets) \in Nat
      /\ \A n \in Nat : \A q \in Seq(Nat) : Append(q, n) \in Seq(Nat)
      /\ \A q \in Seq(Nat) : Len(q) > 0 => q # <<>>
      /\ \A q \in Seq(Nat) : q # <<>> => Head(q) \in Nat /\ Tail(q) \in Seq(Nat)
  BY Queues, PacketFacts DEF IndInv, TypeOK
<1>1. CASE Opening
  BY <1>0, <1>1
     DEF Opening, OpenInput, OpenInputFails, Fail, InputStages, DecoderStages, data, TypeOK, Places, Resources
<1>2. CASE Copying
  BY <1>0, <1>2
     DEF Copying, Copy, CopyFails, CopyMeetsFile, Replace, ReturnCopy, FormatOf, BrokenCopy,
         data, TypeOK, Places, Resources
<1>3. CASE Creating
  BY <1>0, <1>3
     DEF Creating, CreateOutput, CreateOutputFails, WriteHeader, WriteHeaderFails, Fail,
         OutputStages, EncoderStages, data, TypeOK, Places, Resources
<1>4. CASE ReadVideo \/ PassAudio \/ SkipOther
  <2>1. next \in Nat /\ next' \in 1..(Len(source'.packets) + 1) /\ source' = source
    BY <1>0, <1>4 DEF ReadVideo, PassAudio, SkipOther, Reading, TypeOK
  <2>2. decoder' \in Seq(Nat) /\ muxed' \in Seq(Nat)
    BY <1>0, <1>4, <2>1 DEF ReadVideo, PassAudio, SkipOther, TypeOK
  <2> QED
    BY <1>0, <1>4, <2>1, <2>2 DEF ReadVideo, PassAudio, SkipOther, Reading, TypeOK, Places
<1>5. CASE ReadEnds \/ DecodeEnds \/ EncodeEnds \/ FlushEnds
  BY <1>0, <1>5 DEF ReadEnds, DecodeEnds, EncodeEnds, FlushEnds, data, TypeOK, Places
<1>6. CASE Decode
  <2>1. decoder # <<>>
    BY <1>0, <1>6, TranscodingAssumption, EmptySeq DEF Decode, TypeOK
  <2>2. decoder' \in Seq(Nat) /\ encoder' \in Seq(Nat)
    BY <1>0, <1>6, <2>1 DEF Decode, TypeOK
  <2> QED
    BY <1>0, <1>6, <2>2 DEF Decode, TypeOK, Places
<1>7. CASE Encode \/ Flush
  <2>1. encoder # <<>>
    BY <1>0, <1>7, TranscodingAssumption, EmptySeq DEF Encode, Flush, TypeOK
  <2>2. muxed' \in Seq(Nat) /\ encoder' \in Seq(Nat)
    BY <1>0, <1>7, <2>1 DEF Encode, Flush, MuxHead, TypeOK
  <2> QED
    BY <1>0, <1>7, <2>2 DEF Encode, Flush, MuxHead, TypeOK, Places
<1>8. CASE WriteTrailer \/ StepFails
  BY <1>0, <1>8 DEF WriteTrailer, StepFails, Fail, FormatOf, Released, data, TypeOK, Places, Resources
<1>9. CASE UNCHANGED vars
  BY <1>0, <1>9 DEF vars, data, TypeOK
<1> QED
  BY <1>1, <1>2, <1>3, <1>4, <1>5, <1>6, <1>7, <1>8, <1>9 DEF Next, Transcode

LEMMA FillingStep == IndInv /\ [Next]_vars => Filling'
<1> SUFFICES ASSUME IndInv, [Next]_vars PROVE Filling'
  OBVIOUS
<1>0. /\ TypeOK /\ Filling /\ Len(<<>>) = 0
      /\ Len(decoder) \in Nat /\ Len(encoder) \in Nat
  BY Queues DEF IndInv, TypeOK
<1>1. CASE Opening \/ Copying
  BY <1>0, <1>1
     DEF Opening, OpenInput, OpenInputFails, Fail, Copying, Copy, CopyFails, CopyMeetsFile, Replace,
         ReturnCopy, data, Filling, Early
<1>2. CASE Creating
  BY <1>0, <1>2, TranscodingAssumption
     DEF Creating, CreateOutput, CreateOutputFails, WriteHeader, WriteHeaderFails, Fail, data, Filling, Early
<1>3. CASE ReadVideo \/ PassAudio \/ SkipOther \/ ReadEnds
  BY <1>0, <1>3 DEF ReadVideo, PassAudio, SkipOther, ReadEnds, Reading, data, Filling, Early
<1>4. CASE Decode \/ DecodeEnds \/ Encode \/ EncodeEnds
  BY <1>0, <1>4 DEF Decode, DecodeEnds, Encode, EncodeEnds, MuxHead, data, Filling, Early
<1>5. CASE Flush \/ FlushEnds \/ WriteTrailer \/ StepFails
  BY <1>0, <1>5 DEF Flush, FlushEnds, WriteTrailer, StepFails, Fail, MuxHead, data, Filling, Early
<1>6. CASE UNCHANGED vars
  BY <1>0, <1>6 DEF vars, data, Filling
<1> QED
  BY <1>1, <1>2, <1>3, <1>4, <1>5, <1>6 DEF Next, Transcode

(* A result is final: nothing happens after the call has returned.          *)
LEMMA Returned ==
  ASSUME Next PROVE at # "returned" /\ source' = source
BY DEF Next, Opening, OpenInput, OpenInputFails, Fail, Copying, Copy, CopyFails, CopyMeetsFile,
       Replace, ReturnCopy, Creating, CreateOutput, CreateOutputFails, WriteHeader,
       WriteHeaderFails, Transcode, ReadVideo, PassAudio, SkipOther, Reading, ReadEnds, Decode,
       DecodeEnds, Encode, EncodeEnds, Flush, FlushEnds, MuxHead, WriteTrailer, StepFails

LEMMA HoldingStep ==
  IndInv /\ [Next]_vars => Holding' /\ SuccessIsWhole' /\ FormatIsKnown' /\ LeakBound'
<1> SUFFICES ASSUME IndInv, [Next]_vars
             PROVE  Holding' /\ SuccessIsWhole' /\ FormatIsKnown' /\ LeakBound'
  OBVIOUS
<1>0. /\ TypeOK /\ Filling /\ Holding /\ SuccessIsWhole /\ FormatIsKnown /\ LeakBound
      /\ Len(<<>>) = 0
  BY EmptySeq DEF IndInv
<1>n. ASSUME Next PROVE result = "none" /\ (CopySuffices' <=> CopySuffices)
  BY <1>0, <1>n, Returned DEF TypeOK, CopySuffices
<1>d. (result' = "none" \/ result' = "failed") => SuccessIsWhole' /\ FormatIsKnown'
  BY DEF SuccessIsWhole, FormatIsKnown, Succeeded
<1>l. at' # "returned" => LeakBound'
  BY DEF LeakBound
<1>1. CASE Opening
  <2>1. result' = "none" \/ result' = "failed"
    BY <1>1, <1>n DEF Next, Opening, OpenInput, OpenInputFails, Fail
  <2>2. Holding'
    BY <1>0, <1>1, <1>n DEF Next, Opening, OpenInput, OpenInputFails, Fail, Holding, Loop
  <2>3. LeakBound'
    <3>1. CASE OpenInput
      BY <1>l, <3>1 DEF OpenInput
    <3>2. CASE OpenInputFails
      <4>1. owned' \subseteq ToCopy /\ target' # "partial" /\ result' = "failed"
        BY <1>0, <3>2
           DEF OpenInputFails, Fail, InputStages, DecoderStages, Holding, ToCopy
      <4> QED
        BY <4>1 DEF LeakBound, Succeeded, ToTranscode
    <3> QED
      BY <1>1, <3>1, <3>2 DEF Opening
  <2> QED
    BY <1>d, <2>1, <2>2, <2>3
<1>2. CASE CopyFails \/ CopyMeetsFile
  <2>1. result' = "none" \/ result' = "failed"
    BY <1>2, <1>n DEF Next, Copying, CopyFails, CopyMeetsFile
  <2>2. Holding'
    BY <1>0, <1>2, <1>n DEF Next, Copying, CopyFails, CopyMeetsFile, ReleasedBeforeCopy, Holding, Loop
  <2>3. LeakBound'
    <3>1. CopySuffices' /\ owned' \subseteq ToCopy
      BY <1>0, <1>2, <1>n
         DEF Next, Copying, CopyFails, CopyMeetsFile, ReleasedBeforeCopy, Holding, ToCopy
    <3> QED
      BY <2>1, <3>1 DEF LeakBound, Succeeded
  <2> QED
    BY <1>d, <2>1, <2>2, <2>3
<1>3. CASE Copy \/ Replace
  <2>1. owned' = {"dec"} /\ CopySuffices' /\ at' = "returned" /\ target' = "complete"
        /\ result' = "known" /\ decoder' = <<>> /\ encoder' = <<>>
    BY <1>0, <1>3, <1>n
       DEF Next, Copying, Copy, Replace, ReturnCopy, ReleasedBeforeCopy, FormatOf, Holding, Filling, Early, data
  <2> QED
    BY <1>0, <2>1, TranscodingAssumption
       DEF Holding, Loop, SuccessIsWhole, FormatIsKnown, LeakBound, Succeeded
<1>4. CASE Creating
  <2>1. result' = "none" \/ result' = "failed"
    BY <1>4, <1>n
       DEF Next, Creating, CreateOutput, CreateOutputFails, WriteHeader, WriteHeaderFails, Fail
  <2>2. Holding'
    BY <1>0, <1>4, <1>n
       DEF Next, Creating, CreateOutput, CreateOutputFails, WriteHeader, WriteHeaderFails, Fail,
           Holding, Loop, Resources
  <2>3. LeakBound'
    <3>1. CASE CreateOutput \/ WriteHeader
      BY <1>l, <3>1 DEF CreateOutput, WriteHeader
    <3>2. CASE CreateOutputFails
      <4>1. /\ ~CopySuffices' /\ owned' \subseteq ToTranscode
            /\ target' # "partial" /\ result' = "failed"
        BY <1>0, <1>4, <1>n, <3>2
           DEF Next, CreateOutputFails, Fail, OutputStages, EncoderStages, Holding,
               ToCopy, ToTranscode
      <4> QED
        BY <4>1 DEF LeakBound, Succeeded
    <3>3. CASE WriteHeaderFails
      <4>1. /\ ~CopySuffices' /\ ToTranscode \cup {"avio"} \subseteq owned'
            /\ target' = "partial" /\ result' = "failed"
        BY <1>0, <1>4, <1>n, <3>3
           DEF Next, WriteHeaderFails, Fail, Holding, ToCopy, ToTranscode
      <4> QED
        BY <4>1 DEF LeakBound, Succeeded
    <3> QED
      BY <1>4, <3>1, <3>2, <3>3 DEF Creating
  <2> QED
    BY <1>d, <2>1, <2>2, <2>3
<1>5. CASE WriteTrailer
  <2>1. owned' = {} /\ ~CopySuffices' /\ at' = "returned" /\ target' = "complete"
        /\ result' = "known" /\ encoder' = <<>> /\ Len(decoder') <= DecoderDelay
    BY <1>0, <1>5, <1>n
       DEF Next, Transcode, WriteTrailer, FormatOf, Released, Resources, Holding, Loop, Filling, data
  <2> QED
    BY <2>1 DEF Holding, Loop, SuccessIsWhole, FormatIsKnown, LeakBound, Succeeded
<1>6. CASE Transcode /\ ~WriteTrailer
  <2>1. result' = "none" \/ result' = "failed"
    BY <1>6, <1>n
       DEF Next, Transcode, ReadVideo, PassAudio, SkipOther, ReadEnds, Decode, DecodeEnds, Encode,
           EncodeEnds, Flush, FlushEnds, MuxHead, StepFails, Fail
  <2>2. Holding'
    BY <1>0, <1>6, <1>n
       DEF Next, Transcode, ReadVideo, PassAudio, SkipOther, Reading, ReadEnds, Decode, DecodeEnds,
           Encode, EncodeEnds, Flush, FlushEnds, MuxHead, StepFails, Fail, Holding, Loop
  <2>3. LeakBound'
    <3>1. CASE at' = "returned"
      <4>1. StepFails
        BY <1>6, <1>0, <3>1
           DEF Transcode, ReadVideo, PassAudio, SkipOther, Reading, ReadEnds, Decode, DecodeEnds,
               Encode, EncodeEnds, Flush, FlushEnds, MuxHead
      <4>2. /\ ~CopySuffices' /\ owned' = Resources
            /\ target' = "partial" /\ result' = "failed"
        BY <1>0, <1>6, <1>n, <4>1 DEF Next, StepFails, Fail, Holding, Loop
      <4> QED
        BY <4>2 DEF LeakBound, Succeeded, Resources, ToCopy, ToTranscode
    <3> QED
      BY <1>l, <3>1
  <2> QED
    BY <1>d, <2>1, <2>2, <2>3
<1>7. CASE UNCHANGED vars
  BY <1>0, <1>7
     DEF vars, data, Holding, CopySuffices, SuccessIsWhole, FormatIsKnown, LeakBound, Succeeded
<1> QED
  BY <1>1, <1>2, <1>3, <1>4, <1>5, <1>6, <1>7 DEF Next, Copying

-----------------------------------------------------------------------------
THEOREM Invariance == Spec => []IndInv
<1>1. IndInv /\ [Next]_vars => IndInv'
  BY TypeStep, FillingStep, HoldingStep DEF IndInv
<1> QED
  BY InitIndInv, <1>1, PTL DEF Spec

(* The call's variables keep their types, and it has returned exactly when  *)
(* it has a result, on every path through transcode()                       *)
(* (mp4_transcoder.cpp:45-214).                                             *)
THEOREM TypeCorrect == Spec => []TypeOK
BY Invariance, PTL DEF IndInv

(* For codecs of any delay, neither refuses a packet or a frame for want of *)
(* room: each is drained before it is fed again                             *)
(* (mp4_transcoder.cpp:125, 130-158).                                       *)
THEOREM CodecsNeverRefuse == Spec => []NeverRefused
<1>1. IndInv => NeverRefused
  BY DEF IndInv, Filling, NeverRefused
<1> QED
  BY <1>1, Invariance, PTL

(* A file reported as transcoded has its trailer, all the encoder had and   *)
(* all the decoder had but its delay (mp4_transcoder.cpp:188-206).          *)
THEOREM SuccessComplete == Spec => []SuccessIsWhole
BY Invariance, PTL DEF IndInv

(* Success always comes with a format, although the contexts it is read     *)
(* from are released on the way (mp4_transcoder.cpp:67, 92, 208).           *)
THEOREM FormatKnown == Spec => []FormatIsKnown
BY Invariance, PTL DEF IndInv

(* What a call leaves allocated is known at every way out, for any input    *)
(* and any delays: nothing after a successful transcode; the open output    *)
(* with both contexts and codecs after one that failed with its file begun; *)
(* at most what the opening functions had acquired after one that failed    *)
(* before; the decoder, and perhaps the input, after a copy                 *)
(* (mp4_transcoder.cpp:57-218, where no error return releases anything).    *)
THEOREM LeaksBounded == Spec => []LeakBound
BY Invariance, PTL DEF IndInv
-----------------------------------------------------------------------------
(* The head of the second of two queues moves to the end of the first: the  *)
(* line they form together does not change.                                 *)
LEMMA Move ==
  ASSUME NEW r \in Seq(Nat), NEW s \in Seq(Nat), s # <<>>
  PROVE  Append(r, Head(s)) \o Tail(s) = r \o s
<1>1. /\ Head(s) \in Nat /\ Tail(s) \in Seq(Nat) /\ Len(Tail(s)) = Len(s) - 1
      /\ \A i \in 1..Len(Tail(s)) : Tail(s)[i] = s[i + 1]
      /\ Head(s) = s[1]
  BY HeadTailProperties
<1>2. /\ Append(r, Head(s)) \in Seq(Nat)
      /\ Len(Append(r, Head(s))) = Len(r) + 1
      /\ \A i \in 1..Len(r) : Append(r, Head(s))[i] = r[i]
      /\ Append(r, Head(s))[Len(r) + 1] = s[1]
  BY <1>1, AppendProperties
<1> DEFINE l == Append(r, Head(s)) \o Tail(s)
<1>3. /\ l \in Seq(Nat)
      /\ Len(l) = Len(r) + Len(s)
      /\ \A i \in 1..Len(l) :
           l[i] = IF i <= Len(r) + 1 THEN Append(r, Head(s))[i] ELSE Tail(s)[i - (Len(r) + 1)]
  BY <1>1, <1>2, ConcatProperties, LenProperties
<1>4. /\ r \o s \in Seq(Nat)
      /\ Len(r \o s) = Len(r) + Len(s)
      /\ \A i \in 1..(Len(r) + Len(s)) :
           (r \o s)[i] = IF i <= Len(r) THEN r[i] ELSE s[i - Len(r)]
  BY ConcatProperties
<1>5. ASSUME NEW i \in 1..Len(l) PROVE l[i] = (r \o s)[i]
  <2>1. Len(r) \in Nat /\ Len(s) \in Nat
    BY LenProperties
  <2>2. CASE i <= Len(r)
    BY <1>2, <1>3, <1>4, <1>5, <2>1, <2>2
  <2>3. CASE i = Len(r) + 1
    BY <1>2, <1>3, <1>4, <1>5, <2>1, <2>3
  <2>4. CASE i > Len(r) + 1
    <3>1. i - (Len(r) + 1) \in 1..Len(Tail(s))
      BY <1>1, <1>3, <1>5, <2>1, <2>4
    <3>2. Tail(s)[i - (Len(r) + 1)] = s[i - Len(r)]
      BY <1>1, <2>1, <3>1
    <3> QED
      BY <1>3, <1>4, <1>5, <2>1, <2>4, <3>2
  <2> QED
    BY <1>5, <2>1, <2>2, <2>3, <2>4
<1> HIDE DEF l
<1>6. l = r \o s
  BY <1>3, <1>4, <1>5, SeqEqual
<1> QED
  BY <1>6 DEF l

LEMMA HeadTailOfConcat ==
  ASSUME NEW r \in Seq(Nat), NEW s \in Seq(Nat), r # <<>>
  PROVE  /\ r \o s # <<>>
         /\ Head(r \o s) = Head(r)
         /\ Tail(r \o s) = Tail(r) \o s
<1>1. Len(r) \in Nat \ {0} /\ Len(s) \in Nat
  BY LenProperties, EmptySeq
<1>2. /\ r \o s \in Seq(Nat)
      /\ Len(r \o s) = Len(r) + Len(s)
      /\ \A i \in 1..(Len(r) + Len(s)) :
           (r \o s)[i] = IF i <= Len(r) THEN r[i] ELSE s[i - Len(r)]
  BY ConcatProperties
<1>3. r \o s # <<>> /\ Head(r \o s) = Head(r)
  BY <1>1, <1>2, EmptySeq
<1>4. /\ Tail(r) \in Seq(Nat) /\ Len(Tail(r)) = Len(r) - 1
      /\ \A i \in 1..Len(Tail(r)) : Tail(r)[i] = r[i + 1]
  BY HeadTailProperties
<1>5. /\ Tail(r \o s) \in Seq(Nat) /\ Len(Tail(r \o s)) = Len(r) + Len(s) - 1
      /\ \A i \in 1..Len(Tail(r \o s)) : Tail(r \o s)[i] = (r \o s)[i + 1]
  BY <1>2, <1>3, HeadTailProperties
<1>6. /\ Tail(r) \o s \in Seq(Nat)
      /\ Len(Tail(r) \o s) = Len(r) - 1 + Len(s)
      /\ \A i \in 1..(Len(r) - 1 + Len(s)) :
           (Tail(r) \o s)[i] = IF i <= Len(r) - 1 THEN Tail(r)[i] ELSE s[i - (Len(r) - 1)]
  BY <1>4, ConcatProperties
<1>7. ASSUME NEW i \in 1..Len(Tail(r \o s)) PROVE Tail(r \o s)[i] = (Tail(r) \o s)[i]
  BY <1>1, <1>2, <1>4, <1>5, <1>6
<1>8. Tail(r \o s) = Tail(r) \o s
  BY <1>1, <1>5, <1>6, <1>7, SeqEqual
<1> QED
  BY <1>3, <1>8

LEMMA AppendToConcat ==
  ASSUME NEW r \in Seq(Nat), NEW s \in Seq(Nat), NEW n \in Nat
  PROVE  r \o Append(s, n) = Append(r \o s, n)
<1>1. <<n>> \in Seq(Nat) /\ r \o s \in Seq(Nat)
  BY ConcatProperties
<1>2. Append(s, n) = s \o <<n>> /\ Append(r \o s, n) = (r \o s) \o <<n>>
  BY <1>1, AppendIsConcat
<1>3. (r \o s) \o <<n>> = r \o (s \o <<n>>)
  BY <1>1, ConcatAssociative
<1> QED
  BY <1>2, <1>3

(* A packet that comes in behind the first of two parts of the line.        *)
Inserted(r, s, n) ==
  /\ Append(r, n) \o s \in Seq(Nat)
  /\ Len(Append(r, n) \o s) = Len(r \o s) + 1
  /\ Len(r) \in Nat /\ Len(s) \in Nat /\ Len(r \o s) = Len(r) + Len(s)
  /\ \A i \in 1..Len(r) : (Append(r, n) \o s)[i] = (r \o s)[i]
  /\ (Append(r, n) \o s)[Len(r) + 1] = n
  /\ \A i \in (Len(r) + 2)..(Len(r \o s) + 1) :
       /\ (Append(r, n) \o s)[i] = (r \o s)[i - 1]
       /\ (r \o s)[i - 1] = s[i - 1 - Len(r)]

LEMMA Insert ==
  ASSUME NEW r \in Seq(Nat), NEW s \in Seq(Nat), NEW n \in Nat
  PROVE  Inserted(r, s, n)
<1>1. /\ Append(r, n) \in Seq(Nat) /\ Len(Append(r, n)) = Len(r) + 1
      /\ \A i \in 1..Len(r) : Append(r, n)[i] = r[i]
      /\ Append(r, n)[Len(r) + 1] = n
  BY AppendProperties
<1>2. Len(r) \in Nat /\ Len(s) \in Nat
  BY LenProperties
<1>3. /\ Append(r, n) \o s \in Seq(Nat)
      /\ Len(Append(r, n) \o s) = Len(r) + 1 + Len(s)
      /\ \A i \in 1..(Len(r) + 1 + Len(s)) :
           (Append(r, n) \o s)[i] =
             IF i <= Len(r) + 1 THEN Append(r, n)[i] ELSE s[i - (Len(r) + 1)]
  BY <1>1, ConcatProperties
<1>4. /\ Len(r \o s) = Len(r) + Len(s)
      /\ \A i \in 1..(Len(r) + Len(s)) :
           (r \o s)[i] = IF i <= Len(r) THEN r[i] ELSE s[i - Len(r)]
  BY ConcatProperties
<1> QED
  BY <1>1, <1>2, <1>3, <1>4 DEF Inserted

(* Conservation survives a packet of the next position that comes in before *)
(* nothing but packets of another stream.                                   *)
Written == {Pipeline[k] : k \in 1..Len(Pipeline)}
InOrder ==
  \A j, k \in 1..Len(Pipeline) :
    j < k /\ source.packets[Pipeline[j]] = source.packets[Pipeline[k]]
      => Pipeline[j] < Pipeline[k]

LEMMA PacketComesIn ==
  ASSUME Conservation, next \in Nat \ {0}, next' = next + 1, source' = source,
         NEW r \in Seq(Nat), NEW s \in Seq(Nat),
         Pipeline = r \o s, Pipeline' = Append(r, next) \o s,
         IsVideo(next) \/ IsAudio(next),
         \A k \in 1..Len(s) : source.packets[s[k]] # source.packets[next]
  PROVE  /\ Written' = {i \in 1..(next - 1) : IsVideo(i) \/ IsAudio(i)}'
         /\ InOrder'
<1>0. Inserted(r, s, next)
  BY Insert
<1> DEFINE P == Pipeline
           Q == Pipeline'
           n == Len(r)
<1>1. /\ Len(Q) = Len(P) + 1
      /\ n \in Nat /\ Len(s) \in Nat /\ Len(P) = n + Len(s)
      /\ \A i \in 1..n : Q[i] = P[i]
      /\ Q[n + 1] = next
      /\ \A i \in (n + 2)..(Len(P) + 1) :
           /\ Q[i] = P[i - 1]
           /\ source.packets[Q[i]] # source.packets[next]
  <2>1. /\ Len(Append(r, next) \o s) = Len(r \o s) + 1
        /\ Len(r) \in Nat /\ Len(s) \in Nat /\ Len(r \o s) = Len(r) + Len(s)
        /\ \A i \in 1..Len(r) : (Append(r, next) \o s)[i] = (r \o s)[i]
        /\ (Append(r, next) \o s)[Len(r) + 1] = next
        /\ \A i \in (Len(r) + 2)..(Len(r \o s) + 1) :
             /\ (Append(r, next) \o s)[i] = (r \o s)[i - 1]
             /\ (r \o s)[i - 1] = s[i - 1 - Len(r)]
    BY <1>0 DEF Inserted
  <2>2. \A i \in (Len(r) + 2)..(Len(r \o s) + 1) : i - 1 - Len(r) \in 1..Len(s)
    BY <2>1
  <2>3. /\ Len(Q) = Len(P) + 1 /\ Len(P) = n + Len(s)
        /\ \A i \in 1..n : Q[i] = P[i]
        /\ Q[n + 1] = next
    BY <2>1
  <2>4. ASSUME NEW i \in (n + 2)..(Len(P) + 1)
        PROVE  Q[i] = P[i - 1] /\ source.packets[Q[i]] # source.packets[next]
    <3>1. Q[i] = P[i - 1] /\ P[i - 1] = s[i - 1 - Len(r)]
      BY <2>1, <2>4
    <3>2. i - 1 - Len(r) \in 1..Len(s)
      BY <2>2, <2>4
    <3> QED
      BY <3>1, <3>2
  <2> QED
    BY <2>1, <2>3, <2>4
<1>2. /\ {P[k] : k \in 1..Len(P)} = {i \in 1..(next - 1) : IsVideo(i) \/ IsAudio(i)}
      /\ \A j, k \in 1..Len(P) :
           j < k /\ source.packets[P[j]] = source.packets[P[k]] => P[j] < P[k]
  BY DEF Conservation
<1>3. \A k \in 1..Len(P) : P[k] \in 1..(next - 1)
  BY <1>2
<1> HIDE DEF P, Q, n
<1>4. {Q[k] : k \in 1..Len(Q)} = {P[k] : k \in 1..Len(P)} \cup {next}
  <2>1. ASSUME NEW k \in 1..Len(Q) PROVE Q[k] \in {P[i] : i \in 1..Len(P)} \cup {next}
    <3>1. k \in 1..n \/ k = n + 1 \/ (k \in (n + 2)..(Len(P) + 1) /\ k - 1 \in 1..Len(P))
      BY <1>1, <2>1
    <3>2. CASE k \in 1..n
      BY <1>1, <3>2
    <3>3. CASE k \in (n + 2)..(Len(P) + 1) /\ k - 1 \in 1..Len(P)
      BY <1>1, <3>3
    <3> QED
      BY <1>1, <3>1, <3>2, <3>3
  <2>2. ASSUME NEW k \in 1..Len(P) PROVE P[k] \in {Q[i] : i \in 1..Len(Q)}
    <3>1. \/ k \in 1..n /\ k \in 1..Len(Q) /\ Q[k] = P[k]
          \/ k + 1 \in 1..Len(Q) /\ Q[k + 1] = P[k]
      <4>1. CASE k <= n
        BY <1>1, <2>2, <4>1
      <4>2. CASE k > n
        <5>1. k + 1 \in (n + 2)..(Len(P) + 1) /\ (k + 1) - 1 = k
          <6>1. k \in Nat /\ n \in Nat /\ Len(P) \in Nat /\ k <= Len(P)
            BY <1>1, <2>2
          <6> QED
            BY <4>2, <6>1
        <5> QED
          BY <1>1, <5>1
      <4> QED
        BY <1>1, <2>2, <4>1, <4>2
    <3> QED
      BY <3>1
  <2>3. n + 1 \in 1..Len(Q) /\ Q[n + 1] = next
    BY <1>1
  <2> QED
    BY <2>1, <2>2, <2>3
<1>5. Written' = {i \in 1..(next - 1) : IsVideo(i) \/ IsAudio(i)}'
  <2>1. {i \in 1..(next - 1) : IsVideo(i) \/ IsAudio(i)}'
          = {i \in 1..next : IsVideo(i) \/ IsAudio(i)}
    BY DEF IsVideo, IsAudio
  <2>2. {i \in 1..next : IsVideo(i) \/ IsAudio(i)}
          = {i \in 1..(next - 1) : IsVideo(i) \/ IsAudio(i)} \cup {next}
    BY DEF IsVideo, IsAudio
  <2>3. Written' = {Q[k] : k \in 1..Len(Q)}
    BY DEF Written, Q
  <2> QED
    BY <1>2, <1>4, <2>1, <2>2, <2>3
<1>6. ASSUME NEW j \in 1..Len(Q), NEW k \in 1..Len(Q), j < k,
             source.packets[Q[j]] = source.packets[Q[k]]
      PROVE  Q[j] < Q[k]
  <2>1. CASE k \in 1..n
    <3>1. j \in 1..n /\ j \in 1..Len(P) /\ k \in 1..Len(P)
      BY <1>1, <1>6, <2>1
    <3> QED
      BY <1>1, <1>2, <1>6, <3>1, <2>1
  <2>2. CASE k = n + 1
    <3>1. j \in 1..n /\ j \in 1..Len(P)
      BY <1>1, <1>6, <2>2
    <3> QED
      BY <1>1, <1>3, <3>1, <2>2
  <2>3. CASE k \in (n + 2)..(Len(P) + 1)
    <3>1. k - 1 \in 1..Len(P) /\ Q[k] = P[k - 1] /\ j # n + 1
      BY <1>1, <1>6, <2>3
    <3>2. CASE j \in 1..n
      <4>1. j \in 1..Len(P) /\ j < k - 1 /\ Q[j] = P[j]
        BY <1>1, <2>3, <3>2
      <4> QED
        BY <1>2, <1>6, <3>1, <4>1
    <3>3. CASE j \in (n + 2)..(Len(P) + 1)
      <4>1. j - 1 \in 1..Len(P) /\ j - 1 < k - 1 /\ Q[j] = P[j - 1]
        BY <1>1, <1>6, <2>3, <3>3
      <4> QED
        BY <1>2, <1>6, <3>1, <4>1
    <3> QED
      BY <1>1, <3>1, <3>2, <3>3
  <2> QED
    BY <1>1, <2>1, <2>2, <2>3
<1>7. InOrder'
  BY <1>6 DEF InOrder, Q
<1> QED
  BY <1>5, <1>7
(* Reading feeds the line, the codecs move what is in it, everything else   *)
(* leaves it alone.                                                         *)
LEMMA ConservationStep == IndInv /\ Conservation /\ [Next]_vars => Conservation'
<1> SUFFICES ASSUME IndInv, Conservation, [Next]_vars PROVE Conservation'
  OBVIOUS
<1>0. /\ decoder \in Seq(Nat) /\ encoder \in Seq(Nat) /\ muxed \in Seq(Nat)
      /\ Codecs \in Seq(Nat) /\ Pipeline \in Seq(Nat)
      /\ next \in Nat \ {0}
  <2>1. /\ decoder \in Seq(Nat) /\ encoder \in Seq(Nat) /\ muxed \in Seq(Nat)
        /\ next \in Nat \ {0}
    BY DEF IndInv, TypeOK
  <2>2. Codecs \in Seq(Nat)
    BY <2>1, ConcatProperties DEF Codecs
  <2> QED
    BY <2>1, <2>2, ConcatProperties DEF Pipeline
<1>1. CASE source' = source /\ next' = next /\ Pipeline' = Pipeline
             /\ \A k \in 1..Len(Codecs') : IsVideo(Codecs'[k])
  BY <1>1 DEF Conservation, IsVideo, IsAudio
<1>2. CASE source' = source /\ data' = data
  <2>1. Codecs' = Codecs /\ Pipeline' = Pipeline
    BY <1>2 DEF data, Codecs, Pipeline
  <2> QED
    BY <1>1, <1>2, <2>1 DEF data, Conservation
<1>3. CASE ReadVideo
  <2>1. /\ encoder' = encoder /\ muxed' = muxed /\ source' = source
        /\ decoder' = Append(decoder, next) /\ next' = next + 1
        /\ IsVideo(next)
    BY <1>3 DEF ReadVideo, Reading, IsVideo
  <2>2. next \in Nat
    BY <1>0
  <2>3. Codecs' = Append(Codecs, next)
    BY <1>0, <2>1, <2>2, AppendToConcat DEF Codecs
  <2>4. Pipeline' = Append(Pipeline, next) \o <<>> /\ Pipeline = Pipeline \o <<>>
    <3>1. Pipeline' = Append(Pipeline, next)
      BY <1>0, <2>1, <2>2, <2>3, AppendToConcat DEF Pipeline
    <3>2. Append(Pipeline, next) \in Seq(Nat)
      BY <1>0, <2>2, AppendProperties
    <3> QED
      BY <1>0, <3>1, <3>2, ConcatEmptySeq
  <2>5. <<>> \in Seq(Nat) /\ 1..Len(<<>>) = {}
    BY EmptySeq
  <2>6. Written' = {i \in 1..(next - 1) : IsVideo(i) \/ IsAudio(i)}' /\ InOrder'
    BY <1>0, <2>1, <2>4, <2>5, PacketComesIn
  <2>7. \A k \in 1..Len(Codecs') : IsVideo(Codecs'[k])
    <3>1. /\ Len(Codecs') = Len(Codecs) + 1 /\ Len(Codecs) \in Nat
          /\ \A k \in 1..Len(Codecs) : Codecs'[k] = Codecs[k]
          /\ Codecs'[Len(Codecs) + 1] = next
      BY <1>0, <2>2, <2>3, AppendProperties, LenProperties
    <3>2. \A k \in 1..Len(Codecs') : k \in 1..Len(Codecs) \/ k = Len(Codecs) + 1
      BY <3>1
    <3> QED
      BY <2>1, <3>1, <3>2 DEF Conservation, IsVideo
  <2> QED
    BY <2>1, <2>6, <2>7 DEF Conservation, Written, InOrder, IsVideo
<1>4. CASE PassAudio
  <2>1. /\ muxed' = Append(muxed, next) /\ next' = next + 1 /\ source' = source
        /\ Codecs' = Codecs /\ IsAudio(next)
    BY <1>4 DEF PassAudio, Reading, Codecs, IsAudio
  <2>2. \A k \in 1..Len(Codecs) : source.packets[Codecs[k]] # source.packets[next]
    BY <2>1 DEF Conservation, IsVideo, IsAudio
  <2>3. Pipeline = muxed \o Codecs /\ Pipeline' = Append(muxed, next) \o Codecs
    BY <2>1 DEF Pipeline
  <2>4. Written' = {i \in 1..(next - 1) : IsVideo(i) \/ IsAudio(i)}' /\ InOrder'
    BY <1>0, <2>1, <2>2, <2>3, PacketComesIn
  <2> QED
    BY <2>1, <2>4 DEF Conservation, Written, InOrder, IsVideo
<1>5. CASE SkipOther
  <2>1. /\ source' = source /\ next' = next + 1 /\ ~IsVideo(next) /\ ~IsAudio(next)
        /\ Codecs' = Codecs /\ Pipeline' = Pipeline
    BY <1>5 DEF SkipOther, Reading, Codecs, Pipeline, IsVideo, IsAudio
  <2>2. {i \in 1..(next - 1) : IsVideo(i) \/ IsAudio(i)}'
          = {i \in 1..(next - 1) : IsVideo(i) \/ IsAudio(i)}
    BY <1>0, <2>1 DEF IsVideo, IsAudio
  <2> QED
    BY <2>1, <2>2 DEF Conservation, IsVideo, IsAudio
<1>6. CASE Decode
  <2>1. /\ encoder' = Append(encoder, Head(decoder)) /\ decoder' = Tail(decoder)
        /\ muxed' = muxed /\ source' = source /\ next' = next
        /\ Len(decoder) > DecoderDelay
    BY <1>6 DEF Decode
  <2>2. decoder # <<>>
    BY <1>0, <2>1, TranscodingAssumption, EmptySeq
  <2>3. Codecs' = Codecs
    BY <1>0, <2>1, <2>2, Move DEF Codecs
  <2> QED
    BY <1>1, <2>1, <2>3 DEF Pipeline, Conservation
<1>7. CASE Encode \/ Flush
  <2>1. /\ muxed' = Append(muxed, Head(encoder)) /\ encoder' = Tail(encoder)
        /\ decoder' = decoder /\ source' = source /\ next' = next
    BY <1>7 DEF Encode, Flush, MuxHead
  <2>2. encoder # <<>>
    BY <1>0, <1>7, TranscodingAssumption, EmptySeq DEF Encode, Flush
  <2>3. Codecs # <<>> /\ Head(Codecs) = Head(encoder) /\ Codecs' = Tail(Codecs)
    BY <1>0, <2>1, <2>2, HeadTailOfConcat DEF Codecs
  <2>4. Pipeline' = Pipeline
    BY <1>0, <2>1, <2>3, Move DEF Pipeline
  <2>5. /\ Len(Codecs') = Len(Codecs) - 1 /\ Len(Codecs) \in Nat
        /\ \A k \in 1..Len(Codecs') : Codecs'[k] = Codecs[k + 1]
    BY <1>0, <2>3, HeadTailProperties, LenProperties
  <2>6. \A k \in 1..Len(Codecs') : k + 1 \in 1..Len(Codecs)
    BY <2>5
  <2>7. \A k \in 1..Len(Codecs') : IsVideo(Codecs'[k])
    BY <2>5, <2>6 DEF Conservation
  <2> QED
    BY <1>1, <2>1, <2>4, <2>7
<1>8. CASE Opening \/ Copying \/ Creating \/ WriteTrailer \/ StepFails \/ ReadEnds
             \/ DecodeEnds \/ EncodeEnds \/ FlushEnds \/ UNCHANGED vars
  BY <1>2, <1>8
     DEF Opening, OpenInput, OpenInputFails, Fail, Copying, Copy, CopyFails, CopyMeetsFile,
         Replace, ReturnCopy, Creating, CreateOutput, CreateOutputFails, WriteHeader,
         WriteHeaderFails, WriteTrailer, StepFails, ReadEnds, DecodeEnds, EncodeEnds,
         FlushEnds, vars
<1> QED
  BY <1>3, <1>4, <1>5, <1>6, <1>7, <1>8 DEF Next, Transcode

(* Whatever the input, the delays of the codecs and the point of failure,   *)
(* no packet of video or audio that was read is lost, doubled or overtaken  *)
(* (mp4_transcoder.cpp:118-201).                                            *)
THEOREM NothingLost == Spec => []Conservation
<1>1. Init => Conservation
  <2> SUFFICES ASSUME Init PROVE Conservation
    OBVIOUS
  <2>1. Codecs = <<>> /\ Pipeline = <<>>
    <3>1. <<>> \in Seq(Nat)
      BY EmptySeq
    <3> QED
      BY <3>1, ConcatEmptySeq DEF Init, Codecs, Pipeline
  <2>2. 1..Len(<<>>) = {} /\ 1..(next - 1) = {}
    BY EmptySeq DEF Init
  <2> QED
    BY <2>1, <2>2 DEF Conservation
<1> QED
  BY <1>1, ConservationStep, Invariance, PTL DEF Spec
-----------------------------------------------------------------------------
(* How much work is left: every packet still to be read may have to be      *)
(* decoded, every frame in the decoder encoded, and every one in the        *)
(* encoder written; the rest is the way through transcode().                *)
Left == [open |-> 8, copy |-> 7, create |-> 7, replace |-> 6, header |-> 6,
         encode |-> 5, decode |-> 4, read |-> 3, flush |-> 2, trailer |-> 1,
         returned |-> 0]
PlacesLeft == Left[at]

Work(p, e, d, l, n) == p + e + 3 * d + 5 * (l + 1 - n)

WorkLeft == Work(PlacesLeft, Len(encoder), Len(decoder), Len(source.packets), next)

LEMMA WorkIsNatural ==
  ASSUME NEW p \in Nat, NEW e \in Nat, NEW d \in Nat, NEW l \in Nat, NEW n \in 1..(l + 1)
  PROVE  Work(p, e, d, l, n) \in Nat
BY DEF Work

(* A place further; a packet read, decoded, encoded; a packet read and done *)
(* with; a packet written.                                                  *)
LEMMA WorkFalls ==
  ASSUME NEW p \in Nat, NEW e \in Nat, NEW d \in Nat, NEW l \in Nat, NEW n \in Nat
  PROVE  /\ \A q \in Nat : q < p => Work(q, e, d, l, n) < Work(p, e, d, l, n)
         /\ Work(4, e, d + 1, l, n + 1) < Work(3, e, d, l, n)
         /\ Work(5, e + 1, d - 1, l, n) < Work(4, e, d, l, n)
         /\ Work(3, e, d, l, n + 1) < Work(3, e, d, l, n)
         /\ Work(p, e - 1, d, l, n) < Work(p, e, d, l, n)
BY DEF Work

LEMMA WorkIsFinite == IndInv => WorkLeft \in Nat
<1> SUFFICES ASSUME IndInv PROVE WorkLeft \in Nat
  OBVIOUS
<1>1. /\ Len(encoder) \in Nat /\ Len(decoder) \in Nat /\ Len(source.packets) \in Nat
      /\ next \in 1..(Len(source.packets) + 1) /\ at \in Places
  BY Queues, PacketFacts DEF IndInv, TypeOK
<1>2. PlacesLeft \in Nat
  BY <1>1 DEF Places, PlacesLeft, Left
<1> QED
  BY <1>1, <1>2, WorkIsNatural DEF WorkLeft

LEMMA WorkShrinks == IndInv /\ Next => WorkLeft' < WorkLeft
<1> SUFFICES ASSUME IndInv, Next PROVE WorkLeft' < WorkLeft
  OBVIOUS
<1>0. /\ TypeOK /\ source' = source
      /\ Len(source.packets) \in Nat /\ next \in Nat
      /\ Len(encoder) \in Nat /\ Len(decoder) \in Nat
      /\ \A q \in Seq(Nat) : \A n \in Nat : Len(Append(q, n)) = Len(q) + 1
      /\ \A q \in Seq(Nat) : Len(q) > 0 => q # <<>>
      /\ \A q \in Seq(Nat) : q # <<>> => Len(Tail(q)) = Len(q) - 1 /\ Head(q) \in Nat
  <2>1. \A q \in Seq(Nat) : \A n \in Nat : Len(Append(q, n)) = Len(q) + 1
    BY AppendProperties
  <2> QED
    BY <2>1, Queues, PacketFacts, Returned DEF IndInv, TypeOK
<1>1. CASE \/ Opening \/ Copying \/ Creating
            \/ ReadEnds \/ DecodeEnds \/ EncodeEnds \/ FlushEnds \/ WriteTrailer \/ StepFails
  <2>1. UNCHANGED data
    BY <1>1
       DEF Opening, OpenInput, OpenInputFails, Fail, Copying, Copy, CopyFails, CopyMeetsFile,
           Replace, ReturnCopy, Creating, CreateOutput, CreateOutputFails, WriteHeader,
           WriteHeaderFails, ReadEnds, DecodeEnds, EncodeEnds, FlushEnds, WriteTrailer, StepFails
  <2>2. PlacesLeft' < PlacesLeft /\ PlacesLeft \in Nat /\ PlacesLeft' \in Nat
    BY <1>1
       DEF Opening, OpenInput, OpenInputFails, Fail, Copying, Copy, CopyFails, CopyMeetsFile,
           Replace, ReturnCopy, Creating, CreateOutput, CreateOutputFails, WriteHeader,
           WriteHeaderFails, ReadEnds, DecodeEnds, EncodeEnds, FlushEnds, WriteTrailer, StepFails,
           PlacesLeft, Left
  <2> QED
    BY <1>0, <2>1, <2>2, WorkFalls DEF WorkLeft, data
<1>2. CASE ReadVideo
  <2>1. /\ PlacesLeft = 3 /\ PlacesLeft' = 4 /\ next' = next + 1
        /\ Len(decoder') = Len(decoder) + 1 /\ encoder' = encoder
    BY <1>0, <1>2 DEF ReadVideo, Reading, PlacesLeft, Left, TypeOK
  <2> QED
    BY <1>0, <2>1, WorkFalls DEF WorkLeft
<1>3. CASE PassAudio \/ SkipOther
  <2>1. /\ PlacesLeft = 3 /\ PlacesLeft' = 3 /\ next' = next + 1
        /\ decoder' = decoder /\ encoder' = encoder
    BY <1>3 DEF PassAudio, SkipOther, Reading, PlacesLeft, Left
  <2> QED
    BY <1>0, <2>1, WorkFalls DEF WorkLeft
<1>4. CASE Decode
  <2>1. decoder # <<>>
    BY <1>0, <1>4, TranscodingAssumption, EmptySeq DEF Decode, TypeOK
  <2>2. /\ PlacesLeft = 4 /\ PlacesLeft' = 5 /\ next' = next
        /\ Len(decoder') = Len(decoder) - 1 /\ Len(encoder') = Len(encoder) + 1
    BY <1>0, <1>4, <2>1 DEF Decode, PlacesLeft, Left, TypeOK
  <2> QED
    BY <1>0, <2>2, WorkFalls DEF WorkLeft
<1>5. CASE Encode \/ Flush
  <2>1. encoder # <<>>
    BY <1>0, <1>5, TranscodingAssumption, EmptySeq DEF Encode, Flush, TypeOK
  <2>2. /\ at' = at /\ next' = next /\ decoder' = decoder
        /\ Len(encoder') = Len(encoder) - 1
    BY <1>0, <1>5, <2>1 DEF Encode, Flush, MuxHead, TypeOK
  <2>3. PlacesLeft \in Nat
    BY <1>5 DEF Encode, Flush, PlacesLeft, Left
  <2>4. PlacesLeft' = PlacesLeft
    BY <2>2 DEF PlacesLeft
  <2> QED
    BY <1>0, <2>2, <2>3, <2>4, WorkFalls DEF WorkLeft
<1> QED
  BY <1>1, <1>2, <1>3, <1>4, <1>5 DEF Next, Transcode

(* A call ends, however long its input and whatever its codecs keep back:   *)
(* the nested loops and the flush never run for nothing, so the work that   *)
(* is left, a natural number, shrinks with every step                       *)
(* (mp4_transcoder.cpp:118-206).                                            *)
THEOREM EveryCallEnds ==
  Spec => [](WorkLeft \in Nat) /\ [][WorkLeft' < WorkLeft]_vars
<1>1. IndInv /\ [Next]_vars => [WorkLeft' < WorkLeft]_vars
  BY WorkShrinks
<1> QED
  BY <1>1, WorkIsFinite, Invariance, PTL DEF Spec
=============================================================================
