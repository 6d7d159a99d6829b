-------------------------- MODULE VideoLibraryProofs --------------------------
(***************************************************************************)
(* What is stored for a video, for any number of callers, videos, chunks   *)
(* and crashes: which rows have a file, what a success promises, what a    *)
(* failure leaves behind, and that a download nobody overlaps brings the   *)
(* file it was asked for or fails.                                         *)
(***************************************************************************)
EXTENDS VideoLibrary, SequenceTheorems, TLAPS

Deleting(t) == call[t].at \in {"find", "unlink", "erase"}
Filed(v) == fate[v] \in {"stored", "save", "crash"}

CallPlaces == {"idle", "download", "copy", "transcode", "save", "next", "report",
               "find", "unlink", "erase"}
CallType ==
  [op : Operations \cup {"none"}, at : CallPlaces, video : 1..(MaxVideos + 1),
   found : 1..(MaxVideos + 1), failed : BOOLEAN, imported : SUBSET Videos]

LibraryTypes ==
  /\ call \in [Callers -> CallType] /\ issued \in 0..MaxVideos
  /\ raws \subseteq Videos /\ rows \subseteq Videos
  /\ mixed \subseteq Videos /\ promised \subseteq Videos /\ removed \subseteq Videos
  /\ unsure \subseteq Videos
  /\ fate \in [Videos -> Fates]
  /\ video \in [Videos -> {"none", "partial", "cut", "short", "whole"}]

(* Only calls that got as far as the row leave traces in the table, in what *)
(* callers know and in what they asked for, and a video that was removed    *)
(* has no file.                                                             *)
Traces ==
  /\ \A v \in rows \cup removed \cup promised \cup unsure : Filed(v)
  /\ \A v \in removed : video[v] = "none"

(* The transcoded file of a video in the making.                            *)
Stage(t) ==
  /\ At(t, "download") \/ At(t, "copy") => video[Mine(t)] = "none"
  /\ At(t, "transcode") => video[Mine(t)] \in {"none", "partial"}
  /\ At(t, "save") => video[Mine(t)] \in {"cut", "short", "whole"}
  /\ At(t, "save") /\ video[Mine(t)] = "cut" => Mine(t) \in mixed

Makes(t) ==
  Making(t) =>
    /\ Mine(t) \in 1..issued /\ Mine(t) \in raws /\ fate[Mine(t)] = "none"
    /\ \A c \in Callers \ {t} : Making(c) => Mine(c) # Mine(t)
    /\ Stage(t)

(* A delete that was given another's row, or any of a table without the     *)
(* column, asked over a garbled connection.                                 *)
Deletes(t) ==
  Deleting(t) =>
    /\ Mine(t) \in Videos /\ Filed(Mine(t))
    /\ At(t, "unlink") =>
         /\ call[t].found \in Videos /\ Filed(call[t].found)
         /\ hasId \/ call[t].found \in unsure
         /\ call[t].found = Mine(t) \/ Mine(t) \in unsure
    /\ At(t, "erase") => Mine(t) \in removed \cup unsure

Imports(t) == \A v \in call[t].imported : Filed(v) /\ v \in rows \cup removed \cup unsure

StoreInv ==
  /\ LibraryTypes /\ Unused /\ Traces
  /\ \A t \in Callers : Makes(t) /\ Deletes(t) /\ Imports(t)
  /\ RowHasVideo /\ SuccessIsStored /\ LeftoversKnown

(* What is transcoded is whole, unless downloads overlapped.                *)
SourceIsWhole ==
  \A t \in Callers : At(t, "transcode") /\ Mine(t) \notin mixed => IsWhole(Mine(t))

(* A download that is alone has the handle for itself.                      *)
Solo(t) ==
  load[t].alone /\ Downloading(t) => \A c \in Callers \ {t} : ~Downloading(c)

(* What a download that has been alone finds in its file and in the handle. *)
Own(t) ==
  load[t].alone =>
    LET v == load[t].video IN
    /\ load[t].at \in {"opened", "configured"} => content[v] = <<>> /\ load[t].got = 0
    /\ load[t].at \in {"configured", "transfer"} =>
         handle.out = t /\ (load[t].token => handle.headers = "live")
    /\ load[t].at = "configured" => handle.url = v
    /\ load[t].at = "transfer" =>
         /\ load[t].fetches = v /\ handle.performing = t /\ load[t].got <= 1
         /\ content[v] = [i \in 1..load[t].got |-> [of |-> v, part |-> i]]
    /\ load[t].at = "ended" => content[v] = Body(v) /\ size[v] <= 1

Configured(t) ==
  load[t].at \in {"configured", "transfer"} => handle.out \in Callers

InDownload(t) ==
  /\ load[t].at # "idle" <=> At(t, "download")
  /\ At(t, "download") => load[t].video = Mine(t) /\ call[t].op = "upload"

IndInv ==
  /\ TypeOK /\ StoreInv /\ SourceIsWhole
  /\ \A t \in Callers : InDownload(t) /\ Solo(t) /\ Own(t) /\ Configured(t)
-----------------------------------------------------------------------------
(* Types of the calls                                                       *)

LEMMA CallTypes ==
  /\ TypeOK => LibraryTypes
  /\ NoCall \in CallType
  /\ MaxVideos \in Nat
<1>1. MaxVideos \in Nat /\ 1 \in 1..(MaxVideos + 1)
  BY DownloaderAssumption
<1>2. NoCall \in CallType
  BY <1>1 DEF NoCall, CallType, CallPlaces, Operations
<1>3. ASSUME TypeOK PROVE LibraryTypes
  <2>1. call \in [Callers -> CallType]
    BY <1>3 DEF TypeOK, CallType, CallPlaces
  <2> QED
    BY <1>3, <2>1 DEF TypeOK, LibraryTypes
<1> QED
  BY <1>1, <1>2, <1>3

LEMMA CallMoves ==
  \A c \in CallType, place \in CallPlaces :
    LET d == [c EXCEPT !.at = place] IN
    d \in CallType /\ d.at = place /\ d.video = c.video /\ d.op = c.op /\ d.imported = c.imported
BY DEF CallType
-----------------------------------------------------------------------------
(* What a caller's step may be to the library                               *)

Others(t) == \A c \in Callers : c # t => call'[c] = call[c]

(* It gets a new video.                                                     *)
Begins(t) ==
  /\ issued < MaxVideos /\ issued' = issued + 1
  /\ ~Making(t) /\ ~Deleting(t)
  /\ call'[t].at \in {"download", "copy"} /\ call'[t].video = issued + 1
  /\ call'[t].imported \subseteq call[t].imported
  /\ raws' = raws \cup {issued + 1}
  /\ UNCHANGED <<hasId, video, rows, history>>

(* It gets on with its video.                                               *)
Works(t) ==
  /\ Making(t) /\ call'[t].at \in {"download", "copy", "transcode", "save"}
  /\ call'[t].video = call[t].video /\ call'[t].imported = call[t].imported
  /\ video' = video \/ video' = [video EXCEPT ![Mine(t)] = video'[Mine(t)]]
  /\ Stage(t)' /\ video'[Mine(t)] \in {"none", "partial", "cut", "short", "whole"}
  /\ mixed' = mixed \/ mixed' = mixed \cup {Mine(t)}
  /\ UNCHANGED <<hasId, issued, raws, rows, fate, promised, removed, unsure>>

(* It is done with its video, one way or another.                           *)
Quits(t, how) ==
  /\ Making(t) /\ call'[t].at \in {"idle", "next", "report"}
  /\ call'[t].imported \subseteq call[t].imported \cup (IF how = "stored" THEN {Mine(t)} ELSE {})
  /\ fate' = [fate EXCEPT ![Mine(t)] = how]
  /\ promised = promised' \/ (how = "stored" /\ promised' = promised \cup {Mine(t)})
  /\ raws' = raws \/ (raws' = raws \ {Mine(t)} /\ how # "stored")
  /\ rows' = rows \/ (rows' = rows \cup {Mine(t)} /\ how \in {"stored", "save"})
  /\ unsure' = unsure \/ (unsure' = unsure \cup {Mine(t)} /\ how \in {"stored", "save"})
  /\ how = "stored" => Mine(t) \in rows' \cup unsure'
  /\ how = "cleaned" => Mine(t) \notin raws'
  /\ how \in {"stored", "save"} => At(t, "save")
  /\ At(t, "save") => how \in {"stored", "save"}
  /\ At(t, "transcode") => how \in {"transcode", "cleaned", "thrown"}
  /\ how \in Fates \ {"none", "unopened"}
  /\ UNCHANGED <<hasId, issued, video, mixed, removed>>

(* It has no video, and gets none.                                          *)
Idles(t) ==
  /\ ~Making(t) /\ ~Deleting(t)
  /\ call'[t].at \in {"idle", "next", "report"} /\ call'[t].imported \subseteq call[t].imported
  /\ promised \subseteq promised' /\ promised' \subseteq promised \cup call[t].imported
  /\ UNCHANGED <<hasId, issued, raws, video, rows, fate, mixed, removed, unsure>>

LEMMA StepFacts ==
  ASSUME TypeOK, NEW t \in Callers, NEW place \in CallPlaces, Step(t, place)
  PROVE  /\ call' \in [Callers -> CallType] /\ Others(t)
         /\ call'[t].at = place /\ call'[t].video = call[t].video
         /\ call'[t].imported = call[t].imported /\ call'[t].op = call[t].op
<1>1. call \in [Callers -> CallType]
  BY CallTypes DEF LibraryTypes
<1>2. call' = [call EXCEPT ![t] = [call[t] EXCEPT !.at = place]]
  BY <1>1 DEF Step, CallType
<1> QED
  BY <1>1, <1>2, CallMoves DEF Others

LEMMA EndsFacts ==
  ASSUME TypeOK, NEW t \in Callers, Mine(t) \in Videos, NEW how \in Fates, Ends(t, how)
  PROVE  /\ call' \in [Callers -> CallType] /\ Others(t)
         /\ call'[t].at \in {"idle", "next", "report"}
         /\ call'[t].imported \subseteq
              call[t].imported \cup (IF how = "stored" THEN {Mine(t)} ELSE {})
         /\ fate' = [fate EXCEPT ![Mine(t)] = how]
         /\ promised = promised' \/ (how = "stored" /\ promised' = promised \cup {Mine(t)})
<1>1. call \in [Callers -> CallType] /\ NoCall \in CallType
  BY CallTypes DEF LibraryTypes
<1>2. CASE call[t].op = "directory"
  <2>1. PICK place \in {"next", "report"}, f \in BOOLEAN, S \in SUBSET Videos :
          /\ call' = [call EXCEPT ![t] = [call[t] EXCEPT !.at = place, !.failed = f, !.imported = S]]
          /\ S \subseteq call[t].imported \cup (IF how = "stored" THEN {Mine(t)} ELSE {})
    <3> DEFINE p == IF how = "thrown" THEN "report" ELSE "next"
               f == call[t].failed \/ how # "stored"
               S == IF how = "stored" THEN call[t].imported \cup {Mine(t)} ELSE call[t].imported
    <3>1. call' = [call EXCEPT ![t] = [call[t] EXCEPT !.at = p, !.failed = f, !.imported = S]]
      BY <1>1, <1>2 DEF Ends, CallType
    <3>2. p \in {"next", "report"} /\ f \in BOOLEAN /\ S \in SUBSET Videos
      BY <1>1 DEF CallType
    <3>3. S \subseteq call[t].imported \cup (IF how = "stored" THEN {Mine(t)} ELSE {})
      OBVIOUS
    <3> QED
      BY <3>1, <3>2, <3>3, Zenon
  <2>2. place \in CallPlaces
    BY DEF CallPlaces
  <2> DEFINE d == [call[t] EXCEPT !.at = place, !.failed = f, !.imported = S]
  <2>3. d \in CallType /\ d.at = place /\ d.imported = S
    BY <1>1, <2>2 DEF CallType
  <2>4. promised' = promised /\ fate' = [fate EXCEPT ![Mine(t)] = how]
    BY <1>2 DEF Ends
  <2>5. call' = [call EXCEPT ![t] = d]
    BY <2>1
  <2> HIDE DEF d
  <2>6. call'[t] = d /\ call' \in [Callers -> CallType] /\ Others(t)
    BY <1>1, <2>3, <2>5 DEF Others
  <2>7. call'[t].at = place /\ call'[t].imported = S
    BY <2>3, <2>6
  <2>8. /\ call'[t].at \in {"idle", "next", "report"}
        /\ call'[t].imported \subseteq
             call[t].imported \cup (IF how = "stored" THEN {Mine(t)} ELSE {})
    BY <2>1, <2>7
  <2> QED
    BY <2>4, <2>6, <2>8
<1>3. CASE call[t].op # "directory"
  <2>0. call' = [call EXCEPT ![t] = NoCall]
    BY <1>3 DEF Ends
  <2>1. /\ fate' = [fate EXCEPT ![Mine(t)] = how]
        /\ promised = promised' \/ (how = "stored" /\ promised' = promised \cup {Mine(t)})
    BY <1>3 DEF Ends
  <2>2. NoCall.at = "idle" /\ NoCall.imported = {}
    BY DEF NoCall
  <2> HIDE DEF NoCall
  <2>3. call' \in [Callers -> CallType] /\ Others(t) /\ call'[t] = NoCall
    BY <1>1, <2>0 DEF Others
  <2>4. /\ call'[t].at \in {"idle", "next", "report"}
        /\ call'[t].imported \subseteq
             call[t].imported \cup (IF how = "stored" THEN {Mine(t)} ELSE {})
    BY <2>2, <2>3
  <2> QED
    BY <2>1, <2>3, <2>4
<1> QED
  BY <1>2, <1>3

-----------------------------------------------------------------------------
(* Every step is one of these, a deletion's, or a crash                     *)

Library == <<hasId, issued, raws, call, video, rows, fate, mixed, promised, removed, unsure>>

LEMMA BeginKinds ==
  ASSUME IndInv, NEW t \in Callers
  PROVE  /\ StartUpload(t) =>
              /\ Begins(t) /\ Others(t) /\ call' \in [Callers -> CallType]
              /\ call'[t].op = "upload" /\ call'[t].at = "download"
         /\ StartCopy(t) =>
              /\ Begins(t) /\ Others(t) /\ call' \in [Callers -> CallType]
              /\ call'[t].at = "copy"
<1>1. call \in [Callers -> CallType] /\ issued \in 0..MaxVideos /\ TypeOK /\ MaxVideos \in Nat
  BY CallTypes DEF IndInv, LibraryTypes
<1> SUFFICES ASSUME StartUpload(t) \/ StartCopy(t)
             PROVE  /\ StartUpload(t) =>
                         /\ Begins(t) /\ Others(t) /\ call' \in [Callers -> CallType]
                         /\ call'[t].op = "upload" /\ call'[t].at = "download"
                    /\ StartCopy(t) =>
                         /\ Begins(t) /\ Others(t) /\ call' \in [Callers -> CallType]
                         /\ call'[t].at = "copy"
  OBVIOUS
<1>2. issued < MaxVideos /\ issued' = issued + 1
  BY DEF StartUpload, StartCopy
<1>3. issued + 1 \in Videos /\ "upload" \in Operations /\ "import" \in Operations
      /\ "download" \in CallPlaces /\ "copy" \in CallPlaces
  BY <1>1, <1>2 DEF Videos, Operations, CallPlaces
<1>v. issued + 1 \in 1..(MaxVideos + 1)
  BY <1>1
<1>4. ~Making(t) /\ ~Deleting(t)
  BY DEF StartUpload, StartCopy, At, Making, Deleting
<1>5. ASSUME StartUpload(t)
      PROVE  /\ Begins(t) /\ Others(t) /\ call' \in [Callers -> CallType]
             /\ call'[t].op = "upload" /\ call'[t].at = "download"
  <2> DEFINE d == [NoCall EXCEPT !.op = "upload", !.at = "download", !.video = issued + 1]
  <2>1. call' = [call EXCEPT ![t] = d]
    BY <1>5 DEF StartUpload
  <2>2. d \in CallType /\ d.op = "upload" /\ d.at = "download" /\ d.video = issued + 1
        /\ d.imported = {}
    BY <1>3, <1>v, CallTypes DEF CallType, NoCall
  <2> HIDE DEF d
  <2>3. call'[t] = d /\ Others(t) /\ call' \in [Callers -> CallType]
    BY <1>1, <2>1, <2>2 DEF Others
  <2>4. /\ raws' = raws \cup {issued + 1}
        /\ UNCHANGED <<hasId, video, rows, history>>
    BY <1>5 DEF StartUpload, BeginDownload, database
  <2> QED
    BY <1>2, <1>4, <2>2, <2>3, <2>4 DEF Begins
<1>6. ASSUME StartCopy(t)
      PROVE  /\ Begins(t) /\ Others(t) /\ call' \in [Callers -> CallType]
             /\ call'[t].at = "copy"
  <2> DEFINE d == [NoCall EXCEPT !.op = "import", !.at = "copy", !.video = issued + 1]
             e == [call[t] EXCEPT !.at = "copy", !.video = issued + 1]
  <2>1. call' = [call EXCEPT ![t] = d] \/ call' = [call EXCEPT ![t] = e]
    BY <1>1, <1>6 DEF StartCopy, CallType
  <2>2. d \in CallType /\ d.at = "copy" /\ d.video = issued + 1 /\ d.imported = {}
    BY <1>3, <1>v, CallTypes DEF CallType, NoCall
  <2>3. e \in CallType /\ e.at = "copy" /\ e.video = issued + 1 /\ e.imported = call[t].imported
    BY <1>1, <1>3, <1>v DEF CallType
  <2> HIDE DEF d, e
  <2>4. call'[t] \in {d, e} /\ Others(t) /\ call' \in [Callers -> CallType]
    BY <1>1, <2>1, <2>2, <2>3 DEF Others
  <2>5. /\ raws' = raws \cup {issued + 1}
        /\ UNCHANGED <<hasId, video, rows, history>>
    BY <1>6 DEF StartCopy, database
  <2>6. call'[t].at = "copy" /\ call'[t].video = issued + 1
        /\ call'[t].imported \subseteq call[t].imported
    BY <2>2, <2>3, <2>4
  <2> QED
    BY <1>2, <1>4, <2>4, <2>5, <2>6 DEF Begins
<1> QED
  BY <1>5, <1>6

LEMMA QuitKinds ==
  ASSUME IndInv, NEW t \in Callers,
         DownloadFailed(t) \/ CopyFailed(t) \/ SizeThrows(t) \/ TranscodeFailed(t)
           \/ Saved(t) \/ SaveFailed(t)
  PROVE  /\ Others(t) /\ call' \in [Callers -> CallType]
         /\ \E how \in Fates : Quits(t, how)
<1> DEFINE Quit(how) ==
      /\ Ends(t, how) /\ how \in Fates \ {"none", "unopened"} /\ Making(t)
      /\ raws' = raws \/ (raws' = raws \ {Mine(t)} /\ how # "stored")
      /\ rows' = rows \/ (rows' = rows \cup {Mine(t)} /\ how \in {"stored", "save"})
      /\ unsure' = unsure \/ (unsure' = unsure \cup {Mine(t)} /\ how \in {"stored", "save"})
      /\ how = "stored" => Mine(t) \in rows' \cup unsure'
      /\ how = "cleaned" => Mine(t) \notin raws'
      /\ how \in {"stored", "save"} => At(t, "save")
      /\ At(t, "save") => how \in {"stored", "save"}
      /\ At(t, "transcode") => how \in {"transcode", "cleaned", "thrown"}
      /\ UNCHANGED <<hasId, issued, video, mixed, removed>>
<1>1. TypeOK
  BY DEF IndInv
<1>q. \A how : Quit(how) => how \in Fates
  OBVIOUS
<1> HIDE DEF Quit
<1>2. ASSUME DownloadFailed(t) PROVE \E how \in Fates : Quit(how)
  <2>1. Quit("download")
    BY <1>2 DEF Quit, DownloadFailed, DownloadReturns, At, Making, Fates, files, database
  <2> QED
    BY <2>1, <1>q
<1>3. ASSUME CopyFailed(t) PROVE \E how \in Fates : Quit(how)
  <2>1. Quit("copy")
    BY <1>3 DEF Quit, CopyFailed, At, Making, Fates, database
  <2> QED
    BY <2>1, <1>q
<1>4. ASSUME SizeThrows(t) PROVE \E how \in Fates : Quit(how)
  <2>1. Quit("thrown")
    BY <1>4 DEF Quit, SizeThrows, At, Making, Fates, database
  <2> QED
    BY <2>1, <1>q
<1>5. ASSUME TranscodeFailed(t) PROVE \E how \in Fates : Quit(how)
  <2>1. Quit("transcode") \/ Quit("cleaned") \/ Quit("thrown")
    BY <1>5 DEF Quit, TranscodeFailed, At, Making, Fates, database
  <2> QED
    BY <2>1, <1>q
<1>6. ASSUME Saved(t) PROVE \E how \in Fates : Quit(how)
  <2>1. Quit("stored")
    BY <1>6 DEF Quit, Saved, WithRow, Doubt, At, Making, Fates, downloads, files
  <2> QED
    BY <2>1, <1>q
<1>7. ASSUME SaveFailed(t) PROVE \E how \in Fates : Quit(how)
  <2>1. Quit("save")
    BY <1>7 DEF Quit, SaveFailed, WithRow, Doubt, At, Making, Fates, downloads, files
  <2> QED
    BY <2>1, <1>q
<1>8. PICK how \in Fates : Quit(how)
  BY <1>2, <1>3, <1>4, <1>5, <1>6, <1>7
<1>9. Mine(t) \in Videos
  BY <1>1, <1>8, CallTypes DEF Quit, IndInv, StoreInv, LibraryTypes, Makes, Videos
<1>10. Quits(t, how) /\ Others(t) /\ call' \in [Callers -> CallType]
  BY <1>1, <1>8, <1>9, EndsFacts DEF Quit, Quits
<1> QED
  BY <1>10

LEMMA WorkKinds ==
  ASSUME IndInv, NEW t \in Callers
  PROVE  /\ Downloaded(t) =>
              Works(t) /\ Others(t) /\ call' \in [Callers -> CallType] /\ call'[t].at = "transcode"
         /\ Copied(t) =>
              Works(t) /\ Others(t) /\ call' \in [Callers -> CallType] /\ call'[t].at = "transcode"
         /\ Transcoded(t) =>
              Works(t) /\ Others(t) /\ call' \in [Callers -> CallType] /\ call'[t].at = "save"
         /\ CreateOutput(t) => Works(t) /\ call' = call
         /\ Download(t) /\ UNCHANGED <<state, history>> => UNCHANGED Library
<1>1. TypeOK
  BY DEF IndInv
<1>m. Making(t) => /\ Mine(t) \in Videos /\ Stage(t)
                   /\ At(t, "transcode") /\ Mine(t) \notin mixed => IsWhole(Mine(t))
  BY <1>1, CallTypes DEF IndInv, StoreInv, LibraryTypes, Makes, SourceIsWhole, Videos
<1>v. video \in [Videos -> {"none", "partial", "cut", "short", "whole"}]
  BY <1>1, CallTypes DEF LibraryTypes
<1>2. "transcode" \in CallPlaces /\ "save" \in CallPlaces
  BY DEF CallPlaces
<1>3. ASSUME Downloaded(t)
      PROVE  Works(t) /\ Others(t) /\ call' \in [Callers -> CallType] /\ call'[t].at = "transcode"
  <2>1. /\ Making(t) /\ Step(t, "transcode")
        /\ mixed' = mixed \/ mixed' = mixed \cup {Mine(t)}
        /\ UNCHANGED <<hasId, issued, raws, rows, fate, promised, removed, unsure, video>>
    BY <1>3 DEF Downloaded, DownloadReturns, At, Making, files, database
  <2>2. call'[t].at = "transcode" /\ call'[t].video = Mine(t) /\ Others(t)
        /\ call'[t].imported = call[t].imported /\ call' \in [Callers -> CallType]
    BY <1>1, <1>2, <2>1, StepFacts DEF Mine
  <2>3. video[Mine(t)] = "none"
    BY <1>m, <2>1, <1>3 DEF Downloaded, Stage
  <2>4. Stage(t)' /\ video'[Mine(t)] = "none"
    BY <2>1, <2>2, <2>3 DEF Stage, At, Mine
  <2> QED
    BY <2>1, <2>2, <2>4 DEF Works, Mine
<1>4. ASSUME Copied(t)
      PROVE  Works(t) /\ Others(t) /\ call' \in [Callers -> CallType] /\ call'[t].at = "transcode"
  <2>1. /\ Making(t) /\ Step(t, "transcode")
        /\ UNCHANGED <<hasId, issued, raws, rows, fate, promised, removed, unsure, video, mixed>>
    BY <1>4 DEF Copied, At, Making, history, database
  <2>2. call'[t].at = "transcode" /\ call'[t].video = Mine(t) /\ Others(t)
        /\ call'[t].imported = call[t].imported /\ call' \in [Callers -> CallType]
    BY <1>1, <1>2, <2>1, StepFacts DEF Mine
  <2>3. video[Mine(t)] = "none"
    BY <1>m, <2>1, <1>4 DEF Copied, Stage
  <2>4. Stage(t)' /\ video'[Mine(t)] = "none"
    BY <2>1, <2>2, <2>3 DEF Stage, At, Mine
  <2> QED
    BY <2>1, <2>2, <2>4 DEF Works, Mine
<1>5. ASSUME Transcoded(t)
      PROVE  Works(t) /\ Others(t) /\ call' \in [Callers -> CallType] /\ call'[t].at = "save"
  <2>1. /\ Making(t) /\ Step(t, "save")
        /\ UNCHANGED <<hasId, issued, raws, rows, fate, promised, removed, unsure, mixed>>
    BY <1>5 DEF Transcoded, At, Making, history, downloads, files
  <2>2. /\ video' = [video EXCEPT ![Mine(t)] = video'[Mine(t)]]
        /\ video'[Mine(t)] \in {"cut", "short", "whole"}
        /\ video'[Mine(t)] = "cut" => Mine(t) \in mixed
    BY <1>m, <1>v, <1>5, <2>1 DEF Transcoded
  <2>3. call'[t].at = "save" /\ call'[t].video = Mine(t) /\ Others(t)
        /\ call'[t].imported = call[t].imported /\ call' \in [Callers -> CallType]
    BY <1>1, <1>2, <2>1, StepFacts DEF Mine
  <2>4. Stage(t)'
    BY <2>1, <2>2, <2>3 DEF Stage, At, Mine
  <2> QED
    BY <2>1, <2>2, <2>3, <2>4 DEF Works, Mine
<1>6. ASSUME CreateOutput(t) PROVE Works(t) /\ call' = call
  <2>1. /\ Making(t) /\ call[t].at = "transcode"
        /\ UNCHANGED <<hasId, issued, raws, rows, fate, promised, removed, unsure, mixed, call>>
    BY <1>6 DEF CreateOutput, At, Making, history, downloads, files, database
  <2>2. video' = [video EXCEPT ![Mine(t)] = video'[Mine(t)]] /\ video'[Mine(t)] = "partial"
    BY <1>m, <1>v, <1>6, <2>1 DEF CreateOutput
  <2>3. Stage(t)'
    BY <2>1, <2>2 DEF Stage, At, Mine
  <2> QED
    BY <2>1, <2>2, <2>3 DEF Works
<1>7. ASSUME Download(t), UNCHANGED <<state, history>> PROVE UNCHANGED Library
  <2>1. raws' = raws
    BY <1>7
       DEF Download, Configure, Perform, PerformRefused, Write, WriteToDeadStream, TransferEnds,
           TransferFails, files
  <2> QED
    BY <1>7, <2>1 DEF Library, state, database, history
<1> QED
  BY <1>3, <1>4, <1>5, <1>6, <1>7

LEMMA IdleKinds ==
  ASSUME IndInv, NEW t \in Callers,
         StartDirectory(t) \/ SourceMissing(t) \/ DirectoryThrows(t) \/ DirectoryEnds(t)
           \/ DirectoryReturns(t)
  PROVE  Idles(t) /\ Others(t) /\ call' \in [Callers -> CallType] /\ UNCHANGED downloads
<1>1. TypeOK /\ call \in [Callers -> CallType] /\ NoCall \in CallType
  BY CallTypes DEF IndInv, LibraryTypes
<1>2. "next" \in CallPlaces /\ "report" \in CallPlaces /\ "directory" \in Operations
  BY DEF CallPlaces, Operations
<1>3. /\ ~Making(t) /\ ~Deleting(t) /\ UNCHANGED downloads
      /\ UNCHANGED <<hasId, issued, raws, video, rows, fate, mixed, removed, unsure>>
  BY DEF StartDirectory, SourceMissing, DirectoryThrows, DirectoryEnds, DirectoryReturns, At,
         Making, Deleting, downloads, files, database, history
<1>4. CASE StartDirectory(t)
  <2> DEFINE d == [NoCall EXCEPT !.op = "directory", !.at = "next"]
  <2>1. call' = [call EXCEPT ![t] = d] /\ promised' = promised
    BY <1>4 DEF StartDirectory, history
  <2>2. d \in CallType /\ d.at = "next" /\ d.imported = {}
    BY <1>1, <1>2 DEF CallType, NoCall
  <2> HIDE DEF d
  <2>3. call'[t] = d /\ Others(t) /\ call' \in [Callers -> CallType]
    BY <1>1, <2>1, <2>2 DEF Others
  <2> QED
    BY <1>3, <2>1, <2>2, <2>3 DEF Idles
<1>5. CASE SourceMissing(t) \/ DirectoryThrows(t)
  <2>1. promised' = promised /\ \E place \in {"next", "report"} :
          call' = [call EXCEPT ![t] = [call[t] EXCEPT !.at = place, !.failed = TRUE]]
    <3>1. CASE SourceMissing(t)
      <4>1. [call[t] EXCEPT !.failed = TRUE] = [call[t] EXCEPT !.at = "next", !.failed = TRUE]
        BY <1>1, <3>1 DEF SourceMissing, At, CallType
      <4>2. call' = [call EXCEPT ![t] = [call[t] EXCEPT !.failed = TRUE]]
        BY <1>1, <3>1 DEF SourceMissing, CallType
      <4> QED
        BY <3>1, <4>1, <4>2 DEF SourceMissing, history
    <3>2. CASE DirectoryThrows(t)
      BY <1>1, <3>2 DEF DirectoryThrows, history, CallType
    <3> QED
      BY <1>5, <3>1, <3>2
  <2>2. PICK place \in {"next", "report"} :
          call' = [call EXCEPT ![t] = [call[t] EXCEPT !.at = place, !.failed = TRUE]]
    BY <2>1
  <2> DEFINE d == [call[t] EXCEPT !.at = place, !.failed = TRUE]
  <2>3. d \in CallType /\ d.at = place /\ d.imported = call[t].imported
    BY <1>1, <1>2 DEF CallType
  <2>4. call' = [call EXCEPT ![t] = d]
    BY <2>2
  <2> HIDE DEF d
  <2>5. call'[t] = d /\ Others(t) /\ call' \in [Callers -> CallType]
    BY <1>1, <2>3, <2>4 DEF Others
  <2> QED
    BY <1>3, <2>1, <2>3, <2>5 DEF Idles
<1>6. CASE DirectoryEnds(t)
  <2>1. Step(t, "report") /\ promised' = promised
    BY <1>6 DEF DirectoryEnds, history
  <2> QED
    BY <1>1, <1>2, <1>3, <2>1, StepFacts DEF Idles
<1>7. CASE DirectoryReturns(t)
  <2>1. call' = [call EXCEPT ![t] = NoCall]
        /\ promised \subseteq promised' /\ promised' \subseteq promised \cup call[t].imported
    BY <1>7 DEF DirectoryReturns, Told
  <2>2. NoCall.at = "idle" /\ NoCall.imported = {}
    BY DEF NoCall
  <2> HIDE DEF NoCall
  <2>3. call'[t] = NoCall /\ Others(t) /\ call' \in [Callers -> CallType]
    BY <1>1, <2>1 DEF Others
  <2> QED
    BY <1>3, <2>1, <2>2, <2>3 DEF Idles
<1> QED
  BY <1>4, <1>5, <1>6, <1>7

(* Deleting: it asks for a video, is given a row, removes that row's file,  *)
(* and the row it asked for.                                                *)
Removes(t) ==
  /\ ~Making(t) /\ call'[t].at \in {"idle", "find", "unlink", "erase"}
  /\ call'[t].imported \subseteq call[t].imported
  /\ call'[t].at # "idle" => call'[t].video \in Videos /\ Filed(call'[t].video)
  /\ call'[t].at = "unlink" =>
       /\ call'[t].found \in Videos /\ Filed(call'[t].found)
       /\ hasId \/ call'[t].found \in unsure'
       /\ call'[t].found = call'[t].video \/ call'[t].video \in unsure'
  /\ call'[t].at = "erase" => call'[t].video \in removed' \cup unsure'
  /\ \/ video' = video /\ removed' = removed
     \/ /\ At(t, "unlink") /\ removed' = removed \cup {call[t].found}
        /\ video' = [video EXCEPT ![call[t].found] = "none"]
  /\ rows' = rows \/ (At(t, "erase") /\ rows' = rows \ {Mine(t)})
  /\ unsure \subseteq unsure' /\ \A v \in unsure' : v \in unsure \/ (v \in Videos /\ Filed(v))
  /\ UNCHANGED <<hasId, issued, raws, fate, mixed, promised>>

LEMMA RemoveKinds ==
  ASSUME IndInv, NEW t \in Callers, Delete(t)
  PROVE  Removes(t) /\ Others(t) /\ call' \in [Callers -> CallType] /\ UNCHANGED downloads
<1>1. TypeOK /\ call \in [Callers -> CallType] /\ NoCall \in CallType
  BY CallTypes DEF IndInv, LibraryTypes
<1>2. "find" \in CallPlaces /\ "unlink" \in CallPlaces /\ "erase" \in CallPlaces
      /\ "delete" \in Operations
  BY DEF CallPlaces, Operations
<1>3. /\ ~Making(t) /\ UNCHANGED downloads
      /\ UNCHANGED <<hasId, issued, raws, fate, mixed, promised>>
  BY DEF Delete, StartDelete, Found, NotFound, Unlink, UnlinkThrows, Erase, At, Making,
         downloads, files, history
<1>4. StoreInv /\ Deletes(t)
  BY DEF IndInv, StoreInv
<1>f. \A v \in rows \cup removed \cup unsure : v \in Videos /\ Filed(v)
  BY <1>4 DEF StoreInv, LibraryTypes, Traces
<1>5. CASE StartDelete(t)
  <2>1. PICK v \in Known :
          call' = [call EXCEPT ![t] = [NoCall EXCEPT !.op = "delete", !.at = "find", !.video = v]]
    BY <1>5 DEF StartDelete
  <2> DEFINE d == [NoCall EXCEPT !.op = "delete", !.at = "find", !.video = v]
  <2>2. v \in Videos /\ Filed(v)
    BY <1>f DEF Known, Filed
  <2>3. v \in 1..(MaxVideos + 1)
    BY <2>2, DownloaderAssumption DEF Videos
  <2>4. d \in CallType /\ d.at = "find" /\ d.video = v /\ d.imported = {}
    BY <1>2, <2>3, CallTypes DEF CallType, NoCall
  <2>5. call' = [call EXCEPT ![t] = d]
    BY <2>1
  <2> HIDE DEF d
  <2>6. call'[t] = d /\ Others(t) /\ call' \in [Callers -> CallType]
    BY <1>1, <2>4, <2>5 DEF Others
  <2>7. video' = video /\ removed' = removed /\ rows' = rows /\ unsure' = unsure
    BY <1>5 DEF StartDelete, history
  <2> QED
    BY <1>3, <2>2, <2>4, <2>6, <2>7 DEF Removes
<1>6. CASE Found(t)
  <2>1. PICK v \in Answers(t) :
          /\ call' = [call EXCEPT ![t].at = "unlink", ![t].found = v]
          /\ Doubt({v, Mine(t)})
    BY <1>6 DEF Found
  <2>2. call[t].at = "find" /\ Mine(t) \in Videos /\ Filed(Mine(t))
    BY <1>4, <1>6 DEF Found, At, Deletes, Deleting
  <2>3. v \in Videos /\ Filed(v)
    BY <1>f DEF Answers
  <2>4. unsure' = unsure \cup {v, Mine(t)} \/ (unsure' = unsure /\ hasId /\ v = Mine(t))
    BY <2>1 DEF Doubt, Answers
  <2> DEFINE d == [call[t] EXCEPT !.at = "unlink", !.found = v]
  <2>5. v \in 1..(MaxVideos + 1)
    BY <2>3, DownloaderAssumption DEF Videos
  <2>6. /\ d \in CallType /\ d.at = "unlink" /\ d.found = v /\ d.video = Mine(t)
        /\ d.imported = call[t].imported
    BY <1>1, <1>2, <2>5 DEF CallType, Mine
  <2>7. call' = [call EXCEPT ![t] = d]
    BY <1>1, <2>1 DEF CallType
  <2> HIDE DEF d
  <2>8. call'[t] = d /\ Others(t) /\ call' \in [Callers -> CallType]
    BY <1>1, <2>6, <2>7 DEF Others
  <2>9. video' = video /\ removed' = removed /\ rows' = rows
    BY <1>6 DEF Found, database
  <2>10. unsure \subseteq unsure' /\ \A u \in unsure' : u \in unsure \/ (u \in Videos /\ Filed(u))
    BY <2>2, <2>3, <2>4
  <2> QED
    BY <1>3, <2>2, <2>3, <2>4, <2>6, <2>8, <2>9, <2>10 DEF Removes
<1>7. CASE Unlink(t)
  <2>1. /\ call[t].at = "unlink" /\ Step(t, "erase") /\ At(t, "unlink") /\ Deleting(t)
        /\ video' = [video EXCEPT ![call[t].found] = "none"]
        /\ removed' = removed \cup {call[t].found} /\ rows' = rows /\ unsure' = unsure
    BY <1>7 DEF Unlink, At, Deleting
  <2>2. call'[t].at = "erase" /\ call'[t].video = Mine(t) /\ Others(t)
        /\ call'[t].imported = call[t].imported /\ call' \in [Callers -> CallType]
    BY <1>1, <1>2, <2>1, StepFacts DEF Mine
  <2>3. Mine(t) \in Videos /\ Filed(Mine(t)) /\ Mine(t) \in removed' \cup unsure'
    BY <1>4, <2>1 DEF Deletes
  <2> QED
    BY <1>3, <2>1, <2>2, <2>3 DEF Removes
<1>8. CASE NotFound(t) \/ UnlinkThrows(t) \/ Erase(t)
  <2>1. /\ call' = [call EXCEPT ![t] = NoCall] /\ video' = video /\ removed' = removed
        /\ rows' = rows \/ (At(t, "erase") /\ rows' = rows \ {Mine(t)})
    BY <1>8 DEF NotFound, UnlinkThrows, Erase, WithoutRow, database, history
  <2>2. NoCall.at = "idle" /\ NoCall.imported = {}
    BY DEF NoCall
  <2>3. unsure \subseteq unsure' /\ \A u \in unsure' : u \in unsure \/ (u \in Videos /\ Filed(u))
    <3>1. Erase(t) => Mine(t) \in Videos /\ Filed(Mine(t))
      BY <1>4 DEF Erase, At, Deletes, Deleting
    <3> QED
      BY <1>8, <3>1 DEF NotFound, UnlinkThrows, Erase, Doubt, history
  <2> HIDE DEF NoCall
  <2>4. call'[t] = NoCall /\ Others(t) /\ call' \in [Callers -> CallType]
    BY <1>1, <2>1 DEF Others
  <2> QED
    BY <1>3, <2>1, <2>2, <2>3, <2>4 DEF Removes
<1> QED
  BY <1>5, <1>6, <1>7, <1>8 DEF Delete
-----------------------------------------------------------------------------
(* What is in the store stays right                                         *)

(* What every step leaves alone outside one video, and what it never takes  *)
(* back.                                                                    *)
Elsewhere(w) ==
  \A v \in Videos : v # w =>
    /\ fate'[v] = fate[v] /\ video'[v] = video[v]
    /\ (v \in raws' <=> v \in raws) /\ (v \in rows' <=> v \in rows)
    /\ (v \in removed' <=> v \in removed) /\ (v \in mixed' <=> v \in mixed)
    /\ v \in unsure' => v \in unsure \/ Filed(v)

Grows ==
  /\ hasId' = hasId /\ issued <= issued' /\ removed \subseteq removed' /\ mixed \subseteq mixed'
  /\ unsure \subseteq unsure'
  /\ rows \cup removed \cup unsure \subseteq rows' \cup removed' \cup unsure'
  /\ \A v \in Videos : fate[v] # "none" => fate'[v] = fate[v]

(* Unused, Traces, RowHasVideo and LeftoversKnown for one video.            *)
Right(v) ==
  /\ v > issued => fate[v] = "none" /\ video[v] = "none" /\ v \notin raws \cup rows
  /\ v \in rows \cup removed \cup unsure => Filed(v)
  /\ v \in removed => video[v] = "none"
  /\ v \in rows => \/ video[v] \in {"short", "whole"}
                   \/ video[v] = "cut" /\ v \in mixed
                   \/ v \in removed /\ (hasId \/ v \in unsure)
  /\ fate[v] \in {"unopened", "cleaned"} => v \notin raws
  /\ fate[v] = "stored" => v \in raws
  /\ v \notin rows /\ fate[v] # "none" =>
       /\ video[v] = "partial" => fate[v] \in {"transcode", "cleaned", "thrown", "crash"}
       /\ video[v] \in {"cut", "short", "whole"} =>
            fate[v] \in {"save", "crash"} \/ v \in unsure

LEMMA FrameStep ==
  ASSUME StoreInv, LibraryTypes', NEW w, Elsewhere(w), Grows
  PROVE  /\ \A c \in Callers : call'[c] = call[c] =>
              /\ Deletes(c)' /\ Imports(c)'
              /\ Making(c) /\ Mine(c) # w =>
                   Mine(c) \in 1..issued' /\ Mine(c) \in raws' /\ fate'[Mine(c)] = "none"
                   /\ Stage(c)'
         /\ \A v \in Videos : v # w => Right(v)'
<1>1. /\ LibraryTypes /\ Unused /\ Traces /\ RowHasVideo /\ LeftoversKnown
      /\ \A t \in Callers : Makes(t) /\ Deletes(t) /\ Imports(t)
  BY DEF StoreInv
<1>n. issued \in Nat /\ issued' \in Nat /\ MaxVideos \in Nat /\ issued <= MaxVideos
  BY <1>1, DownloaderAssumption DEF LibraryTypes
<1>2. ASSUME NEW c \in Callers, call'[c] = call[c] PROVE Deletes(c)'
  <2> SUFFICES ASSUME Deleting(c)' PROVE Deletes(c)'
    BY DEF Deletes
  <2>1. Deleting(c) /\ Mine(c)' = Mine(c) /\ call'[c].found = call[c].found
        /\ \A place : At(c, place)' <=> At(c, place)
    BY <1>2 DEF Deleting, Mine, At
  <2>2. Deletes(c)
    BY <1>1
  <2>3. \A v \in Videos : Filed(v) => Filed(v)'
    BY DEF Grows, Filed
  <2> QED
    BY <2>1, <2>2, <2>3 DEF Grows, Deletes
<1>3. ASSUME NEW c \in Callers, call'[c] = call[c] PROVE Imports(c)'
  <2> SUFFICES ASSUME NEW v \in call[c].imported PROVE Filed(v)' /\ v \in rows' \cup removed' \cup unsure'
    BY <1>3 DEF Imports
  <2>1. Filed(v) /\ v \in rows \cup removed \cup unsure
    BY <1>1 DEF Imports
  <2>2. v \in Videos
    BY <1>1, <2>1 DEF LibraryTypes
  <2> QED
    BY <2>1, <2>2 DEF Grows, Filed
<1>4. ASSUME NEW c \in Callers, call'[c] = call[c], Making(c), Mine(c) # w
      PROVE  Mine(c) \in 1..issued' /\ Mine(c) \in raws' /\ fate'[Mine(c)] = "none" /\ Stage(c)'
  <2>1. Mine(c) \in 1..issued /\ Mine(c) \in raws /\ fate[Mine(c)] = "none" /\ Stage(c)
    BY <1>1, <1>4 DEF Makes
  <2>2. Mine(c) \in Videos /\ Mine(c) \in 1..issued' /\ Mine(c)' = Mine(c)
    BY <1>n, <1>4, <2>1 DEF Videos, Grows, Mine
  <2>3. /\ fate'[Mine(c)] = fate[Mine(c)] /\ video'[Mine(c)] = video[Mine(c)]
        /\ (Mine(c) \in raws' <=> Mine(c) \in raws) /\ (Mine(c) \in mixed' <=> Mine(c) \in mixed)
    BY <1>4, <2>2 DEF Elsewhere
  <2>4. \A place : At(c, place)' <=> At(c, place)
    BY <1>4 DEF At
  <2> QED
    BY <2>1, <2>2, <2>3, <2>4 DEF Stage
<1>5. ASSUME NEW v \in Videos, v # w PROVE Right(v)'
  <2>1. /\ fate'[v] = fate[v] /\ video'[v] = video[v]
        /\ (v \in raws' <=> v \in raws) /\ (v \in rows' <=> v \in rows)
        /\ (v \in removed' <=> v \in removed) /\ (v \in mixed' <=> v \in mixed)
        /\ (v \in unsure => v \in unsure') /\ (v \in unsure' => Filed(v))
    BY <1>1, <1>5 DEF Elsewhere, Grows, Traces
  <2>2. v > issued' => v > issued
    BY <1>n DEF Grows, Videos
  <2>3. v > issued' => fate'[v] = "none" /\ video'[v] = "none" /\ v \notin raws' \cup rows'
    BY <1>1, <2>1, <2>2 DEF Unused
  <2>4. (v \in rows' \cup removed' \cup unsure' => Filed(v)') /\ (v \in removed' => video'[v] = "none")
    BY <1>1, <2>1 DEF Traces, Filed
  <2>5. v \in rows' => \/ video'[v] \in {"short", "whole"}
                       \/ video'[v] = "cut" /\ v \in mixed'
                       \/ v \in removed' /\ (hasId' \/ v \in unsure')
    BY <1>1, <2>1 DEF RowHasVideo, Grows
  <2>6. /\ fate'[v] \in {"unopened", "cleaned"} => v \notin raws'
        /\ fate'[v] = "stored" => v \in raws'
        /\ v \notin rows' /\ fate'[v] # "none" =>
             /\ video'[v] = "partial" => fate'[v] \in {"transcode", "cleaned", "thrown", "crash"}
             /\ video'[v] \in {"cut", "short", "whole"} =>
                  fate'[v] \in {"save", "crash"} \/ v \in unsure'
    BY <1>1, <2>1 DEF LeftoversKnown
  <2> QED
    BY <2>3, <2>4, <2>5, <2>6 DEF Right
<1> QED
  BY <1>2, <1>3, <1>4, <1>5

LEMMA VideoByVideo ==
  ASSUME LibraryTypes
  PROVE  /\ Unused /\ Traces /\ RowHasVideo /\ LeftoversKnown => \A v \in Videos : Right(v)
         /\ (\A v \in Videos : Right(v)) /\ SuccessIsStored =>
              Unused /\ Traces /\ RowHasVideo /\ LeftoversKnown
<1>1. rows \subseteq Videos /\ removed \subseteq Videos /\ unsure \subseteq Videos
  BY DEF LibraryTypes
<1>2. Unused /\ Traces /\ RowHasVideo /\ LeftoversKnown => \A v \in Videos : Right(v)
  BY DEF Right, Unused, Traces, RowHasVideo, LeftoversKnown
<1>3. ASSUME \A v \in Videos : Right(v), SuccessIsStored
      PROVE  Unused /\ Traces /\ RowHasVideo /\ LeftoversKnown
  <2>1. Unused
    BY <1>3 DEF Right, Unused
  <2>2. Traces
    BY <1>1, <1>3 DEF Right, Traces, SuccessIsStored
  <2>3. RowHasVideo
    BY <1>1, <1>3 DEF Right, RowHasVideo
  <2>4. LeftoversKnown
    BY <1>3 DEF Right, LeftoversKnown
  <2> QED
    BY <2>1, <2>2, <2>3, <2>4
<1> QED
  BY <1>2, <1>3

(* A step of t that is about the video w keeps the store right if it does   *)
(* so for t and w.                                                          *)
LEMMA StoreStep ==
  ASSUME StoreInv, LibraryTypes', NEW w, Elsewhere(w), Grows,
         NEW t \in Callers, Others(t),
         w \in Videos => Right(w)',
         Makes(t)', Deletes(t)', Imports(t)', SuccessIsStored',
         \A c \in Callers : c # t /\ Making(c) => Mine(c) # w /\ (Making(t)' => Mine(c) # Mine(t)')
  PROVE  StoreInv'
<1>1. \A v \in Videos : Right(v)'
  BY FrameStep
<1>2. Unused' /\ Traces' /\ RowHasVideo' /\ LeftoversKnown'
  <2>1. (/\ Unused /\ Traces /\ RowHasVideo /\ LeftoversKnown => \A v \in Videos : Right(v)
         /\ (\A v \in Videos : Right(v)) /\ SuccessIsStored =>
              Unused /\ Traces /\ RowHasVideo /\ LeftoversKnown)'
    BY VideoByVideo, PTL
  <2> QED
    BY <1>1, <2>1
<1>3. ASSUME NEW c \in Callers, c # t PROVE Makes(c)' /\ Deletes(c)' /\ Imports(c)'
  <2>1. call'[c] = call[c]
    BY <1>3 DEF Others
  <2>2. Deletes(c)' /\ Imports(c)'
    BY <2>1, FrameStep
  <2>3. ASSUME Making(c)' PROVE Makes(c)'
    <3>1. Making(c) /\ Mine(c)' = Mine(c)
      BY <2>1, <2>3 DEF Making, Mine
    <3>2. Mine(c) # w /\ (Making(t)' => Mine(c) # Mine(t)')
      BY <1>3, <3>1
    <3>3. Mine(c) \in 1..issued' /\ Mine(c) \in raws' /\ fate'[Mine(c)] = "none" /\ Stage(c)'
      BY <2>1, <3>1, <3>2, FrameStep
    <3>4. ASSUME NEW d \in Callers \ {c}, Making(d)' PROVE Mine(d)' # Mine(c)'
      <4>1. CASE d = t
        BY <3>1, <3>2, <3>4, <4>1
      <4>2. CASE d # t
        <5>1. call'[d] = call[d]
          BY <3>4, <4>2 DEF Others
        <5>2. Making(d) /\ Mine(d)' = Mine(d)
          BY <3>4, <5>1 DEF Making, Mine
        <5>3. Mine(d) # Mine(c)
          BY <3>1, <3>4, <5>2 DEF StoreInv, Makes
        <5> QED
          BY <3>1, <5>2, <5>3
      <4> QED
        BY <4>1, <4>2
    <3> QED
      BY <3>1, <3>3, <3>4 DEF Makes
  <2> QED
    BY <2>2, <2>3 DEF Makes
<1> QED
  BY <1>2, <1>3 DEF StoreInv

LEMMA StoreFacts ==
  ASSUME StoreInv
  PROVE  /\ LibraryTypes /\ SuccessIsStored
         /\ issued \in Nat /\ MaxVideos \in Nat /\ issued <= MaxVideos
         /\ \A v \in Videos : Right(v)
         /\ \A c \in Callers : Making(c) =>
              /\ Mine(c) \in Videos /\ Mine(c) \in 1..issued /\ Mine(c) \in raws
              /\ fate[Mine(c)] = "none" /\ Stage(c)
              /\ Mine(c) \notin rows \cup removed \cup promised \cup unsure
              /\ \A d \in Callers : d # c /\ Making(d) => Mine(d) # Mine(c)
         /\ \A c \in Callers : Deleting(c) => Mine(c) \in Videos /\ Filed(Mine(c))
<1>1. LibraryTypes /\ SuccessIsStored /\ (\A t \in Callers : Makes(t) /\ Deletes(t))
      /\ Traces /\ Unused /\ RowHasVideo /\ LeftoversKnown
  BY DEF StoreInv
<1>2. issued \in Nat /\ MaxVideos \in Nat /\ issued <= MaxVideos
  BY <1>1, DownloaderAssumption DEF LibraryTypes
<1>3. 1..issued \subseteq Videos
  BY <1>2 DEF Videos
<1>4. \A v \in Videos : Right(v)
  BY <1>1, VideoByVideo
<1>5. ASSUME NEW c \in Callers, Making(c)
      PROVE  /\ Mine(c) \in Videos /\ Mine(c) \in 1..issued /\ Mine(c) \in raws
             /\ fate[Mine(c)] = "none" /\ Stage(c)
             /\ Mine(c) \notin rows \cup removed \cup promised \cup unsure
             /\ \A d \in Callers : d # c /\ Making(d) => Mine(d) # Mine(c)
  BY <1>1, <1>3, <1>5 DEF Makes, Traces, Filed
<1>6. ASSUME NEW c \in Callers, Deleting(c) PROVE Mine(c) \in Videos /\ Filed(Mine(c))
  BY <1>1, <1>6 DEF Deletes
<1> QED
  BY <1>1, <1>2, <1>4, <1>5, <1>6

LEMMA BeginStep ==
  ASSUME StoreInv, NEW t \in Callers, Begins(t), Others(t), call' \in [Callers -> CallType]
  PROVE  StoreInv'
<1>0. PICK w : w = issued + 1
  OBVIOUS
<1>1. w \in Videos /\ w \notin 1..issued /\ w \in 1..issued' /\ issued' = w /\ issued <= issued'
      /\ issued' \in 0..MaxVideos
  BY <1>0, StoreFacts DEF Begins, Videos
<1>2. Right(w)
  BY <1>1, StoreFacts
<1>3. w \notin rows \cup removed \cup unsure /\ fate[w] = "none" /\ video[w] = "none" /\ w > issued
  BY <1>1, <1>2, StoreFacts DEF Right, Filed
<1>4. /\ raws' = raws \cup {w} /\ call'[t].video = w /\ call'[t].at \in {"download", "copy"}
      /\ call'[t].imported \subseteq call[t].imported
      /\ UNCHANGED <<hasId, video, rows, fate, mixed, promised, removed, unsure>>
  BY <1>0 DEF Begins, history
<1>5. LibraryTypes'
  BY <1>1, <1>4, StoreFacts DEF LibraryTypes
<1>6. Elsewhere(w) /\ Grows
  BY <1>1, <1>4, StoreFacts DEF Elsewhere, Grows
<1>7. Right(w)'
  BY <1>1, <1>3, <1>4 DEF Right
<1>8. \A c \in Callers : c # t /\ Making(c) => Mine(c) # w
  BY <1>1, StoreFacts
<1>9. Makes(t)'
  <2>1. Mine(t)' = w /\ Stage(t)'
    BY <1>3, <1>4 DEF Mine, Stage, At
  <2>2. \A c \in Callers \ {t} : Making(c)' => Mine(c)' # w
    BY <1>8 DEF Others, Making, Mine
  <2> QED
    BY <1>1, <1>3, <1>4, <2>1, <2>2 DEF Makes
<1>10. Deletes(t)'
  BY <1>4 DEF Deletes, Deleting
<1>11. Imports(t)'
  BY <1>4 DEF StoreInv, Imports, Filed
<1>12. SuccessIsStored'
  BY <1>4, StoreFacts DEF SuccessIsStored
<1>13. Mine(t)' = w
  BY <1>4 DEF Mine
<1> QED
  BY <1>5, <1>6, <1>7, <1>8, <1>9, <1>10, <1>11, <1>12, <1>13, StoreStep

LEMMA WorkStep ==
  ASSUME StoreInv, NEW t \in Callers, Works(t), Others(t), call' \in [Callers -> CallType]
  PROVE  StoreInv'
<1>0. PICK w : w = Mine(t)
  OBVIOUS
<1>1. /\ Making(t) /\ call'[t].at \in {"download", "copy", "transcode", "save"} /\ Mine(t)' = w
      /\ call'[t].imported = call[t].imported /\ Stage(t)'
      /\ video' = video \/ video' = [video EXCEPT ![w] = video'[w]]
      /\ video'[w] \in {"none", "partial", "cut", "short", "whole"}
      /\ mixed' = mixed \/ mixed' = mixed \cup {w}
      /\ UNCHANGED <<hasId, issued, raws, rows, fate, promised, removed, unsure>>
  BY <1>0 DEF Works, Mine
<1>2. /\ w \in Videos /\ w \in 1..issued /\ w \in raws /\ fate[w] = "none"
      /\ w \notin rows \cup removed \cup promised \cup unsure
      /\ \A d \in Callers : d # t /\ Making(d) => Mine(d) # w
  BY <1>0, <1>1, StoreFacts
<1>3. LibraryTypes'
  BY <1>1, <1>2, StoreFacts DEF LibraryTypes
<1>4. Elsewhere(w) /\ Grows
  BY <1>1, <1>2, StoreFacts DEF Elsewhere, Grows, LibraryTypes
<1>5. Right(w)'
  <2>1. ~(w > issued)
    BY <1>2, StoreFacts
  <2> QED
    BY <1>1, <1>2, <2>1 DEF Right
<1>6. Makes(t)'
  <2>1. \A c \in Callers \ {t} : Making(c)' => Mine(c)' # w
    BY <1>2 DEF Others, Making, Mine
  <2> QED
    BY <1>1, <1>2, <2>1 DEF Makes
<1>7. Deletes(t)'
  BY <1>1 DEF Deletes, Deleting
<1>8. Imports(t)'
  BY <1>1 DEF StoreInv, Imports, Filed
<1>9. SuccessIsStored'
  BY <1>1, StoreFacts DEF SuccessIsStored
<1> QED
  BY <1>1, <1>2, <1>3, <1>4, <1>5, <1>6, <1>7, <1>8, <1>9, StoreStep

LEMMA QuitStep ==
  ASSUME StoreInv, NEW t \in Callers, NEW how \in Fates, Quits(t, how), Others(t),
         call' \in [Callers -> CallType]
  PROVE  StoreInv'
<1>0. PICK w : w = Mine(t)
  OBVIOUS
<1>1. /\ Making(t) /\ call'[t].at \in {"idle", "next", "report"}
      /\ call'[t].imported \subseteq call[t].imported \cup (IF how = "stored" THEN {w} ELSE {})
      /\ fate' = [fate EXCEPT ![w] = how]
      /\ promised = promised' \/ (how = "stored" /\ promised' = promised \cup {w})
      /\ raws' = raws \/ (raws' = raws \ {w} /\ how # "stored")
      /\ rows' = rows \/ (rows' = rows \cup {w} /\ how \in {"stored", "save"})
      /\ unsure' = unsure \/ (unsure' = unsure \cup {w} /\ how \in {"stored", "save"})
      /\ how = "stored" => w \in rows' \cup unsure'
      /\ how = "cleaned" => w \notin raws'
      /\ how \in {"stored", "save"} => At(t, "save")
      /\ At(t, "save") => how \in {"stored", "save"}
      /\ At(t, "transcode") => how \in {"transcode", "cleaned", "thrown"}
      /\ how \in Fates \ {"none", "unopened"}
      /\ UNCHANGED <<hasId, issued, video, mixed, removed>>
  BY <1>0 DEF Quits
<1>2. /\ w \in Videos /\ w \in 1..issued /\ w \in raws /\ fate[w] = "none" /\ Stage(t)
      /\ w \notin rows \cup removed \cup promised \cup unsure
      /\ \A d \in Callers : d # t /\ Making(d) => Mine(d) # w
  BY <1>0, <1>1, StoreFacts
<1>3. video[w] \in IF At(t, "save") THEN {"cut", "short", "whole"}
                   ELSE IF At(t, "transcode") THEN {"none", "partial"} ELSE {"none"}
  BY <1>0, <1>1, <1>2 DEF Stage, Making, At
<1>4. At(t, "save") /\ video[w] = "cut" => w \in mixed
  BY <1>0, <1>2 DEF Stage
<1>5. LibraryTypes'
  BY <1>1, <1>2, StoreFacts DEF LibraryTypes
<1>6. fate'[w] = how /\ \A v \in Videos : v # w => fate'[v] = fate[v]
  BY <1>1, <1>2, StoreFacts DEF LibraryTypes
<1>7. Elsewhere(w) /\ Grows
  BY <1>1, <1>2, <1>6, StoreFacts DEF Elsewhere, Grows
<1>8. Right(w)'
  <2>1. ~(w > issued)
    BY <1>2, StoreFacts
  <2>2. w \in rows' => At(t, "save") /\ how \in {"stored", "save"}
    BY <1>1, <1>2
  <2>3. w \in rows' =>
          video'[w] \in {"short", "whole"} \/ (video'[w] = "cut" /\ w \in mixed')
    BY <1>1, <1>3, <1>4, <1>6, <2>2
  <2>f. w \in rows' \cup removed' \cup unsure' => Filed(w)'
    BY <1>1, <1>2, <1>6 DEF Filed
  <2>4. fate'[w] \in {"unopened", "cleaned"} => w \notin raws'
    BY <1>1, <1>6
  <2>5. fate'[w] = "stored" => w \in raws'
    BY <1>1, <1>2, <1>6
  <2>6. video'[w] = "partial" => fate'[w] \in {"transcode", "cleaned", "thrown", "crash"}
    BY <1>1, <1>3, <1>6
  <2>7. w \notin rows' /\ video'[w] \in {"cut", "short", "whole"} =>
          fate'[w] \in {"save", "crash"} \/ w \in unsure'
    BY <1>1, <1>3, <1>6
  <2> QED
    BY <1>1, <1>2, <2>1, <2>3, <2>f, <2>4, <2>5, <2>6, <2>7 DEF Right
<1>9. Makes(t)' /\ Deletes(t)' /\ ~Making(t)'
  BY <1>1 DEF Makes, Deletes, Making, Deleting
<1>10. Imports(t)'
  <2> SUFFICES ASSUME NEW v \in call'[t].imported PROVE Filed(v)' /\ v \in rows' \cup removed' \cup unsure'
    BY DEF Imports
  <2>1. CASE v = w /\ how = "stored"
    BY <1>1, <1>6, <2>1 DEF Filed
  <2>2. CASE v \in call[t].imported
    <3>1. Filed(v) /\ v \in rows \cup removed \cup unsure /\ v \in Videos
      BY <2>2 DEF StoreInv, Imports, LibraryTypes
    <3> QED
      BY <1>7, <3>1 DEF Grows, Filed
  <2> QED
    BY <1>1, <2>1, <2>2
<1>11. SuccessIsStored'
  BY <1>1, <1>7, StoreFacts DEF SuccessIsStored, Grows
<1> QED
  BY <1>2, <1>5, <1>7, <1>8, <1>9, <1>10, <1>11, StoreStep

LEMMA IdleStep ==
  ASSUME StoreInv, NEW t \in Callers, Idles(t), Others(t), call' \in [Callers -> CallType]
  PROVE  StoreInv'
<1>1. /\ call'[t].at \in {"idle", "next", "report"} /\ call'[t].imported \subseteq call[t].imported
      /\ promised \subseteq promised' /\ promised' \subseteq promised \cup call[t].imported
      /\ UNCHANGED <<hasId, issued, raws, video, rows, fate, mixed, removed, unsure>>
  BY DEF Idles
<1>2. \A v \in call[t].imported : Filed(v) /\ v \in rows \cup removed \cup unsure
  BY DEF StoreInv, Imports
<1>3. SuccessIsStored'
  BY <1>1, <1>2, StoreFacts DEF SuccessIsStored
<1>4. LibraryTypes'
  <2>1. promised' \subseteq Videos
    BY <1>1, <1>3, StoreFacts DEF SuccessIsStored, LibraryTypes
  <2> QED
    BY <1>1, <2>1, StoreFacts DEF LibraryTypes
<1>5. Elsewhere(0) /\ Grows /\ 0 \notin Videos
  BY <1>1, StoreFacts DEF Elsewhere, Grows, Videos
<1>6. Makes(t)' /\ Deletes(t)' /\ ~Making(t)'
  BY <1>1 DEF Makes, Deletes, Making, Deleting
<1>7. Imports(t)'
  BY <1>1, <1>2 DEF Imports, Filed
<1>8. \A c \in Callers : Making(c) => Mine(c) # 0
  BY <1>5, StoreFacts
<1> QED
  BY <1>3, <1>4, <1>5, <1>6, <1>7, <1>8, StoreStep

LEMMA RefusedStep ==
  ASSUME StoreInv, NEW t \in Callers, UploadRefused(t)
  PROVE  StoreInv'
<1>0. PICK w : w = issued + 1
  OBVIOUS
<1>1. w \in Videos /\ w \notin 1..issued /\ issued' = w /\ issued <= issued' /\ issued' \in 0..MaxVideos
  BY <1>0, StoreFacts DEF UploadRefused, Videos
<1>2. Right(w)
  BY <1>1, StoreFacts
<1>3. w \notin rows \cup removed \cup raws \cup unsure /\ fate[w] = "none" /\ video[w] = "none" /\ w > issued
  BY <1>0, <1>1, <1>2, StoreFacts DEF Right, Filed
<1>4. /\ fate' = [fate EXCEPT ![w] = "unopened"] /\ call' = call
      /\ UNCHANGED <<hasId, raws, video, rows, mixed, promised, removed, unsure>>
      /\ call[t].at = "idle"
  BY <1>0 DEF UploadRefused, At, downloads, files, database
<1>5. fate'[w] = "unopened" /\ \A v \in Videos : v # w => fate'[v] = fate[v]
  BY <1>1, <1>4, StoreFacts DEF LibraryTypes
<1>6. LibraryTypes'
  BY <1>1, <1>4, StoreFacts DEF LibraryTypes, Fates
<1>7. Elsewhere(w) /\ Grows /\ Others(t)
  BY <1>1, <1>3, <1>4, <1>5, StoreFacts DEF Elsewhere, Grows, Others
<1>8. Right(w)'
  BY <1>1, <1>3, <1>4, <1>5 DEF Right
<1>9. \A c \in Callers : c # t /\ Making(c) => Mine(c) # w
  BY <1>1, StoreFacts
<1>10. Makes(t)' /\ Deletes(t)' /\ ~Making(t)'
  BY <1>4 DEF Makes, Deletes, Making, Deleting
<1>11. Imports(t)'
  BY <1>4, <1>7, FrameStep, <1>6
<1>12. SuccessIsStored'
  BY <1>4, StoreFacts DEF SuccessIsStored
<1> QED
  BY <1>6, <1>7, <1>8, <1>9, <1>10, <1>11, <1>12, StoreStep

LEMMA RemoveStep ==
  ASSUME StoreInv, NEW t \in Callers, Removes(t), Others(t), call' \in [Callers -> CallType]
  PROVE  StoreInv'
<1>0. PICK w : w = IF At(t, "unlink") THEN call[t].found
                   ELSE IF At(t, "erase") THEN Mine(t) ELSE 0
  OBVIOUS
<1>1. /\ call'[t].at \in {"idle", "find", "unlink", "erase"}
      /\ call'[t].imported \subseteq call[t].imported
      /\ \/ video' = video /\ removed' = removed
         \/ At(t, "unlink") /\ removed' = removed \cup {w} /\ video' = [video EXCEPT ![w] = "none"]
      /\ rows' = rows \/ (At(t, "erase") /\ ~At(t, "unlink") /\ rows' = rows \ {w})
      /\ unsure \subseteq unsure' /\ \A v \in unsure' : v \in unsure \/ (v \in Videos /\ Filed(v))
      /\ UNCHANGED <<hasId, issued, raws, fate, mixed, promised>>
  BY <1>0 DEF Removes, At
<1>2. /\ At(t, "unlink") => w \in Videos /\ Filed(w) /\ (hasId \/ w \in unsure)
      /\ At(t, "erase") => w \in Videos /\ Filed(w) /\ w \in removed \cup unsure
      /\ ~At(t, "unlink") /\ ~At(t, "erase") => w \notin Videos
  <2>1. 0 \notin Videos
    BY DEF Videos
  <2>2. At(t, "unlink") \/ At(t, "erase") => Deleting(t)
    BY DEF At, Deleting
  <2>3. ~(At(t, "unlink") /\ At(t, "erase"))
    BY DEF At
  <2>4. Deletes(t)
    BY DEF StoreInv
  <2> QED
    BY <1>0, <2>1, <2>2, <2>3, <2>4 DEF Deletes
<1>3. LibraryTypes'
  <2>1. video' \in [Videos -> {"none", "partial", "cut", "short", "whole"}]
    BY <1>1, <1>2, StoreFacts DEF LibraryTypes
  <2>2. removed' \subseteq Videos /\ rows' \subseteq Videos /\ unsure' \subseteq Videos
    BY <1>1, <1>2, StoreFacts DEF LibraryTypes
  <2> QED
    BY <1>1, <2>1, <2>2, StoreFacts DEF LibraryTypes
<1>4. Elsewhere(w) /\ Grows
  <2>1. \A v \in Videos : v # w => video'[v] = video[v]
    BY <1>1, <1>2, StoreFacts DEF LibraryTypes
  <2>2. rows \cup removed \cup unsure \subseteq rows' \cup removed' \cup unsure'
    BY <1>1, <1>2
  <2> QED
    BY <1>1, <1>2, <2>1, <2>2, StoreFacts DEF Elsewhere, Grows
<1>5. ASSUME w \in Videos PROVE Right(w)'
  <2>1. Right(w) /\ Filed(w)
    BY <1>1, <1>2, <1>5, StoreFacts
  <2>2. CASE video' = video /\ removed' = removed /\ rows' = rows
    BY <1>1, <2>1, <2>2 DEF Right, Filed
  <2>3. CASE video' = video /\ removed' = removed /\ At(t, "erase") /\ rows' = rows \ {w}
    <3>1. video[w] = "none" \/ w \in unsure'
      BY <1>1, <1>2, <2>1, <2>3 DEF Right
    <3>2. video[w] # "partial" \/ fate[w] = "crash"
      BY <2>1, <2>3 DEF Right, Filed
    <3> QED
      BY <1>1, <1>2, <2>1, <2>3, <3>1, <3>2 DEF Right, Filed
  <2>4. CASE At(t, "unlink") /\ removed' = removed \cup {w} /\ video' = [video EXCEPT ![w] = "none"]
    <3>1. video'[w] = "none" /\ w \in removed'
      BY <1>5, <2>4, StoreFacts DEF LibraryTypes
    <3>2. rows' = rows /\ (hasId \/ w \in unsure')
      BY <1>1, <1>2, <2>4
    <3> QED
      BY <1>1, <2>1, <3>1, <3>2 DEF Right, Filed
  <2> QED
    BY <1>1, <2>2, <2>3, <2>4
<1>6. \A c \in Callers : Making(c) => Mine(c) # w
  BY <1>2, StoreFacts DEF Filed
<1>7. Makes(t)' /\ ~Making(t)'
  BY <1>1 DEF Makes, Making
<1>8. Deletes(t)'
  <2>1. \A v : Filed(v)' <=> Filed(v)
    BY <1>1 DEF Filed
  <2> QED
    BY <1>1, <2>1 DEF Removes, Deletes, Deleting, Mine, At
<1>9. Imports(t)'
  BY <1>1, <1>4 DEF StoreInv, Imports, Filed, Grows
<1>10. SuccessIsStored'
  BY <1>1, <1>4, StoreFacts DEF SuccessIsStored, Grows
<1> QED
  BY <1>3, <1>4, <1>5, <1>6, <1>7, <1>8, <1>9, <1>10, StoreStep

(* The process dies in the middle of inserts and removals.                  *)
LEMMA CrashStep ==
  ASSUME StoreInv, Crash
  PROVE  StoreInv'
<1>1. /\ call' = [t \in Callers |-> NoCall]
      /\ fate' = [v \in Videos |-> IF \E t \in Callers : Making(t) /\ Mine(t) = v
                                   THEN "crash" ELSE fate[v]]
      /\ UNCHANGED <<raws, hasId, issued, video, mixed, promised, removed, unsure>>
  BY DEF Crash, files
<1>2. /\ \A v \in rows' : v \in rows \/ \E t \in Callers : At(t, "save") /\ Mine(t) = v
      /\ \A v \in rows : v \in rows' \/ \E t \in Callers : At(t, "erase") /\ Mine(t) = v
  <2>1. PICK S \in SUBSET VideosAt("save"), E \in SUBSET VideosAt("erase") :
          rows' = (rows \cup S) \ (IF hasId THEN E ELSE {})
    BY DEF Crash
  <2>2. /\ \A v \in S : \E t \in Callers : At(t, "save") /\ Mine(t) = v
        /\ \A v \in E : \E t \in Callers : At(t, "erase") /\ Mine(t) = v
    BY DEF VideosAt
  <2> QED
    BY <2>1, <2>2
<1>3. ASSUME NEW t \in Callers, At(t, "save")
      PROVE  /\ Making(t) /\ Mine(t) \in Videos
             /\ \/ video[Mine(t)] \in {"short", "whole"}
                \/ video[Mine(t)] = "cut" /\ Mine(t) \in mixed
  <2>1. Making(t)
    BY <1>3 DEF At, Making
  <2> QED
    BY <1>3, <2>1, StoreFacts DEF Stage
<1>4. ASSUME NEW t \in Callers, At(t, "erase") PROVE Mine(t) \in removed \cup unsure
  <2>1. Deleting(t) /\ Deletes(t)
    BY <1>4 DEF At, Deleting, StoreInv
  <2> QED
    BY <1>4, <2>1 DEF Deletes
<1>5. LibraryTypes'
  <2>1. rows' \subseteq Videos
    BY <1>2, <1>3, StoreFacts DEF LibraryTypes
  <2>2. call' \in [Callers -> CallType]
    BY <1>1, CallTypes
  <2>3. fate' \in [Videos -> Fates]
    BY <1>1, StoreFacts DEF LibraryTypes, Fates
  <2> QED
    BY <1>1, <2>1, <2>2, <2>3, StoreFacts DEF LibraryTypes
<1>6. ASSUME NEW v \in Videos PROVE Right(v)'
  <2>1. Right(v)
    BY StoreFacts
  <2>2. CASE \E t \in Callers : Making(t) /\ Mine(t) = v
    <3>1. fate'[v] = "crash" /\ v \notin rows \cup removed \cup unsure /\ v \in 1..issued
      BY <1>1, <2>2, StoreFacts
    <3>2. ~(v > issued)
      BY <3>1, StoreFacts
    <3>3. v \in rows' => video[v] \in {"short", "whole"} \/ (video[v] = "cut" /\ v \in mixed)
      BY <1>2, <1>3, <3>1
    <3> QED
      BY <1>1, <3>1, <3>2, <3>3 DEF Right, Filed
  <2>3. CASE ~\E t \in Callers : Making(t) /\ Mine(t) = v
    <3>1. fate'[v] = fate[v]
      BY <1>1, <2>3
    <3>2. v \in rows' => v \in rows
      BY <1>2, <1>3, <2>3
    <3>3. v \notin rows' => v \notin rows \/ video[v] = "none" \/ v \in unsure
      BY <1>2, <1>4, <2>1 DEF Right
    <3>4. v \in rows => video[v] # "partial"
      BY <2>1 DEF Right
    <3> QED
      BY <1>1, <2>1, <3>1, <3>2, <3>3, <3>4 DEF Right, Filed
  <2> QED
    BY <2>2, <2>3
<1>7. SuccessIsStored'
  BY <1>1, <1>2, <1>4, StoreFacts DEF SuccessIsStored
<1>8. Unused' /\ Traces' /\ RowHasVideo' /\ LeftoversKnown'
  <2>1. (/\ Unused /\ Traces /\ RowHasVideo /\ LeftoversKnown => \A v \in Videos : Right(v)
         /\ (\A v \in Videos : Right(v)) /\ SuccessIsStored =>
              Unused /\ Traces /\ RowHasVideo /\ LeftoversKnown)'
    BY <1>5, VideoByVideo, PTL
  <2> QED
    BY <1>6, <1>7, <2>1
<1>9. ASSUME NEW t \in Callers PROVE Makes(t)' /\ Deletes(t)' /\ Imports(t)'
  <2>1. call'[t].at = "idle" /\ call'[t].imported = {}
    BY <1>1 DEF NoCall
  <2> QED
    BY <2>1 DEF Makes, Deletes, Imports, Making, Deleting
<1> QED
  BY <1>5, <1>7, <1>8, <1>9 DEF StoreInv

-----------------------------------------------------------------------------
(* Downloads and sources                                                    *)

HandleType ==
  [out : Callers \cup {Nobody}, url : 1..(MaxVideos + 1),
   headers : {"none", "live", "freed"}, performing : Callers \cup {Nobody}]

LoadPlaces == {"idle", "opened", "configured", "transfer", "ended", "failed"}
LoadType ==
  [at : LoadPlaces, video : 1..(MaxVideos + 1), token : BOOLEAN, fetches : 1..(MaxVideos + 1),
   got : Nat, alone : BOOLEAN]

Parts == [of : Nat, part : Nat]

DownloadTypes ==
  /\ handle \in HandleType /\ load \in [Callers -> LoadType]
  /\ size \in [Videos -> 0..MaxChunks] /\ content \in [Videos -> Seq(Parts)]

LoadInv == \A u \in Callers : InDownload(u) /\ Solo(u) /\ Own(u) /\ Configured(u)

LEMMA TypesSplit ==
  TypeOK <=> /\ LibraryTypes /\ DownloadTypes
             /\ hasId \in BOOLEAN /\ garbled \in BOOLEAN /\ crashes \in 0..MaxCrashes
BY DEF TypeOK, LibraryTypes, DownloadTypes, CallType, CallPlaces, HandleType, LoadType,
       LoadPlaces, Parts

(* Every caller in download() has a video of its own.                       *)
LEMMA LoadFacts ==
  ASSUME IndInv
  PROVE  /\ DownloadTypes /\ LoadInv
         /\ \A u \in Callers : load[u].at # "idle" =>
              /\ At(u, "download") /\ Making(u) /\ load[u].video = Mine(u)
              /\ load[u].video \in Videos
         /\ \A u, o \in Callers : u # o /\ load[u].at # "idle" /\ Making(o) =>
              load[u].video # Mine(o)
<1>1. StoreInv /\ DownloadTypes /\ LoadInv
  BY TypesSplit DEF IndInv, LoadInv
<1>2. ASSUME NEW u \in Callers, load[u].at # "idle"
      PROVE  At(u, "download") /\ Making(u) /\ load[u].video = Mine(u) /\ load[u].video \in Videos
  <2>1. At(u, "download") /\ load[u].video = Mine(u)
    BY <1>1, <1>2 DEF LoadInv, InDownload
  <2>2. Making(u)
    BY <2>1 DEF At, Making
  <2> QED
    BY <1>1, <2>1, <2>2, StoreFacts
<1>3. ASSUME NEW u \in Callers, NEW o \in Callers, u # o, load[u].at # "idle", Making(o)
      PROVE  load[u].video # Mine(o)
  BY <1>1, <1>2, <1>3, StoreFacts
<1> QED
  BY <1>1, <1>2, <1>3

(* A step of a caller outside download() that writes to no file of one who  *)
(* is in it.                                                                *)
LEMMA LoadKept ==
  ASSUME IndInv, NEW t \in Callers, Others(t), handle' = handle, load' = load,
         ~At(t, "download"), ~At(t, "download")',
         \A u \in Callers : load[u].at # "idle" =>
           /\ content'[load[u].video] = content[load[u].video]
           /\ size'[load[u].video] = size[load[u].video]
  PROVE  LoadInv'
<1> SUFFICES ASSUME NEW u \in Callers
             PROVE  InDownload(u)' /\ Solo(u)' /\ Own(u)' /\ Configured(u)'
  BY DEF LoadInv
<1>1. InDownload(u) /\ Solo(u) /\ Own(u) /\ Configured(u)
  BY LoadFacts DEF LoadInv
<1>2. InDownload(u)'
  <2>1. CASE u = t
    BY <1>1, <2>1 DEF InDownload
  <2>2. CASE u # t
    <3>1. call'[u] = call[u]
      BY <2>2 DEF Others
    <3> QED
      BY <1>1, <3>1 DEF InDownload, At, Mine
  <2> QED
    BY <2>1, <2>2
<1>3. Solo(u)' /\ Configured(u)'
  BY <1>1 DEF Solo, Configured, Downloading
<1>4. Own(u)'
  <2>1. CASE load[u].at = "idle"
    BY <2>1 DEF Own
  <2>2. CASE load[u].at # "idle"
    <3>1. content'[load[u].video] = content[load[u].video] /\ size'[load[u].video] = size[load[u].video]
      BY <2>2
    <3>2. Body(load[u].video)' = Body(load[u].video)
      BY <3>1 DEF Body
    <3> QED
      BY <1>1, <3>1, <3>2 DEF Own
  <2> QED
    BY <2>1, <2>2
<1> QED
  BY <1>2, <1>3, <1>4

LEMMA SourceStep ==
  ASSUME IndInv, StoreInv', NEW t \in Callers, Others(t), mixed \subseteq mixed',
         At(t, "transcode") /\ At(t, "transcode")' => Mine(t)' = Mine(t),
         ~At(t, "transcode") /\ At(t, "transcode")' /\ Mine(t)' \notin mixed' =>
           content'[Mine(t)'] = Body(Mine(t))',
         \A u \in Callers : At(u, "transcode") /\ At(u, "transcode")' =>
           content'[Mine(u)] = content[Mine(u)] /\ size'[Mine(u)] = size[Mine(u)]
  PROVE  SourceIsWhole'
<1> SUFFICES ASSUME NEW u \in Callers, At(u, "transcode")', Mine(u)' \notin mixed'
             PROVE  IsWhole(Mine(u))'
  BY DEF SourceIsWhole
<1>1. Mine(u)' \in raws'
  BY DEF StoreInv, Makes, Making, At
<1>2. CASE At(u, "transcode")
  <2>1. Mine(u)' = Mine(u)
    BY <1>2 DEF Others, Mine
  <2>2. IsWhole(Mine(u))
    BY <1>2, <2>1 DEF IndInv, SourceIsWhole
  <2>3. content'[Mine(u)] = content[Mine(u)] /\ size'[Mine(u)] = size[Mine(u)]
    BY <1>2
  <2> QED
    BY <1>1, <2>1, <2>2, <2>3 DEF IsWhole, Body
<1>3. CASE ~At(u, "transcode")
  <2>1. u = t
    BY <1>3 DEF Others, At
  <2> QED
    BY <1>1, <1>3, <2>1 DEF IsWhole
<1> QED
  BY <1>2, <1>3

(* A step within download(): the handle, this caller's place, and perhaps   *)
(* one chunk more in the file of a caller who is in it too.                 *)
Transfers(t) ==
  /\ Downloading(t) /\ \A u \in Callers : u # t => load'[u] = load[u]
  /\ load'[t].at \in {"configured", "transfer", "ended", "failed"}
  /\ load'[t].video = load[t].video /\ (load'[t].alone <=> load[t].alone)
  /\ handle'.out = handle.out \/ handle'.out = t
  /\ load'[t].at \in {"configured", "transfer"} => handle'.out \in Callers
  /\ size' = size
  /\ \/ content' = content
     \/ \E o \in Callers : /\ Downloading(o)
                           /\ \A v \in Videos : v # load[o].video => content'[v] = content[v]

LEMMA TransferStep ==
  ASSUME IndInv, NEW t \in Callers, Transfers(t), call' = call, Own(t)'
  PROVE  LoadInv' /\ \A u \in Callers : At(u, "transcode") => content'[Mine(u)] = content[Mine(u)]
<1>1. LoadInv /\ DownloadTypes
  BY LoadFacts
<1>2. ASSUME NEW u \in Callers, u # t, load[u].alone, load[u].at # "idle", ~Downloading(u)
      PROVE  content'[load[u].video] = content[load[u].video]
  <2>1. CASE content' = content
    BY <2>1
  <2>2. CASE \E o \in Callers : /\ Downloading(o)
                                /\ \A v \in Videos : v # load[o].video => content'[v] = content[v]
    <3>1. PICK o \in Callers : /\ Downloading(o)
                               /\ \A v \in Videos : v # load[o].video => content'[v] = content[v]
      BY <2>2
    <3>2. o # u /\ load[o].at # "idle"
      BY <1>2, <3>1 DEF Downloading
    <3>3. load[u].video \in Videos /\ load[u].video # load[o].video
      BY <1>2, <3>2, LoadFacts
    <3> QED
      BY <3>1, <3>3
  <2> QED
    BY <2>1, <2>2 DEF Transfers
<1>3. ASSUME NEW u \in Callers, u # t
      PROVE  InDownload(u)' /\ Solo(u)' /\ Own(u)' /\ Configured(u)'
  <2>1. load'[u] = load[u] /\ call'[u] = call[u]
    BY <1>3 DEF Transfers
  <2>2. InDownload(u) /\ Solo(u) /\ Own(u) /\ Configured(u)
    BY <1>1 DEF LoadInv
  <2>3. InDownload(u)'
    BY <2>1, <2>2 DEF InDownload, At, Mine
  <2>4. Solo(u)'
    BY <2>1, <2>2 DEF Solo, Downloading, Transfers
  <2>5. Configured(u)'
    BY <2>1, <2>2 DEF Configured, Transfers
  <2>6. Own(u)'
    <3>1. CASE ~load[u].alone
      BY <2>1, <3>1 DEF Own
    <3>2. CASE load[u].alone
      <4>1. ~Downloading(u)
        BY <1>3, <2>2, <3>2 DEF Solo, Transfers
      <4>2. CASE load[u].at = "idle"
        BY <2>1, <4>2 DEF Own
      <4>3. CASE load[u].at # "idle"
        <5>1. load[u].at \in {"ended", "failed"}
          BY <4>1, <4>3 DEF Downloading
        <5>2. content'[load[u].video] = content[load[u].video] /\ size' = size
          BY <1>2, <1>3, <3>2, <4>1, <4>3 DEF Transfers
        <5>3. Body(load[u].video)' = Body(load[u].video)
          BY <2>1, <5>2 DEF Body
        <5> QED
          BY <2>1, <2>2, <5>1, <5>2, <5>3 DEF Own
      <4> QED
        BY <4>2, <4>3
    <3> QED
      BY <3>1, <3>2
  <2> QED
    BY <2>3, <2>4, <2>5, <2>6
<1>4. InDownload(t)' /\ Solo(t)' /\ Configured(t)'
  <2>1. InDownload(t) /\ Solo(t) /\ load[t].at # "idle" /\ At(t, "download")
    BY <1>1, LoadFacts DEF LoadInv, Transfers, Downloading
  <2>2. InDownload(t)'
    BY <2>1 DEF InDownload, At, Mine, Transfers
  <2>3. Solo(t)'
    BY <2>1 DEF Solo, Downloading, Transfers
  <2>4. Configured(t)'
    BY DEF Configured, Transfers
  <2> QED
    BY <2>2, <2>3, <2>4
<1>5. ASSUME NEW u \in Callers, At(u, "transcode") PROVE content'[Mine(u)] = content[Mine(u)]
  <2>1. CASE content' = content
    BY <2>1
  <2>2. CASE \E o \in Callers : /\ Downloading(o)
                                /\ \A v \in Videos : v # load[o].video => content'[v] = content[v]
    <3>1. PICK o \in Callers : /\ Downloading(o)
                               /\ \A v \in Videos : v # load[o].video => content'[v] = content[v]
      BY <2>2
    <3>2. Making(u) /\ Mine(u) \in Videos
      BY <1>5, StoreFacts DEF At, Making, IndInv
    <3>3. load[o].at # "idle" /\ At(o, "download") /\ o # u
      BY <1>5, <3>1, LoadFacts DEF Downloading, At
    <3>4. load[o].video # Mine(u)
      BY <3>2, <3>3, LoadFacts
    <3> QED
      BY <3>1, <3>2, <3>4
  <2> QED
    BY <2>1, <2>2 DEF Transfers
<1> QED
  BY <1>3, <1>4, <1>5 DEF LoadInv

LEMMA LoadMoves ==
  ASSUME NEW l \in LoadType
  PROVE  /\ \A place \in LoadPlaces :
              LET m == [l EXCEPT !.at = place] IN
              /\ m \in LoadType /\ m.at = place /\ m.video = l.video /\ (m.token <=> l.token)
              /\ m.fetches = l.fetches /\ m.got = l.got /\ (m.alone <=> l.alone)
         /\ \A f \in 1..(MaxVideos + 1) :
              LET m == [l EXCEPT !.at = "transfer", !.fetches = f] IN
              /\ m \in LoadType /\ m.at = "transfer" /\ m.video = l.video
              /\ (m.token <=> l.token) /\ m.fetches = f /\ m.got = l.got /\ (m.alone <=> l.alone)
         /\ LET m == [l EXCEPT !.got = @ + 1] IN
              /\ m \in LoadType /\ m.at = l.at /\ m.video = l.video /\ (m.token <=> l.token)
              /\ m.fetches = l.fetches /\ m.got = l.got + 1 /\ (m.alone <=> l.alone)
<1>1. \A place \in LoadPlaces :
        LET m == [l EXCEPT !.at = place] IN
        /\ m \in LoadType /\ m.at = place /\ m.video = l.video /\ (m.token <=> l.token)
        /\ m.fetches = l.fetches /\ m.got = l.got /\ (m.alone <=> l.alone)
  BY DEF LoadType
<1>2. \A f \in 1..(MaxVideos + 1) :
        LET m == [l EXCEPT !.at = "transfer", !.fetches = f] IN
        /\ m \in LoadType /\ m.at = "transfer" /\ m.video = l.video
        /\ (m.token <=> l.token) /\ m.fetches = f /\ m.got = l.got /\ (m.alone <=> l.alone)
  BY DEF LoadType, LoadPlaces
<1>3. LET m == [l EXCEPT !.got = @ + 1] IN
        /\ m \in LoadType /\ m.at = l.at /\ m.video = l.video /\ (m.token <=> l.token)
        /\ m.fetches = l.fetches /\ m.got = l.got + 1 /\ (m.alone <=> l.alone)
  BY DEF LoadType
<1> QED
  BY <1>1, <1>2, <1>3

(* All that changes for a caller within download().                         *)
Same(t) ==
  /\ load'[t].video = load[t].video /\ (load'[t].token <=> load[t].token)
  /\ (load'[t].alone <=> load[t].alone)
  /\ load' \in [Callers -> LoadType] /\ \A u \in Callers : u # t => load'[u] = load[u]

LEMMA GoFacts ==
  ASSUME DownloadTypes, NEW t \in Callers, NEW place \in LoadPlaces, Go(t, place)
  PROVE  Same(t) /\ load'[t].at = place /\ load'[t].got = load[t].got
         /\ load'[t].fetches = load[t].fetches
<1>1. load \in [Callers -> LoadType]
  BY DEF DownloadTypes
<1> DEFINE m == [load[t] EXCEPT !.at = place]
<1>2. load' = [load EXCEPT ![t] = m]
  BY <1>1 DEF Go, LoadType
<1>3. /\ m \in LoadType /\ m.at = place /\ m.video = load[t].video /\ (m.token <=> load[t].token)
      /\ m.fetches = load[t].fetches /\ m.got = load[t].got /\ (m.alone <=> load[t].alone)
  BY <1>1, LoadMoves
<1> HIDE DEF m
<1>4. load'[t] = m
  BY <1>1, <1>2
<1> QED
  BY <1>1, <1>2, <1>3, <1>4 DEF Same

LEMMA HandleFacts ==
  ASSUME DownloadTypes, NEW t \in Callers
  PROVE  /\ FreeHeaders(t) \in {"none", "live", "freed"}
         /\ [handle EXCEPT !.headers = FreeHeaders(t)] \in HandleType
         /\ [handle EXCEPT !.headers = FreeHeaders(t)].out = handle.out
         /\ [handle EXCEPT !.performing = Nobody, !.headers = FreeHeaders(t)] \in HandleType
         /\ [handle EXCEPT !.performing = Nobody, !.headers = FreeHeaders(t)].out = handle.out
         /\ [handle EXCEPT !.performing = t] \in HandleType
         /\ [handle EXCEPT !.performing = t].out = handle.out
         /\ [handle EXCEPT !.performing = t].performing = t
         /\ [handle EXCEPT !.performing = t].headers = handle.headers
<1>1. handle \in HandleType
  BY DEF DownloadTypes
<1>2. FreeHeaders(t) \in {"none", "live", "freed"}
  BY <1>1 DEF HandleType, FreeHeaders
<1> QED
  BY <1>1, <1>2 DEF HandleType

LEMMA ConfigureStep ==
  ASSUME IndInv, NEW t \in Callers, Configure(t)
  PROVE  Transfers(t) /\ Own(t)' /\ DownloadTypes'
<1>1. DownloadTypes /\ LoadInv /\ load \in [Callers -> LoadType] /\ handle \in HandleType
  BY LoadFacts DEF DownloadTypes
<1>2. load[t].at = "opened" /\ Go(t, "configured") /\ UNCHANGED <<size, raws, content>>
  BY DEF Configure, files
<1>3. /\ Same(t) /\ load'[t].at = "configured" /\ load'[t].got = load[t].got
  BY <1>1, <1>2, GoFacts DEF LoadPlaces
<1>4. /\ handle' \in HandleType /\ handle'.out = t /\ handle'.url = load[t].video
      /\ load[t].token => handle'.headers = "live"
  <2> DEFINE hs == IF load[t].token THEN "live" ELSE handle.headers
             v == load[t].video
  <2>1. handle' = [handle EXCEPT !.out = t, !.url = v, !.headers = hs]
    BY <1>1 DEF Configure, HandleType
  <2>2. hs \in {"none", "live", "freed"} /\ v \in 1..(MaxVideos + 1)
        /\ (load[t].token => hs = "live")
    BY <1>1 DEF HandleType, LoadType
  <2> HIDE DEF hs, v
  <2>3. handle' \in HandleType /\ handle'.out = t /\ handle'.url = v /\ handle'.headers = hs
    BY <1>1, <2>1, <2>2 DEF HandleType
  <2> QED
    BY <2>2, <2>3 DEF v
<1>5. Transfers(t)
  BY <1>2, <1>3, <1>4 DEF Transfers, Same, Downloading
<1>6. Own(t)'
  <2>1. Own(t)
    BY <1>1 DEF LoadInv
  <2> QED
    BY <1>2, <1>3, <1>4, <2>1 DEF Own, Same
<1>7. DownloadTypes'
  BY <1>1, <1>2, <1>3, <1>4 DEF DownloadTypes, Same
<1> QED
  BY <1>5, <1>6, <1>7

LEMMA PerformStep ==
  ASSUME IndInv, NEW t \in Callers, Perform(t)
  PROVE  Transfers(t) /\ Own(t)' /\ DownloadTypes'
<1>1. DownloadTypes /\ LoadInv /\ load \in [Callers -> LoadType] /\ handle \in HandleType
  BY LoadFacts DEF DownloadTypes
<1>2. /\ load[t].at = "configured" /\ handle' = [handle EXCEPT !.performing = t]
      /\ UNCHANGED <<size, raws, content>>
  BY DEF Perform, files
<1>3. /\ handle' \in HandleType /\ handle'.out = handle.out /\ handle'.performing = t
      /\ handle'.headers = handle.headers
  BY <1>1, <1>2, HandleFacts
<1>4. /\ Same(t) /\ load'[t].at = "transfer" /\ load'[t].got = load[t].got
      /\ load'[t].fetches = handle.url
  <2> DEFINE m == [load[t] EXCEPT !.at = "transfer", !.fetches = handle.url]
  <2>1. load' = [load EXCEPT ![t] = m]
    BY <1>1 DEF Perform, LoadType
  <2>2. handle.url \in 1..(MaxVideos + 1)
    BY <1>1 DEF HandleType
  <2>3. /\ m \in LoadType /\ m.at = "transfer" /\ m.video = load[t].video
        /\ (m.token <=> load[t].token) /\ m.fetches = handle.url /\ m.got = load[t].got
        /\ (m.alone <=> load[t].alone)
    BY <1>1, <2>2, LoadMoves
  <2> HIDE DEF m
  <2>4. load'[t] = m
    BY <1>1, <2>1
  <2> QED
    BY <1>1, <2>1, <2>3, <2>4 DEF Same
<1>5. Configured(t) /\ Own(t)
  BY <1>1 DEF LoadInv
<1>6. Transfers(t)
  BY <1>2, <1>3, <1>4, <1>5 DEF Transfers, Same, Downloading, Configured
<1>7. Own(t)'
  <2> SUFFICES ASSUME load[t].alone PROVE Own(t)'
    BY <1>4 DEF Own, Same
  <2>1. /\ content[load[t].video] = <<>> /\ load[t].got = 0
        /\ handle.out = t /\ (load[t].token => handle.headers = "live")
        /\ handle.url = load[t].video
    BY <1>2, <1>5 DEF Own
  <2>2. <<>> = [i \in 1..0 |-> [of |-> load[t].video, part |-> i]]
    OBVIOUS
  <2>3. content'[load'[t].video] = [i \in 1..load'[t].got |-> [of |-> load'[t].video, part |-> i]]
    BY <1>2, <1>4, <2>1, <2>2 DEF Same
  <2> QED
    BY <1>3, <1>4, <2>1, <2>3 DEF Own, Same
<1>8. DownloadTypes'
  BY <1>1, <1>2, <1>3, <1>4 DEF DownloadTypes, Same
<1> QED
  BY <1>6, <1>7, <1>8

LEMMA FailStep ==
  ASSUME IndInv, NEW t \in Callers, PerformRefused(t) \/ TransferFails(t) \/ TransferEnds(t)
  PROVE  Transfers(t) /\ Own(t)' /\ DownloadTypes'
<1>1. DownloadTypes /\ LoadInv /\ load \in [Callers -> LoadType] /\ handle \in HandleType
  BY LoadFacts DEF DownloadTypes
<1>2. /\ Downloading(t) /\ UNCHANGED <<size, raws, content>>
      /\ handle' = [handle EXCEPT !.headers = FreeHeaders(t)]
         \/ handle' = [handle EXCEPT !.performing = Nobody, !.headers = FreeHeaders(t)]
  BY DEF PerformRefused, TransferFails, TransferEnds, EndTransfer, Downloading, files
<1>3. handle' \in HandleType /\ handle'.out = handle.out
  BY <1>1, <1>2, HandleFacts
<1>4. PICK place \in {"ended", "failed"} :
        /\ Go(t, place)
        /\ place = "ended" => load[t].at = "transfer" /\ load[t].got = size[load[t].fetches]
  BY DEF PerformRefused, TransferFails, TransferEnds, EndTransfer
<1>5. Same(t) /\ load'[t].at = place /\ load'[t].got = load[t].got
  BY <1>1, <1>4, GoFacts DEF LoadPlaces
<1>6. Transfers(t)
  BY <1>2, <1>3, <1>5 DEF Transfers, Same
<1>7. Own(t)'
  <2>1. Own(t)
    BY <1>1 DEF LoadInv
  <2>2. CASE place = "failed"
    BY <1>5, <2>2 DEF Own
  <2>3. CASE place = "ended" /\ load[t].alone
    <3>1. /\ load[t].fetches = load[t].video /\ load[t].got <= 1
          /\ content[load[t].video] =
               [i \in 1..load[t].got |-> [of |-> load[t].video, part |-> i]]
          /\ load[t].got = size[load[t].video]
      BY <1>4, <2>1, <2>3 DEF Own
    <3>2. PICK v : v = load[t].video
      OBVIOUS
    <3>3. content[v] = [i \in 1..size[v] |-> [of |-> v, part |-> i]] /\ size[v] <= 1
      BY <3>1, <3>2
    <3>4. content'[v] = [i \in 1..size'[v] |-> [of |-> v, part |-> i]] /\ size'[v] <= 1
      BY <1>2, <3>3
    <3>5. load'[t].video = v /\ load'[t].at = "ended"
      BY <1>5, <2>3, <3>2 DEF Same
    <3> QED
      BY <3>4, <3>5 DEF Own, Body
  <2> QED
    BY <1>5, <2>2, <2>3 DEF Own, Same
<1>8. DownloadTypes'
  BY <1>1, <1>2, <1>3, <1>5 DEF DownloadTypes, Same
<1> QED
  BY <1>6, <1>7, <1>8
(* A chunk goes to the file of the caller whose options are set.            *)
LEMMA WriteStep ==
  ASSUME IndInv, NEW t \in Callers, Write(t)
  PROVE  Transfers(t) /\ Own(t)' /\ DownloadTypes'
<1>1. DownloadTypes /\ LoadInv /\ load \in [Callers -> LoadType] /\ handle \in HandleType
  BY LoadFacts DEF DownloadTypes
<1>2. /\ load[t].at = "transfer" /\ Downloading(t) /\ handle.out \in Callers
      /\ Downloading(handle.out) /\ UNCHANGED <<size, raws>>
  BY <1>1 DEF Write, More, LoadInv, Configured, Downloading
<1>3. PICK w \in Videos : w = load[handle.out].video
  BY <1>2, LoadFacts DEF Downloading
<1>4. PICK c \in Parts : c = Chunk(t)
  <2>1. load[t].fetches \in Nat /\ load[t].got + 1 \in Nat
    BY <1>1, CallTypes DEF LoadType
  <2> QED
    BY <2>1 DEF Chunk, Parts
<1>5. content[w] \in Seq(Parts)
  BY <1>1 DEF DownloadTypes
<1>6. content' = [content EXCEPT ![w] = Append(content[w], c)]
  BY <1>1, <1>3, <1>4 DEF Write, Target, DownloadTypes
<1>7. content' \in [Videos -> Seq(Parts)] /\ content'[w] = Append(content[w], c)
  <2>1. Append(content[w], c) \in Seq(Parts)
    BY <1>5
  <2> QED
    BY <1>1, <1>6, <2>1 DEF DownloadTypes
<1>8. /\ handle' \in HandleType /\ handle'.out = handle.out /\ Same(t)
      /\ load'[t].at \in {"transfer", "failed"}
      /\ load'[t].at = "transfer" =>
           /\ Len(content[w]) + 1 = 1 /\ handle' = handle
           /\ load'[t].got = load[t].got + 1 /\ load'[t].fetches = load[t].fetches
  <2>1. CASE WriteReturns(Len(content[w]) + 1) = 1
    <3> DEFINE m == [load[t] EXCEPT !.got = @ + 1]
    <3>1. load' = [load EXCEPT ![t] = m] /\ handle' = handle
      BY <1>1, <1>3, <2>1 DEF Write, Target, LoadType
    <3>2. /\ m \in LoadType /\ m.at = load[t].at /\ m.video = load[t].video
          /\ (m.token <=> load[t].token) /\ m.fetches = load[t].fetches
          /\ m.got = load[t].got + 1 /\ (m.alone <=> load[t].alone)
      BY <1>1, LoadMoves
    <3> HIDE DEF m
    <3>3. load'[t] = m
      BY <1>1, <3>1
    <3>4. Len(content[w]) + 1 = 1
      BY <2>1 DEF WriteReturns
    <3> QED
      BY <1>1, <1>2, <3>1, <3>2, <3>3, <3>4 DEF Same
  <2>2. CASE WriteReturns(Len(content[w]) + 1) # 1
    <3>1. EndTransfer(t, "failed")
      BY <1>3, <2>2 DEF Write, Target
    <3>2. handle' \in HandleType /\ handle'.out = handle.out
      BY <1>1, <3>1, HandleFacts DEF EndTransfer
    <3>3. Same(t) /\ load'[t].at = "failed"
      BY <1>1, <3>1, GoFacts DEF EndTransfer, LoadPlaces
    <3> QED
      BY <3>2, <3>3
  <2> QED
    BY <2>1, <2>2
<1>9. Transfers(t)
  <2>1. \A v \in Videos : v # load[handle.out].video => content'[v] = content[v]
    BY <1>1, <1>3, <1>6 DEF DownloadTypes
  <2> QED
    BY <1>2, <1>8, <2>1 DEF Transfers, Same
<1>10. Own(t)'
  <2> SUFFICES ASSUME load[t].alone, load'[t].at = "transfer" PROVE Own(t)'
    BY <1>8 DEF Own, Same
  <2>1. /\ handle.out = t /\ (load[t].token => handle.headers = "live")
        /\ load[t].fetches = w /\ handle.performing = t /\ load[t].video = w
        /\ content[w] = [i \in 1..load[t].got |-> [of |-> w, part |-> i]]
    <3>1. Own(t)
      BY <1>1 DEF LoadInv
    <3>2. handle.out = t /\ load[t].video = w
      BY <1>2, <1>3, <3>1 DEF Own
    <3> QED
      BY <1>2, <3>1, <3>2 DEF Own
  <2>2. Len(content[w]) = 0 /\ load[t].got = 0
    <3>1. PICK n \in Nat : n = load[t].got
      BY <1>1 DEF LoadType
    <3>2. Len([i \in 1..n |-> [of |-> w, part |-> i]]) = n
      BY <3>1
    <3>3. Len(content[w]) = n
      BY <2>1, <3>1, <3>2
    <3>4. Len(content[w]) + 1 = 1
      BY <1>8
    <3> QED
      BY <3>1, <3>3, <3>4
  <2>3. content[w] = <<>>
    BY <1>5, <2>2
  <2>4. c = [of |-> w, part |-> 1]
    BY <1>4, <2>1, <2>2 DEF Chunk
  <2>5. content'[w] = [i \in 1..1 |-> [of |-> w, part |-> i]]
    <3>1. Append(<<>>, c) = [i \in 1..1 |-> [of |-> w, part |-> i]]
      BY <2>4
    <3> QED
      BY <1>7, <2>3, <3>1
  <2>6. load'[t].got = 1 /\ load'[t].video = w /\ load'[t].fetches = w /\ handle' = handle
    BY <1>8, <2>1, <2>2 DEF Same
  <2> QED
    BY <1>8, <2>1, <2>5, <2>6 DEF Own, Same
<1>11. DownloadTypes'
  BY <1>1, <1>2, <1>7, <1>8 DEF DownloadTypes, Same
<1> QED
  BY <1>9, <1>10, <1>11

(* The stream of a caller who has been alone is alive.                      *)
LEMMA DeadStreamStep ==
  ASSUME IndInv, NEW t \in Callers, WriteToDeadStream(t)
  PROVE  Transfers(t) /\ Own(t)' /\ DownloadTypes'
<1>1. DownloadTypes /\ LoadInv /\ load \in [Callers -> LoadType] /\ handle \in HandleType
  BY LoadFacts DEF DownloadTypes
<1>2. /\ load[t].at = "transfer" /\ Downloading(t) /\ handle.out \in Callers
      /\ ~Downloading(handle.out) /\ UNCHANGED <<size, raws, content>>
  BY <1>1 DEF WriteToDeadStream, More, LoadInv, Configured, Downloading, files
<1>3. ~load[t].alone
  BY <1>1, <1>2 DEF LoadInv, Own
<1>4. /\ handle' \in HandleType /\ handle'.out = handle.out /\ Same(t)
      /\ load'[t].at \in {"transfer", "failed"}
  <2>1. CASE load' = [load EXCEPT ![t].got = @ + 1] /\ UNCHANGED handle
    <3> DEFINE m == [load[t] EXCEPT !.got = @ + 1]
    <3>1. load' = [load EXCEPT ![t] = m] /\ handle' = handle
      BY <1>1, <2>1 DEF LoadType
    <3>2. /\ m \in LoadType /\ m.at = load[t].at /\ m.video = load[t].video
          /\ (m.token <=> load[t].token) /\ (m.alone <=> load[t].alone)
      BY <1>1, LoadMoves
    <3> HIDE DEF m
    <3>3. load'[t] = m
      BY <1>1, <3>1
    <3> QED
      BY <1>1, <1>2, <3>1, <3>2, <3>3 DEF Same
  <2>2. CASE EndTransfer(t, "failed")
    <3>1. handle' \in HandleType /\ handle'.out = handle.out
      BY <1>1, <2>2, HandleFacts DEF EndTransfer
    <3>2. Same(t) /\ load'[t].at = "failed"
      BY <1>1, <2>2, GoFacts DEF EndTransfer, LoadPlaces
    <3> QED
      BY <3>1, <3>2
  <2> QED
    BY <2>1, <2>2 DEF WriteToDeadStream
<1>5. Transfers(t)
  BY <1>2, <1>4 DEF Transfers, Same
<1>6. Own(t)'
  BY <1>3, <1>4 DEF Own, Same
<1>7. DownloadTypes'
  BY <1>1, <1>2, <1>4 DEF DownloadTypes, Same
<1> QED
  BY <1>5, <1>6, <1>7

(* No step within download() is anything else.                              *)
LEMMA DownloadStep ==
  ASSUME IndInv, NEW t \in Callers, Download(t), call' = call
  PROVE  /\ LoadInv' /\ DownloadTypes' /\ size' = size
         /\ \A u \in Callers : At(u, "transcode") => content'[Mine(u)] = content[Mine(u)]
<1>1. Transfers(t) /\ Own(t)' /\ DownloadTypes'
  BY ConfigureStep, PerformStep, FailStep, WriteStep, DeadStreamStep DEF Download
<1> QED
  BY <1>1, TransferStep DEF Transfers
LEMMA BodyType ==
  ASSUME DownloadTypes, NEW v \in Videos
  PROVE  Body(v) \in Seq(Parts)
<1>1. PICK n \in Nat : n = size[v]
  BY DownloaderAssumption DEF DownloadTypes
<1>2. v \in Nat
  BY DEF Videos
<1>3. \A i \in 1..n : [of |-> v, part |-> i] \in Parts
  BY <1>2 DEF Parts
<1>4. [i \in 1..n |-> [of |-> v, part |-> i]] \in Seq(Parts)
  BY <1>3
<1> QED
  BY <1>1, <1>4 DEF Body

(* A step outside download() that touches the file of at most one video,    *)
(* which is no other call's.                                                *)
LEMMA OutsideStep ==
  ASSUME IndInv, StoreInv', NEW t \in Callers, Others(t), handle' = handle, load' = load,
         ~At(t, "download"), ~At(t, "download")', mixed' = mixed,
         NEW w, \A v \in Videos : v # w => content'[v] = content[v] /\ size'[v] = size[v],
         \A u \in Callers : u # t /\ Making(u) => Mine(u) # w,
         At(t, "transcode") /\ At(t, "transcode")' =>
           Mine(t)' = Mine(t) /\ content' = content /\ size' = size,
         ~At(t, "transcode") /\ At(t, "transcode")' => content'[Mine(t)'] = Body(Mine(t))'
  PROVE  LoadInv' /\ SourceIsWhole'
<1>1. StoreInv
  BY DEF IndInv
<1>2. ASSUME NEW u \in Callers, load[u].at # "idle"
      PROVE  /\ content'[load[u].video] = content[load[u].video]
             /\ size'[load[u].video] = size[load[u].video]
  <2>1. /\ At(u, "download") /\ Making(u) /\ load[u].video = Mine(u)
        /\ load[u].video \in Videos
    BY <1>2, LoadFacts
  <2>2. u # t
    BY <2>1
  <2> QED
    BY <2>1, <2>2
<1>3. LoadInv'
  BY <1>2, LoadKept
<1>4. ASSUME NEW u \in Callers, At(u, "transcode"), At(u, "transcode")'
      PROVE  content'[Mine(u)] = content[Mine(u)] /\ size'[Mine(u)] = size[Mine(u)]
  <2>1. Making(u)
    BY <1>4 DEF At, Making
  <2>2. Mine(u) \in Videos
    BY <1>1, <2>1, StoreFacts
  <2> QED
    BY <1>4, <2>1, <2>2
<1>5. SourceIsWhole'
  BY <1>4, SourceStep
<1> QED
  BY <1>3, <1>5

(* The caller leaves download().                                            *)
LEMMA ReturnStep ==
  ASSUME IndInv, StoreInv', NEW t \in Callers, Others(t), At(t, "download"),
         ~At(t, "download")', load' = [load EXCEPT ![t] = NoLoad],
         UNCHANGED <<handle, size, content>>, mixed \subseteq mixed',
         At(t, "transcode")' =>
           /\ Mine(t)' = Mine(t) /\ load[t].at = "ended"
           /\ load[t].alone \/ Mine(t) \in mixed'
  PROVE  LoadInv' /\ SourceIsWhole' /\ DownloadTypes'
<1>1. DownloadTypes /\ LoadInv /\ load \in [Callers -> LoadType]
  BY LoadFacts DEF DownloadTypes
<1>2. NoLoad \in LoadType /\ NoLoad.at = "idle" /\ Mine(t) \in Nat
  BY <1>1, CallTypes, StoreFacts DEF NoLoad, LoadType, LoadPlaces, IndInv, LibraryTypes, CallType, Mine
<1> HIDE DEF NoLoad
<1>3. /\ load' \in [Callers -> LoadType] /\ load'[t].at = "idle"
      /\ \A u \in Callers : u # t => load'[u] = load[u]
  BY <1>1, <1>2
<1>4. DownloadTypes'
  BY <1>1, <1>3 DEF DownloadTypes
<1>5. ASSUME NEW u \in Callers
      PROVE  InDownload(u)' /\ Solo(u)' /\ Own(u)' /\ Configured(u)'
  <2>1. CASE u = t
    <3>1. InDownload(u)' /\ Solo(u)' /\ Configured(u)'
      BY <1>3, <2>1 DEF InDownload, Solo, Configured, Downloading
    <3>2. Own(u)'
      BY <1>3, <2>1 DEF Own
    <3> QED
      BY <3>1, <3>2
  <2>2. CASE u # t
    <3>1. load'[u] = load[u] /\ call'[u] = call[u]
      BY <1>3, <2>2 DEF Others
    <3>2. InDownload(u) /\ Solo(u) /\ Own(u) /\ Configured(u)
      BY <1>1 DEF LoadInv
    <3>3. InDownload(u)' /\ Configured(u)'
      BY <3>1, <3>2 DEF InDownload, Configured, At, Mine
    <3>4. Solo(u)'
      BY <1>3, <3>1, <3>2 DEF Solo, Downloading
    <3>5. Own(u)'
      <4>1. handle' = handle /\ size' = size /\ content' = content
        OBVIOUS
      <4> HIDE DEF Others
      <4>2. PICK v : v = load[u].video
        OBVIOUS
      <4>3. load'[u] = load[u] /\ load'[u].video = v
        BY <3>1, <4>2
      <4>4. Body(v)' = Body(v)
        BY <4>1 DEF Body
      <4> QED
        BY <3>2, <4>1, <4>2, <4>3, <4>4 DEF Own
    <3> QED
      BY <3>3, <3>4, <3>5
  <2> QED
    BY <2>1, <2>2
<1>6. LoadInv'
  BY <1>5 DEF LoadInv
<1>7. ASSUME At(t, "transcode")', Mine(t)' \notin mixed'
      PROVE  content'[Mine(t)'] = Body(Mine(t))'
  <2>1. Mine(t)' = Mine(t) /\ load[t].at = "ended" /\ load[t].alone
    BY <1>7
  <2>2. load[t].video = Mine(t) /\ Own(t)
    BY <1>1, LoadFacts, <2>1 DEF LoadInv
  <2>3. content[Mine(t)] = Body(Mine(t))
    BY <2>1, <2>2 DEF Own
  <2> QED
    BY <2>1, <2>3 DEF Body
<1>8. SourceIsWhole'
  <2>1. ~At(t, "transcode")
    BY DEF At
  <2> QED
    BY <1>7, <2>1, SourceStep
<1> QED
  BY <1>4, <1>6, <1>8

(* The caller enters it, for a new video.                                   *)
LEMMA EnterStep ==
  ASSUME IndInv, StoreInv', NEW t \in Callers, StartUpload(t)
  PROVE  LoadInv' /\ SourceIsWhole' /\ DownloadTypes'
<1>1. DownloadTypes /\ LoadInv /\ load \in [Callers -> LoadType] /\ StoreInv
  BY LoadFacts DEF DownloadTypes, IndInv
<1>2. /\ Begins(t) /\ Others(t) /\ call'[t].op = "upload" /\ call'[t].at = "download"
  BY BeginKinds
<1>3. PICK w \in Videos : w = issued + 1
  BY <1>1, <1>2, StoreFacts DEF Begins, Videos
<1>4. \A u \in Callers : Making(u) => Mine(u) # w /\ Mine(u) \in Videos
  BY <1>1, <1>3, StoreFacts
<1> DEFINE others == {c \in Callers : c # t /\ Downloading(c)}
<1>5. PICK token \in BOOLEAN : BeginDownload(t, w, token)
  BY <1>3 DEF StartUpload
<1>6. load[t].at = "idle" /\ handle' = handle
  BY <1>5 DEF BeginDownload
<1>7. size' \in [Videos -> 0..MaxChunks] /\ \A v \in Videos : v # w => size'[v] = size[v]
  <2>1. PICK n \in 0..MaxChunks : size' = [size EXCEPT ![w] = n]
    BY <1>5 DEF BeginDownload
  <2> QED
    BY <1>1, <2>1 DEF DownloadTypes
<1>8. /\ content' \in [Videos -> Seq(Parts)] /\ content'[w] = <<>>
      /\ \A v \in Videos : v # w => content'[v] = content[v]
  <2>1. content' = [content EXCEPT ![w] = <<>>]
    BY <1>5 DEF BeginDownload
  <2>2. <<>> \in Seq(Parts)
    OBVIOUS
  <2> QED
    BY <1>1, <2>1, <2>2 DEF DownloadTypes
<1>9. /\ load' \in [Callers -> LoadType]
      /\ load'[t].at = "opened" /\ load'[t].video = w /\ load'[t].got = 0
      /\ load'[t].alone => others = {}
  <2>0. PICK b \in BOOLEAN : b = (others = {})
    OBVIOUS
  <2> DEFINE d == [NoLoad EXCEPT !.at = "opened", !.video = w, !.token = token, !.alone = b]
  <2>1. w \in 1..(MaxVideos + 1)
    BY CallTypes DEF Videos
  <2>2. /\ d \in LoadType /\ d.at = "opened" /\ d.video = w /\ d.got = 0
        /\ (d.alone => others = {})
    <3> HIDE DEF others
    <3>1. NoLoad \in LoadType /\ NoLoad.got = 0
      BY CallTypes DEF NoLoad, LoadType, LoadPlaces
    <3> HIDE DEF NoLoad
    <3> QED
      BY <2>0, <2>1, <3>1 DEF LoadType, LoadPlaces
  <2> DEFINE e(c) == [load[c] EXCEPT !.alone = @ /\ c \notin others]
  <2>3. load' = [c \in Callers |-> IF c = t THEN d ELSE e(c)]
    BY <1>5, <2>0 DEF BeginDownload
  <2>4. \A c \in Callers : e(c) \in LoadType
    BY <1>1 DEF LoadType
  <2> HIDE DEF d, e
  <2>5. load'[t] = d /\ load' \in [Callers -> LoadType]
    BY <2>2, <2>3, <2>4
  <2> HIDE DEF others
  <2> QED
    BY <2>2, <2>5
<1>10. ASSUME NEW u \in Callers, u # t
       PROVE  /\ load'[u].at = load[u].at /\ load'[u].video = load[u].video
              /\ load'[u].alone => load[u].alone /\ ~Downloading(u)
  <2> DEFINE e == [load[u] EXCEPT !.alone = @ /\ u \notin others]
  <2>1. load'[u] = e
    BY <1>5, <1>10 DEF BeginDownload
  <2>2. /\ e.at = load[u].at /\ e.video = load[u].video
        /\ (e.alone => load[u].alone /\ u \notin others)
    BY <1>1 DEF LoadType
  <2> HIDE DEF e
  <2> QED
    BY <1>10, <2>1, <2>2
<1>11. DownloadTypes'
  BY <1>1, <1>6, <1>7, <1>8, <1>9 DEF DownloadTypes
<1>12. ASSUME NEW u \in Callers, u # t
       PROVE  InDownload(u)' /\ Solo(u)' /\ Own(u)' /\ Configured(u)'
  <2>1. InDownload(u) /\ Own(u) /\ Configured(u) /\ call'[u] = call[u]
    BY <1>1, <1>2, <1>12 DEF LoadInv, Others
  <2>2. InDownload(u)' /\ Configured(u)' /\ Solo(u)'
    BY <1>6, <1>10, <1>12, <2>1 DEF InDownload, Configured, Solo, Downloading, At, Mine
  <2>3. Own(u)'
    <3> SUFFICES ASSUME load'[u].alone PROVE Own(u)'
      BY DEF Own
    <3>1. load[u].alone /\ load[u].at \in {"idle", "ended", "failed"}
      BY <1>10, <1>12 DEF Downloading
    <3>2. CASE load[u].at # "ended"
      BY <1>10, <1>12, <3>1, <3>2 DEF Own
    <3>3. CASE load[u].at = "ended"
      <4>1. PICK v \in Videos : v = load[u].video /\ v # w
        BY <1>4, <3>3, LoadFacts
      <4>2. content[v] = [i \in 1..size[v] |-> [of |-> v, part |-> i]] /\ size[v] <= 1
        BY <2>1, <3>1, <3>3, <4>1 DEF Own, Body
      <4>3. content'[v] = [i \in 1..size'[v] |-> [of |-> v, part |-> i]] /\ size'[v] <= 1
        BY <1>7, <1>8, <4>1, <4>2
      <4>4. load'[u].video = v /\ load'[u].at = "ended"
        BY <1>10, <1>12, <3>3, <4>1
      <4> QED
        BY <4>3, <4>4 DEF Own, Body
    <3> QED
      BY <3>2, <3>3
  <2> QED
    BY <2>2, <2>3
<1>13. InDownload(t)' /\ Solo(t)' /\ Own(t)' /\ Configured(t)'
  <2>1. InDownload(t)'
    BY <1>2, <1>3, <1>9 DEF InDownload, Begins, At, Mine
  <2>2. Solo(t)'
    BY <1>9, <1>10 DEF Solo, Downloading
  <2>3. Own(t)' /\ Configured(t)'
    BY <1>8, <1>9 DEF Own, Configured
  <2> QED
    BY <2>1, <2>2, <2>3
<1>14. SourceIsWhole'
  <2>1. ~At(t, "transcode")' /\ mixed \subseteq mixed'
    BY <1>2 DEF At, Begins, history
  <2>2. ASSUME NEW u \in Callers, At(u, "transcode")
        PROVE  content'[Mine(u)] = content[Mine(u)] /\ size'[Mine(u)] = size[Mine(u)]
    BY <1>4, <1>7, <1>8, <2>2 DEF At, Making
  <2> QED
    BY <1>2, <2>1, <2>2, SourceStep
<1> QED
  BY <1>11, <1>12, <1>13, <1>14 DEF LoadInv
-----------------------------------------------------------------------------
(* The inductive invariant                                                  *)

LEMMA Initially ==
  ASSUME Init PROVE IndInv
<1>1. /\ handle = NewHandle /\ load = [t \in Callers |-> NoLoad]
      /\ size = [v \in Videos |-> 0] /\ raws = {} /\ content = [v \in Videos |-> <<>>]
      /\ hasId \in BOOLEAN /\ issued = 0 /\ call = [t \in Callers |-> NoCall]
      /\ video = [v \in Videos |-> "none"] /\ rows = {} /\ fate = [v \in Videos |-> "none"]
      /\ mixed = {} /\ promised = {} /\ removed = {} /\ unsure = {} /\ garbled = FALSE
      /\ crashes = 0
  BY LibraryAssumption DEF Init, NoDownloads
<1>2. TypeOK
  <2>1. LibraryTypes
    BY <1>1, CallTypes DEF LibraryTypes, Fates
  <2>2. NoLoad \in LoadType /\ NewHandle \in HandleType
    BY CallTypes DEF NoLoad, LoadType, LoadPlaces, NewHandle, HandleType
  <2>3. 0 \in 0..MaxChunks /\ <<>> \in Seq(Parts)
    BY DownloaderAssumption
  <2> HIDE DEF NoLoad, NewHandle
  <2>4. DownloadTypes
    BY <1>1, <2>2, <2>3 DEF DownloadTypes
  <2>5. hasId \in BOOLEAN /\ garbled \in BOOLEAN /\ crashes \in 0..MaxCrashes
    <3>1. crashes \in 0..MaxCrashes
      BY <1>1, LibraryAssumption
    <3> QED
      BY <1>1, <3>1, Zenon
  <2> QED
    BY <1>1, <2>1, <2>4, <2>5, TypesSplit
<1>3. \A t \in Callers : call[t].at = "idle" /\ call[t].imported = {} /\ load[t].at = "idle"
  BY <1>1 DEF NoCall, NoLoad
<1>4. StoreInv
  <2>1. \A t \in Callers : Makes(t) /\ Deletes(t) /\ Imports(t)
    BY <1>3 DEF Makes, Deletes, Imports, Making, Deleting
  <2>2. Unused /\ Traces /\ RowHasVideo /\ SuccessIsStored /\ LeftoversKnown
    BY <1>1 DEF Unused, Traces, RowHasVideo, SuccessIsStored, LeftoversKnown
  <2> QED
    BY <1>2, <2>1, <2>2, CallTypes DEF StoreInv
<1>5. SourceIsWhole
  BY <1>3 DEF SourceIsWhole, At
<1>6. \A t \in Callers : InDownload(t) /\ Solo(t) /\ Own(t) /\ Configured(t)
  BY <1>3 DEF InDownload, Solo, Own, Configured, Downloading, At
<1> QED
  BY <1>2, <1>4, <1>5, <1>6 DEF IndInv

LEMMA Parted ==
  IndInv <=> /\ LibraryTypes /\ DownloadTypes
             /\ hasId \in BOOLEAN /\ garbled \in BOOLEAN /\ crashes \in 0..MaxCrashes
             /\ StoreInv /\ SourceIsWhole /\ LoadInv
BY TypesSplit DEF IndInv, LoadInv

(* A step that changes neither a file nor a row nor a call.                 *)
LEMMA NothingStored ==
  ASSUME IndInv, UNCHANGED <<downloads, hasId, issued, call, video, rows, fate, mixed, promised>>,
         UNCHANGED <<removed, unsure>>
  PROVE  StoreInv' /\ LoadInv' /\ SourceIsWhole' /\ DownloadTypes'
<1>1. /\ UNCHANGED <<handle, load, size, raws, content, hasId, issued, call, video, rows>>
      /\ UNCHANGED <<fate, mixed, promised, removed, unsure>>
  BY DEF downloads, files
<1>2. StoreInv /\ LoadInv /\ SourceIsWhole /\ DownloadTypes
  BY Parted
<1>3. StoreInv'
  BY <1>1, <1>2 DEF StoreInv, LibraryTypes, Unused, Traces, Makes, Deletes, Imports, Stage,
    RowHasVideo, SuccessIsStored, LeftoversKnown, At, Mine, Making, Deleting, Filed
<1>4. LoadInv'
  BY <1>1, <1>2 DEF LoadInv, InDownload, Solo, Own, Configured, Downloading, At, Mine, Body
<1>5. SourceIsWhole' /\ DownloadTypes'
  BY <1>1, <1>2 DEF SourceIsWhole, IsWhole, Body, At, Mine, DownloadTypes
<1> QED
  BY <1>3, <1>4, <1>5

LEMMA CallerStep ==
  ASSUME IndInv, NEW t \in Callers, Upload(t) \/ Import(t) \/ Store(t) \/ Delete(t) \/ Look(t)
  PROVE  StoreInv' /\ LoadInv' /\ SourceIsWhole' /\ DownloadTypes'
<1>1. StoreInv /\ DownloadTypes /\ LoadInv /\ LibraryTypes
  BY Parted
<1>w. \A u \in Callers : Making(u) => Mine(u) # 0
  BY <1>1, StoreFacts DEF Videos
<1>2. CASE StartUpload(t)
  BY <1>1, <1>2, BeginKinds, BeginStep, EnterStep
<1>3. CASE UploadRefused(t)
  <2>1. StoreInv'
    BY <1>1, <1>3, RefusedStep
  <2>2. /\ UNCHANGED <<handle, load, size, raws, content, call>> /\ Others(t) /\ mixed' = mixed
        /\ ~At(t, "download") /\ ~At(t, "download")' /\ ~At(t, "transcode")'
    BY <1>3 DEF UploadRefused, downloads, files, Others, At
  <2>3. DownloadTypes'
    BY <1>1, <2>2 DEF DownloadTypes
  <2>4. LoadInv' /\ SourceIsWhole'
    BY <1>w, <2>1, <2>2, OutsideStep
  <2> QED
    BY <2>1, <2>3, <2>4
<1>4. CASE Download(t) /\ UNCHANGED <<state, history>>
  <2>1. UNCHANGED Library
    BY <1>4, WorkKinds
  <2>2. call' = call /\ issued' = issued /\ mixed' = mixed /\ Others(t)
    BY <2>1 DEF Library, Others
  <2>3. StoreInv'
    BY <1>1, <2>1 DEF StoreInv, LibraryTypes, Unused, Traces, Makes, Deletes, Imports, Stage,
      RowHasVideo, SuccessIsStored, LeftoversKnown, Library, At, Mine, Making, Deleting, Filed
  <2>4. /\ LoadInv' /\ DownloadTypes' /\ size' = size
        /\ \A u \in Callers : At(u, "transcode") => content'[Mine(u)] = content[Mine(u)]
    BY <1>4, <2>2, DownloadStep
  <2>5. SourceIsWhole'
    BY <2>2, <2>3, <2>4, SourceStep DEF At, Mine
  <2> QED
    BY <2>3, <2>4, <2>5
<1>5. CASE Downloaded(t)
  <2>1. Works(t) /\ Others(t) /\ call' \in [Callers -> CallType] /\ call'[t].at = "transcode"
    BY <1>5, WorkKinds
  <2>2. StoreInv'
    BY <1>1, <2>1, WorkStep
  <2>3. /\ At(t, "download") /\ load[t].at = "ended" /\ load' = [load EXCEPT ![t] = NoLoad]
        /\ UNCHANGED <<handle, size, content>>
        /\ mixed \subseteq mixed' /\ (load[t].alone \/ Mine(t) \in mixed')
    BY <1>5 DEF Downloaded, DownloadReturns, files
  <2>4. ~At(t, "download")' /\ Mine(t)' = Mine(t)
    BY <2>1 DEF Works, At, Mine
  <2> QED
    BY <2>1, <2>2, <2>3, <2>4, ReturnStep
<1>6. CASE DownloadFailed(t)
  <2>1. Others(t) /\ StoreInv' /\ call'[t].at \in {"idle", "next", "report"}
    <3>1. /\ Others(t) /\ call' \in [Callers -> CallType] /\ \E how \in Fates : Quits(t, how)
      BY <1>6, QuitKinds
    <3> QED
      BY <1>1, <3>1, QuitStep DEF Quits
  <2>2. /\ At(t, "download") /\ load' = [load EXCEPT ![t] = NoLoad]
        /\ UNCHANGED <<handle, size, content>> /\ mixed' = mixed
    BY <1>6 DEF DownloadFailed, DownloadReturns, files
  <2>3. ~At(t, "download")' /\ ~At(t, "transcode")'
    BY <2>1 DEF At
  <2> QED
    BY <2>1, <2>2, <2>3, ReturnStep
<1>7. CASE StartCopy(t)
  <2>1. Begins(t) /\ Others(t) /\ call' \in [Callers -> CallType] /\ call'[t].at = "copy"
    BY <1>7, BeginKinds
  <2>2. StoreInv'
    BY <1>1, <2>1, BeginStep
  <2>3. PICK w \in Videos : w = issued + 1
    BY <1>1, <2>1, StoreFacts DEF Begins, Videos
  <2>4. /\ size' = [size EXCEPT ![w] = MaxChunks] /\ content' = [content EXCEPT ![w] = <<>>]
        /\ handle' = handle /\ load' = load /\ mixed' = mixed
        /\ ~At(t, "download") /\ ~At(t, "transcode")
    BY <1>7, <2>3 DEF StartCopy, history, At
  <2>5. DownloadTypes'
    <3>1. MaxChunks \in 0..MaxChunks /\ <<>> \in Seq(Parts)
      BY DownloaderAssumption
    <3> QED
      BY <1>1, <2>4, <3>1 DEF DownloadTypes
  <2>6. \A v \in Videos : v # w => content'[v] = content[v] /\ size'[v] = size[v]
    BY <1>1, <2>4 DEF DownloadTypes
  <2>7. \A u \in Callers : Making(u) => Mine(u) # w
    BY <1>1, <2>3, StoreFacts
  <2>8. ~At(t, "download")' /\ ~At(t, "transcode")'
    BY <2>1 DEF At
  <2> QED
    BY <2>1, <2>2, <2>4, <2>5, <2>6, <2>7, <2>8, OutsideStep
<1>8. CASE Copied(t)
  <2>1. Works(t) /\ Others(t) /\ call' \in [Callers -> CallType] /\ call'[t].at = "transcode"
    BY <1>8, WorkKinds
  <2>2. StoreInv'
    BY <1>1, <2>1, WorkStep
  <2>3. /\ At(t, "copy") /\ content' = [content EXCEPT ![Mine(t)] = Body(Mine(t))]
        /\ handle' = handle /\ load' = load /\ mixed' = mixed /\ size' = size
    BY <1>8 DEF Copied, history
  <2>4. Making(t) /\ ~At(t, "download") /\ ~At(t, "transcode")
    BY <2>3 DEF At, Making
  <2>5. PICK w \in Videos : w = Mine(t)
    BY <1>1, <2>4, StoreFacts
  <2>6. /\ content' \in [Videos -> Seq(Parts)] /\ content'[w] = Body(w)
        /\ \A v \in Videos : v # w => content'[v] = content[v]
    BY <1>1, <2>3, <2>5, BodyType DEF DownloadTypes
  <2>7. DownloadTypes'
    BY <1>1, <2>3, <2>6 DEF DownloadTypes
  <2>8. \A u \in Callers : u # t /\ Making(u) => Mine(u) # w
    BY <1>1, <2>4, <2>5, StoreFacts
  <2>9. ~At(t, "download")' /\ Mine(t)' = w
    BY <2>1, <2>5 DEF Works, At, Mine
  <2>10. content'[Mine(t)'] = Body(Mine(t))'
    BY <2>3, <2>6, <2>9 DEF Body
  <2> QED
    BY <2>1, <2>2, <2>3, <2>4, <2>6, <2>7, <2>8, <2>9, <2>10, OutsideStep
<1>9. CASE CopyFailed(t) \/ SizeThrows(t) \/ TranscodeFailed(t) \/ Saved(t) \/ SaveFailed(t)
  <2>1. Others(t) /\ StoreInv' /\ call'[t].at \in {"idle", "next", "report"}
    <3>1. /\ Others(t) /\ call' \in [Callers -> CallType] /\ \E how \in Fates : Quits(t, how)
      BY <1>9, QuitKinds
    <3> QED
      BY <1>1, <3>1, QuitStep DEF Quits
  <2>2. /\ content' = content \/ content' = [content EXCEPT ![Mine(t)] = Body(Mine(t))]
        /\ handle' = handle /\ load' = load /\ mixed' = mixed /\ size' = size
        /\ ~At(t, "download") /\ Making(t)
    BY <1>9 DEF CopyFailed, SizeThrows, TranscodeFailed, Saved, SaveFailed, downloads, files,
      At, Making
  <2>3. PICK w \in Videos : w = Mine(t)
    BY <1>1, <2>2, StoreFacts
  <2>4. /\ content' \in [Videos -> Seq(Parts)]
        /\ \A v \in Videos : v # w => content'[v] = content[v]
    BY <1>1, <2>2, <2>3, BodyType DEF DownloadTypes
  <2>5. DownloadTypes'
    BY <1>1, <2>2, <2>4 DEF DownloadTypes
  <2>6. \A u \in Callers : u # t /\ Making(u) => Mine(u) # w
    BY <1>1, <2>2, <2>3, StoreFacts
  <2>7. ~At(t, "download")' /\ ~At(t, "transcode")'
    BY <2>1 DEF At
  <2> QED
    BY <2>1, <2>2, <2>4, <2>5, <2>6, <2>7, OutsideStep
<1>10. CASE StartDirectory(t) \/ SourceMissing(t) \/ DirectoryThrows(t) \/ DirectoryEnds(t)
             \/ DirectoryReturns(t)
  <2>1. Idles(t) /\ Others(t) /\ call' \in [Callers -> CallType] /\ UNCHANGED downloads
    BY <1>10, IdleKinds
  <2>2. StoreInv'
    BY <1>1, <2>1, IdleStep
  <2>3. UNCHANGED <<handle, load, size, raws, content>> /\ mixed' = mixed
    BY <2>1 DEF downloads, files, Idles
  <2>4. DownloadTypes'
    BY <1>1, <2>3 DEF DownloadTypes
  <2>5. ~At(t, "download") /\ ~At(t, "transcode") /\ ~At(t, "download")' /\ ~At(t, "transcode")'
    BY <2>1 DEF Idles, Making, At
  <2> QED
    BY <1>w, <2>1, <2>2, <2>3, <2>4, <2>5, OutsideStep
<1>11. CASE CreateOutput(t)
  <2>1. Works(t) /\ call' = call
    BY <1>11, WorkKinds
  <2>2. Others(t) /\ StoreInv'
    <3>1. Others(t) /\ call' \in [Callers -> CallType]
      BY <1>1, <2>1 DEF Others, LibraryTypes
    <3> QED
      BY <1>1, <2>1, <3>1, WorkStep
  <2>3. UNCHANGED <<handle, load, size, raws, content>> /\ mixed' = mixed /\ At(t, "transcode")
    BY <1>11 DEF CreateOutput, downloads, files, history
  <2>4. DownloadTypes'
    BY <1>1, <2>3 DEF DownloadTypes
  <2>5. ~At(t, "download") /\ ~At(t, "download")' /\ Mine(t)' = Mine(t)
    BY <2>1, <2>3 DEF At, Mine
  <2> QED
    BY <1>w, <2>2, <2>3, <2>4, <2>5, OutsideStep
<1>12. CASE Transcoded(t)
  <2>1. Works(t) /\ Others(t) /\ call' \in [Callers -> CallType] /\ call'[t].at = "save"
    BY <1>12, WorkKinds
  <2>2. StoreInv'
    BY <1>1, <2>1, WorkStep
  <2>3. UNCHANGED <<handle, load, size, raws, content>> /\ mixed' = mixed /\ At(t, "transcode")
    BY <1>12 DEF Transcoded, downloads, files, history
  <2>4. DownloadTypes'
    BY <1>1, <2>3 DEF DownloadTypes
  <2>5. ~At(t, "download") /\ ~At(t, "download")' /\ ~At(t, "transcode")'
    BY <2>1, <2>3 DEF At
  <2> QED
    BY <1>w, <2>1, <2>2, <2>3, <2>4, <2>5, OutsideStep
<1>13. CASE Delete(t)
  <2>1. Removes(t) /\ Others(t) /\ call' \in [Callers -> CallType] /\ UNCHANGED downloads
    BY <1>13, RemoveKinds
  <2>2. StoreInv'
    BY <1>1, <2>1, RemoveStep
  <2>3. UNCHANGED <<handle, load, size, raws, content>> /\ mixed' = mixed
    BY <2>1 DEF downloads, files, Removes
  <2>4. DownloadTypes'
    BY <1>1, <2>3 DEF DownloadTypes
  <2>5. ~At(t, "download") /\ ~At(t, "transcode") /\ ~At(t, "download")' /\ ~At(t, "transcode")'
    BY <2>1 DEF Removes, Making, At
  <2> QED
    BY <1>w, <2>1, <2>2, <2>3, <2>4, <2>5, OutsideStep
<1>14. CASE Look(t)
  BY <1>14, NothingStored DEF Look, history
<1> QED
  BY <1>2, <1>3, <1>4, <1>5, <1>6, <1>7, <1>8, <1>9, <1>10, <1>11, <1>12, <1>13, <1>14
     DEF Upload, Import, Store
LEMMA CrashEnds ==
  ASSUME IndInv, Crash
  PROVE  StoreInv' /\ LoadInv' /\ SourceIsWhole' /\ DownloadTypes'
<1>1. /\ handle' = NewHandle /\ load' = [t \in Callers |-> NoLoad]
      /\ call' = [t \in Callers |-> NoCall] /\ UNCHANGED <<size, content>>
  BY DEF Crash, files
<1>2. StoreInv'
  BY CrashStep DEF IndInv
<1>3. \A t \in Callers : call'[t].at = "idle" /\ load'[t].at = "idle"
  BY <1>1 DEF NoCall, NoLoad
<1>4. DownloadTypes'
  <2>1. NoLoad \in LoadType /\ NewHandle \in HandleType
    BY CallTypes DEF NoLoad, LoadType, LoadPlaces, NewHandle, HandleType
  <2> HIDE DEF NoLoad, NewHandle
  <2> QED
    BY <1>1, <2>1, Parted DEF DownloadTypes
<1>5. LoadInv'
  BY <1>3 DEF LoadInv, InDownload, Solo, Own, Configured, Downloading, At
<1>6. SourceIsWhole'
  BY <1>3 DEF SourceIsWhole, At
<1> QED
  BY <1>2, <1>4, <1>5, <1>6

(* The inductive invariant holds throughout.                                *)
THEOREM Invariance == Spec => []IndInv
<1>1. Init => IndInv
  BY Initially
<1>2. IndInv /\ [Next]_vars => IndInv'
  <2> SUFFICES ASSUME IndInv, [Next]_vars PROVE IndInv'
    OBVIOUS
  <2>1. StoreInv' /\ LoadInv' /\ SourceIsWhole' /\ DownloadTypes'
    <3>1. CASE \E t \in Callers : Upload(t) \/ Import(t) \/ Store(t) \/ Delete(t) \/ Look(t)
      BY <3>1, CallerStep
    <3>2. CASE Crash
      BY <3>2, CrashEnds
    <3>3. CASE UNCHANGED vars
      BY <3>3, NothingStored DEF vars, state, database, history
    <3> QED
      BY <3>1, <3>2, <3>3 DEF Next
  <2>2. hasId' = hasId /\ garbled' \in BOOLEAN /\ crashes' \in 0..MaxCrashes
    <3>1. hasId \in BOOLEAN /\ garbled \in BOOLEAN /\ crashes \in 0..MaxCrashes
      BY Parted
    <3>2. CASE Crash
      <4>1. hasId' = hasId /\ garbled' = FALSE /\ crashes < MaxCrashes /\ crashes' = crashes + 1
        BY <3>2 DEF Crash
      <4>2. crashes' \in 0..MaxCrashes
        BY <3>1, <4>1, LibraryAssumption
      <4> QED
        BY <4>1, <4>2, Zenon
    <3>3. CASE ~Crash
      <4>1. /\ hasId' = hasId /\ crashes' = crashes
            /\ garbled' = garbled \/ garbled' = TRUE \/ \E t \in Callers : Query(t)
        BY <3>3 DEF Next, vars, state, database, Look, Found, NotFound, Upload, Import, Store,
          Delete, StartUpload, UploadRefused, Downloaded, DownloadFailed, StartCopy, Copied,
          CopyFailed, SizeThrows, StartDirectory, SourceMissing, DirectoryThrows, DirectoryEnds,
          DirectoryReturns, CreateOutput, Transcoded, TranscodeFailed, Saved, SaveFailed,
          StartDelete, Unlink, UnlinkThrows, Erase
      <4>2. ASSUME NEW t \in Callers, Query(t) PROVE garbled' \in BOOLEAN
        BY <4>2, Zenon DEF Query
      <4> QED
        BY <3>1, <4>1, <4>2, Zenon
    <3> QED
      BY <3>2, <3>3
  <2>3. LibraryTypes' /\ hasId' \in BOOLEAN /\ garbled' \in BOOLEAN
    BY <2>1, <2>2, Parted DEF StoreInv
  <2>4. (LibraryTypes /\ DownloadTypes /\ hasId \in BOOLEAN /\ garbled \in BOOLEAN
           /\ crashes \in 0..MaxCrashes
           /\ StoreInv /\ SourceIsWhole /\ LoadInv => IndInv)'
    BY Parted, PTL
  <2> QED
    BY <2>1, <2>2, <2>3, <2>4
<1> QED
  BY <1>1, <1>2, PTL DEF Spec

(* What a caller's download and its video are at each step of the call:     *)
(* the transfer of a caller nobody overlaps is from its options to its file *)
(* its own, and no two calls work on one video.                             *)
THEOREM LibraryCorrect == Spec => []LibraryInv
<1>1. IndInv => LibraryInv
  <2> SUFFICES ASSUME IndInv PROVE LibraryInv
    OBVIOUS
  <2> SUFFICES ASSUME NEW t \in Callers PROVE OwnTransfer(t) /\ Loading(t) /\ InMaking(t)
    BY DEF LibraryInv, IndInv, StoreInv
  <2>1. TypeOK /\ StoreInv /\ InDownload(t) /\ Own(t) /\ SourceIsWhole /\ Unused
    BY DEF IndInv, StoreInv
  <2>2. OwnTransfer(t)
    BY <2>1 DEF OwnTransfer, Own
  <2>3. Loading(t)
    <3>1. ASSUME load[t].at = "ended", load[t].alone
          PROVE  IsWhole(Mine(t)) /\ size[Mine(t)] <= 1
      <4>1. load[t].video = Mine(t) /\ Making(t)
        BY <3>1, LoadFacts
      <4>2. Mine(t) \in raws
        BY <2>1, <4>1, StoreFacts
      <4> QED
        BY <2>1, <3>1, <4>1, <4>2 DEF Own, IsWhole
    <3> QED
      BY <2>1, <3>1 DEF Loading, InDownload
  <2>4. InMaking(t)
    <3> SUFFICES ASSUME Making(t) PROVE InMaking(t)
      BY DEF InMaking
    <3>1. /\ Mine(t) \in 1..issued /\ fate[Mine(t)] = "none" /\ Mine(t) \in raws
          /\ Mine(t) \notin rows \cup removed \cup promised /\ Stage(t)
          /\ \A c \in Callers \ {t} : Making(c) => Mine(c) # Mine(t)
      BY <2>1, StoreFacts
    <3>2. At(t, "transcode") /\ Mine(t) \notin mixed => IsWhole(Mine(t))
      BY <2>1 DEF SourceIsWhole
    <3>3. video[Mine(t)] \in CASE At(t, "transcode") -> {"none", "partial"}
                               [] At(t, "save") -> {"cut", "short", "whole"}
                               [] OTHER -> {"none"}
      BY <3>1 DEF Stage, At, Making
    <3> QED
      BY <3>1, <3>2, <3>3 DEF InMaking
  <2> QED
    BY <2>1, <2>2, <2>3, <2>4
<1> QED
  BY <1>1, Invariance, PTL

(* A row is of a video whose file is there with its trailer, and made from  *)
(* all of its source as far as the transcoder told, unless downloads        *)
(* overlapped, or a delete removed the file and not the row: one of that    *)
(* table's own videos, or one a garbled connection gave it.                 *)
THEOREM RowsHaveVideos == Spec => []RowHasVideo
<1>1. IndInv => RowHasVideo
  BY DEF IndInv, StoreInv
<1> QED
  BY <1>1, Invariance, PTL

(* What a caller was told is stored is in the table until it is deleted,    *)
(* unless it was saved or asked for over a garbled connection.              *)
THEOREM SuccessesStored == Spec => []SuccessIsStored
<1>1. IndInv => SuccessIsStored
  BY DEF IndInv, StoreInv
<1> QED
  BY <1>1, Invariance, PTL

(* Files without a row are those of calls that failed at that step, and of  *)
(* videos saved or asked for over a garbled connection.                     *)
THEOREM Leftovers == Spec => []LeftoversKnown
<1>1. IndInv => LeftoversKnown
  BY DEF IndInv, StoreInv
<1> QED
  BY <1>1, Invariance, PTL
=============================================================================
