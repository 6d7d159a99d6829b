---------------------------- MODULE VideoLibrary ----------------------------
(***************************************************************************)
(* VideoService and MysqlVideoRepository (video_service/application/       *)
(* video_service.cpp, infrastructure/mysql_video_repository.cpp) over the  *)
(* Downloader: a video is a raw file, a transcoded file and a row, made    *)
(* one after the other by an upload or an import and removed one after the *)
(* other by a delete.  Every step may fail, the process may die between    *)
(* any two of them, and nothing is ever undone but where the code does so. *)
(*                                                                         *)
(* A video stands for its UUID, which no two calls share.  The transcoder  *)
(* is what module Transcoding shows of it: a failure may leave a partial   *)
(* file, a success is a file with its trailer, but it may have stopped     *)
(* short of the end of the raw file.                                       *)
(*                                                                         *)
(* All callers query the database over one MYSQL handle, without a lock.   *)
(* Once two queries have overlapped on it, and as long as the process      *)
(* lives, a call may read an answer that is not its own: it is told        *)
(* success or failure whatever became of its statement, and may fetch      *)
(* another caller's row.  Each statement is executed as it was sent, before *)
(* its call is over, or never: no step needs the absence of a row, so one   *)
(* executed later makes no other behaviour.                                 *)
(***************************************************************************)
EXTENDS Downloader

CONSTANTS
  IdColumn,     (* whether the table has a column "id": the one of           *)
                (* mysql_setup/setup.sql has not                             *)
  MaxCrashes    (* bound on the crashes                                      *)

ASSUME LibraryAssumption ==
  /\ IdColumn \subseteq BOOLEAN /\ IdColumn # {}
  /\ MaxCrashes \in Nat

VARIABLES
  hasId,      (* whether this table has that column                          *)
  issued,     (* UUIDs generated                                             *)
  call,       (* each caller: its operation, where it is, its video, for a   *)
              (* delete the video whose row it was given, and for a          *)
              (* directory whether any file failed and what was imported     *)
  video,      (* the transcoded file: "none", "partial", "whole", "short" if *)
              (* the transcoder stopped early, or "cut", made from a raw     *)
              (* file that was not whole                                     *)
  rows,       (* videos in the table                                         *)
  garbled,    (* whether queries have overlapped on conn_                    *)
  fate,       (* history: how the call that made a video ended               *)
  mixed,      (* history: videos whose download succeeded, but not alone     *)
  promised,   (* history: videos a caller was told are stored                *)
  removed,    (* history: videos whose file a delete got as far as           *)
  unsure,     (* history: videos saved, asked for or found over a garbled    *)
              (* connection                                                  *)
  crashes

database == <<rows, garbled>>
state == <<hasId, issued, call, video, database, crashes>>
history == <<fate, mixed, promised, removed, unsure>>
vars == <<downloads, state, history>>

Operations == {"upload", "import", "directory", "delete"}
NoCall == [op |-> "none", at |-> "idle", video |-> 1, found |-> 1, failed |-> FALSE,
           imported |-> {}]

At(t, place) == call[t].at = place
Step(t, place) == call' = [call EXCEPT ![t].at = place]
Mine(t) == call[t].video
Making(t) == call[t].at \in {"download", "copy", "transcode", "save"}

-----------------------------------------------------------------------------
(* The database.  A query lasts from the step that brings its caller to it  *)
(* to the answer.                                                           *)

Querying(t) == call[t].at \in {"save", "find", "erase"}
Query(t) == garbled' = (garbled \/ \E c \in Callers \ {t} : Querying(c))
Doubt(videos) == unsure' = IF garbled THEN unsure \cup videos ELSE unsure

(* The rows are deleted by the column "id", so without it none is.          *)
WithRow(v) == rows \cup {v}
WithoutRow(v) == IF hasId THEN rows \ {v} ELSE rows

-----------------------------------------------------------------------------
(* Returning.  A failed import of a directory goes on with the next file;   *)
(* an exception ends it.                                                    *)

Ends(t, how) ==
  /\ fate' = [fate EXCEPT ![Mine(t)] = how]
  /\ IF call[t].op = "directory"
     THEN /\ call' = [call EXCEPT
                ![t].at = IF how = "thrown" THEN "report" ELSE "next",
                ![t].failed = @ \/ how # "stored",
                ![t].imported = IF how = "stored" THEN @ \cup {Mine(t)} ELSE @]
          /\ UNCHANGED promised
     ELSE /\ call' = [call EXCEPT ![t] = NoCall]
          /\ promised' = IF how = "stored" THEN promised \cup {Mine(t)} ELSE promised

-----------------------------------------------------------------------------
(* uploadVideo                                                              *)

StartUpload(t) ==
  /\ At(t, "idle")
  /\ issued < MaxVideos
  /\ issued' = issued + 1
  /\ call' = [call EXCEPT ![t] = [NoCall EXCEPT !.op = "upload", !.at = "download",
                                                !.video = issued + 1]]
  /\ \E token \in BOOLEAN : BeginDownload(t, issued + 1, token)
  /\ UNCHANGED <<hasId, video, database, crashes, history>>

(* The output file cannot be opened.                                        *)
UploadRefused(t) ==
  /\ At(t, "idle")
  /\ issued < MaxVideos
  /\ issued' = issued + 1
  /\ fate' = [fate EXCEPT ![issued + 1] = "unopened"]
  /\ UNCHANGED <<downloads, hasId, call, video, database, crashes, mixed, promised,
                 removed, unsure>>

Downloaded(t) ==
  /\ At(t, "download")
  /\ DownloadReturns(t, "ended")
  /\ mixed' = IF load[t].alone THEN mixed ELSE mixed \cup {Mine(t)}
  /\ Step(t, "transcode")
  /\ UNCHANGED <<hasId, issued, video, database, crashes, fate, promised, removed, unsure>>

DownloadFailed(t) ==
  /\ At(t, "download")
  /\ DownloadReturns(t, "failed")
  /\ Ends(t, "download")
  /\ UNCHANGED <<hasId, issued, video, database, crashes, mixed, removed, unsure>>

-----------------------------------------------------------------------------
(* importLocalVideo and importLocalVideos                                   *)

(* A directory holds any number of video files.                             *)
StartDirectory(t) ==
  /\ At(t, "idle")
  /\ call' = [call EXCEPT ![t] = [NoCall EXCEPT !.op = "directory", !.at = "next"]]
  /\ UNCHANGED <<downloads, hasId, issued, video, database, crashes, history>>

(* The copy creates the file before it is filled.                           *)
StartCopy(t) ==
  /\ issued < MaxVideos
  /\ issued' = issued + 1
  /\ \/ /\ At(t, "idle")
        /\ call' = [call EXCEPT ![t] = [NoCall EXCEPT !.op = "import", !.at = "copy",
                                                      !.video = issued + 1]]
     \/ /\ At(t, "next")
        /\ call' = [call EXCEPT ![t].at = "copy", ![t].video = issued + 1]
  /\ raws' = raws \cup {issued + 1}
  /\ size' = [size EXCEPT ![issued + 1] = MaxChunks]
  /\ content' = [content EXCEPT ![issued + 1] = <<>>]
  /\ UNCHANGED <<handle, load, hasId, video, database, crashes, history>>

Copied(t) ==
  /\ At(t, "copy")
  /\ content' = [content EXCEPT ![Mine(t)] = Body(Mine(t))]
  /\ Step(t, "transcode")
  /\ UNCHANGED <<handle, load, size, raws, hasId, issued, video, database, crashes, history>>

CopyFailed(t) ==
  /\ At(t, "copy")
  /\ raws' \in {raws, raws \ {Mine(t)}}
  /\ Ends(t, "copy")
  /\ UNCHANGED <<handle, load, size, content, hasId, issued, video, database, crashes,
                 mixed, removed, unsure>>

(* The size of a source that has gone meanwhile.                            *)
SizeThrows(t) ==
  /\ At(t, "copy")
  /\ content' = [content EXCEPT ![Mine(t)] = Body(Mine(t))]
  /\ Ends(t, "thrown")
  /\ UNCHANGED <<handle, load, size, raws, hasId, issued, video, database, crashes,
                 mixed, removed, unsure>>

(* The source does not exist, so nothing happens; in a directory that is an *)
(* error like any other.                                                    *)
SourceMissing(t) ==
  /\ At(t, "next")
  /\ call' = [call EXCEPT ![t].failed = TRUE]
  /\ UNCHANGED <<downloads, hasId, issued, video, database, crashes, history>>

(* Reading the directory throws.                                            *)
DirectoryThrows(t) ==
  /\ At(t, "next")
  /\ call' = [call EXCEPT ![t].at = "report", ![t].failed = TRUE]
  /\ UNCHANGED <<downloads, hasId, issued, video, database, crashes, history>>

DirectoryEnds(t) ==
  /\ At(t, "next")
  /\ Step(t, "report")
  /\ UNCHANGED <<downloads, hasId, issued, video, database, crashes, history>>

Told(t) == IF call[t].failed THEN {} ELSE call[t].imported

DirectoryReturns(t) ==
  /\ At(t, "report")
  /\ promised' = promised \cup Told(t)
  /\ call' = [call EXCEPT ![t] = NoCall]
  /\ UNCHANGED <<downloads, hasId, issued, video, database, crashes, fate, mixed,
                 removed, unsure>>

-----------------------------------------------------------------------------
(* Transcoding and the row, for uploads and imports                         *)

CreateOutput(t) ==
  /\ At(t, "transcode") /\ video[Mine(t)] = "none"
  /\ video' = [video EXCEPT ![Mine(t)] = "partial"]
  /\ UNCHANGED <<downloads, hasId, issued, call, database, crashes, history>>

(* A read error is taken for the end of the input, and what the decoder     *)
(* keeps back is lost.  The save follows at once.                           *)
Transcoded(t) ==
  /\ At(t, "transcode") /\ video[Mine(t)] = "partial"
  /\ \E end \in {"whole", "short"} :
       video' = [video EXCEPT ![Mine(t)] = IF IsWhole(Mine(t)) THEN end ELSE "cut"]
  /\ Query(t)
  /\ Step(t, "save")
  /\ UNCHANGED <<downloads, hasId, issued, rows, crashes, history>>

(* Mutant of TranscodeFailed: the result of transcoding is ignored.         *)
SavesAnyway(t) ==
  /\ At(t, "transcode")
  /\ Query(t)
  /\ Step(t, "save")
  /\ UNCHANGED <<downloads, hasId, issued, video, rows, crashes, history>>

(* Mutant of TranscodeFailed: the raw file is not removed.                  *)
RemovesNothing(t) ==
  /\ At(t, "transcode")
  /\ Ends(t, "cleaned")
  /\ UNCHANGED <<downloads, hasId, issued, video, database, crashes, mixed, removed, unsure>>

(* An import removes its raw file; an upload leaves it.                     *)
TranscodeFailed(t) ==
  /\ At(t, "transcode")
  /\ IF call[t].op = "upload"
     THEN UNCHANGED raws /\ Ends(t, "transcode")
     ELSE \/ raws' = raws \ {Mine(t)} /\ Ends(t, "cleaned")
          \/ UNCHANGED raws /\ Ends(t, "thrown")
  /\ UNCHANGED <<handle, load, size, content, hasId, issued, video, database, crashes,
                 mixed, removed, unsure>>

(* mysql_query returns 0: the server has executed the statement, or the     *)
(* answer was another's.                                                    *)
Saved(t) ==
  /\ At(t, "save")
  /\ rows' = WithRow(Mine(t)) \/ (garbled /\ UNCHANGED rows)
  /\ Doubt({Mine(t)})
  /\ Ends(t, "stored")
  /\ UNCHANGED <<downloads, hasId, issued, video, garbled, crashes, mixed, removed>>

(* Mutant of SaveFailed: the result of saving is ignored.                   *)
SaveUnchecked(t) ==
  /\ At(t, "save")
  /\ rows' \in {rows, WithRow(Mine(t))}
  /\ Doubt({Mine(t)})
  /\ Ends(t, "stored")
  /\ UNCHANGED <<downloads, hasId, issued, video, garbled, crashes, mixed, removed>>

(* Refused (a server in strict mode always refuses the creation time '' for *)
(* a DATETIME), or the answer was lost, or another's.                       *)
SaveFailed(t) ==
  /\ At(t, "save")
  /\ rows' \in {rows, WithRow(Mine(t))}
  /\ Doubt({Mine(t)})
  /\ Ends(t, "save")
  /\ UNCHANGED <<downloads, hasId, issued, video, garbled, crashes, mixed, removed>>

-----------------------------------------------------------------------------
(* deleteVideo                                                              *)

(* An id is known from the answer of a call that succeeded or from a list.  *)
Known == {v \in Videos : v \in rows \cup removed \/ fate[v] = "stored"}

StartDelete(t) ==
  /\ At(t, "idle")
  /\ \E v \in Known :
       call' = [call EXCEPT ![t] = [NoCall EXCEPT !.op = "delete", !.at = "find", !.video = v]]
  /\ Query(t)
  /\ UNCHANGED <<downloads, hasId, issued, video, rows, crashes, history>>

(* findById selects on the column "id"; without it, it finds nothing.  Over *)
(* a garbled connection it may be given any row, listVideos's or another    *)
(* findById's, and one that has gone since.                                 *)
Answers(t) ==
  IF garbled THEN rows \cup removed \cup unsure
  ELSE IF hasId THEN rows \cap {Mine(t)} ELSE {}

Found(t) ==
  /\ At(t, "find")
  /\ \E v \in Answers(t) :
       /\ call' = [call EXCEPT ![t].at = "unlink", ![t].found = v]
       /\ Doubt({v, Mine(t)})
  /\ UNCHANGED <<downloads, hasId, issued, video, database, crashes,
                 fate, mixed, promised, removed>>

(* No such row, no result set, or an error.                                 *)
NotFound(t) ==
  /\ At(t, "find")
  /\ call' = [call EXCEPT ![t] = NoCall]
  /\ UNCHANGED <<downloads, hasId, issued, video, database, crashes, history>>

(* The file is the found video's, the row the asked one's; the statement    *)
(* follows at once.  A file that is not there is no error.                  *)
Unlink(t) ==
  /\ At(t, "unlink")
  /\ video' = [video EXCEPT ![call[t].found] = "none"]
  /\ removed' = removed \cup {call[t].found}
  /\ Query(t)
  /\ Step(t, "erase")
  /\ UNCHANGED <<downloads, hasId, issued, rows, crashes, fate, mixed, promised, unsure>>

UnlinkThrows(t) ==
  /\ At(t, "unlink")
  /\ call' = [call EXCEPT ![t] = NoCall]
  /\ UNCHANGED <<downloads, hasId, issued, video, database, crashes, history>>

Erase(t) ==
  /\ At(t, "erase")
  /\ rows' \in {rows, WithoutRow(Mine(t))}
  /\ Doubt({Mine(t)})
  /\ call' = [call EXCEPT ![t] = NoCall]
  /\ UNCHANGED <<downloads, hasId, issued, video, garbled, crashes, fate, mixed, promised, removed>>

-----------------------------------------------------------------------------
(* getVideoInfo, listVideos, downloadVideo, startStreaming: each is one     *)
(* query that changes nothing, so it matters only if another is going on.   *)
Look(t) ==
  /\ At(t, "idle")
  /\ \E c \in Callers \ {t} : Querying(c)
  /\ garbled' = TRUE
  /\ UNCHANGED <<downloads, hasId, issued, call, video, rows, crashes, history>>

-----------------------------------------------------------------------------
(* The process dies: files and rows are what they are, what was being said  *)
(* to the database is executed or not, and the connection is made anew.      *)
VideosAt(place) == {Mine(t) : t \in {c \in Callers : At(c, place)}}

Crash ==
  /\ crashes < MaxCrashes
  /\ crashes' = crashes + 1
  /\ handle' = NewHandle
  /\ load' = [t \in Callers |-> NoLoad]
  /\ call' = [t \in Callers |-> NoCall]
  /\ garbled' = FALSE
  /\ \E S \in SUBSET VideosAt("save"), E \in SUBSET VideosAt("erase") :
       rows' = (rows \cup S) \ (IF hasId THEN E ELSE {})
  /\ fate' = [v \in Videos |-> IF \E t \in Callers : Making(t) /\ Mine(t) = v
                               THEN "crash" ELSE fate[v]]
  /\ UNCHANGED <<size, files, hasId, issued, video, mixed, promised, removed, unsure>>

Init ==
  /\ NoDownloads
  /\ hasId \in IdColumn
  /\ issued = 0
  /\ call = [t \in Callers |-> NoCall]
  /\ video = [v \in Videos |-> "none"]
  /\ rows = {} /\ garbled = FALSE
  /\ fate = [v \in Videos |-> "none"]
  /\ mixed = {} /\ promised = {} /\ removed = {} /\ unsure = {}
  /\ crashes = 0

Upload(t) ==
  \/ StartUpload(t) \/ UploadRefused(t)
  \/ Download(t) /\ UNCHANGED <<state, history>>
  \/ Downloaded(t) \/ DownloadFailed(t)

Import(t) ==
  \/ StartCopy(t) \/ Copied(t) \/ CopyFailed(t) \/ SizeThrows(t)
  \/ StartDirectory(t) \/ SourceMissing(t) \/ DirectoryThrows(t) \/ DirectoryEnds(t)
  \/ DirectoryReturns(t)

Store(t) == CreateOutput(t) \/ Transcoded(t) \/ TranscodeFailed(t) \/ Saved(t) \/ SaveFailed(t)

Delete(t) ==
  StartDelete(t) \/ Found(t) \/ NotFound(t) \/ Unlink(t) \/ UnlinkThrows(t) \/ Erase(t)

Next ==
  \/ \E t \in Callers : Upload(t) \/ Import(t) \/ Store(t) \/ Delete(t) \/ Look(t)
  \/ Crash

Spec == Init /\ [][Next]_vars
-----------------------------------------------------------------------------
(* Properties                                                               *)

Fates == {"none", "unopened", "download", "copy", "transcode", "cleaned", "thrown",
          "save", "stored", "crash"}

TypeOK ==
  /\ handle \in [out : Callers \cup {Nobody}, url : 1..(MaxVideos + 1),
                 headers : {"none", "live", "freed"}, performing : Callers \cup {Nobody}]
  /\ load \in [Callers ->
       [at : {"idle", "opened", "configured", "transfer", "ended", "failed"},
        video : 1..(MaxVideos + 1), token : BOOLEAN, fetches : 1..(MaxVideos + 1),
        got : Nat, alone : BOOLEAN]]
  /\ size \in [Videos -> 0..MaxChunks]
  /\ raws \subseteq Videos
  /\ content \in [Videos -> Seq([of : Nat, part : Nat])]
  /\ hasId \in BOOLEAN
  /\ issued \in 0..MaxVideos
  /\ call \in [Callers ->
       [op : Operations \cup {"none"},
        at : {"idle", "download", "copy", "transcode", "save", "next", "report",
              "find", "unlink", "erase"},
        video : 1..(MaxVideos + 1), found : 1..(MaxVideos + 1), failed : BOOLEAN,
        imported : SUBSET Videos]]
  /\ video \in [Videos -> {"none", "partial", "cut", "short", "whole"}]
  /\ rows \subseteq Videos /\ garbled \in BOOLEAN
  /\ fate \in [Videos -> Fates]
  /\ mixed \subseteq Videos /\ promised \subseteq Videos /\ removed \subseteq Videos
  /\ unsure \subseteq Videos
  /\ crashes \in 0..MaxCrashes

(* A transfer whose caller has been alone writes to its own file, fetches   *)
(* its own URL, and uses a freed header list only if it was given no token. *)
OwnTransfer(t) ==
  load[t].at = "transfer" /\ load[t].alone =>
    /\ handle.out = t /\ load[t].fetches = load[t].video /\ handle.performing = t
    /\ load[t].token => handle.headers = "live"
    /\ content[load[t].video] = [i \in 1..load[t].got |-> [of |-> load[t].video, part |-> i]]

(* Each video is made by one call, and what exists of it is what that call  *)
(* has got to.                                                              *)
InMaking(t) ==
  Making(t) =>
    /\ Mine(t) \in 1..issued
    /\ fate[Mine(t)] = "none"
    /\ Mine(t) \notin rows \cup removed \cup promised
    /\ \A c \in Callers \ {t} : Making(c) => Mine(c) # Mine(t)
    /\ At(t, "transcode") \/ At(t, "save") => Mine(t) \in raws
    /\ At(t, "transcode") /\ Mine(t) \notin mixed => IsWhole(Mine(t))
    /\ video[Mine(t)] \in CASE At(t, "transcode") -> {"none", "partial"}
                           [] At(t, "save") -> {"cut", "short", "whole"}
                           [] OTHER -> {"none"}

Unused ==
  \A v \in Videos : v > issued =>
    fate[v] = "none" /\ video[v] = "none" /\ v \notin raws \cup rows

(* A caller is in download() exactly while its upload is at that step; a    *)
(* download that was alone brings the whole body or fails, and fails for    *)
(* any body of more than one chunk.                                         *)
Loading(t) ==
  /\ load[t].at # "idle" <=> At(t, "download")
  /\ At(t, "download") => load[t].video = Mine(t) /\ call[t].op = "upload"
  /\ load[t].at = "ended" /\ load[t].alone => IsWhole(Mine(t)) /\ size[Mine(t)] <= 1

(* What the calls in progress own: a transfer that is not overlapped by     *)
(* another is its caller's own from options to file, and no two calls work  *)
(* on one video (downloader.cpp:18-64, video_service.cpp:24-61, 113-170).   *)
LibraryInv ==
  /\ TypeOK
  /\ Unused
  /\ \A t \in Callers : OwnTransfer(t) /\ Loading(t) /\ InMaking(t)

(* A row is of a video whose file is there with its trailer, made from all  *)
(* of its source as far as the transcoder told, unless downloads            *)
(* overlapped, or a delete removed the file and then not the row.  With the *)
(* table of setup.sql, where no video is ever found, that takes a query     *)
(* over a connection on which queries overlapped, and the video it was      *)
(* given (video_service.cpp:24-61, 100-111,                                 *)
(* mysql_video_repository.cpp:54-72, 122-128).                              *)
RowHasVideo ==
  \A v \in rows :
    \/ video[v] \in {"short", "whole"}
    \/ video[v] = "cut" /\ v \in mixed
    \/ v \in removed /\ (hasId \/ v \in unsure)

(* What a caller was told is stored, alone or with its whole directory, is  *)
(* in the table until it is deleted; overlapping queries can falsify that   *)
(* only for the videos they are about, never for one stored before or after *)
(* (video_service.cpp:60, 169, 172-217, mysql_video_repository.cpp:54).     *)
SuccessIsStored == promised \subseteq rows \cup removed \cup unsure

(* What lies in the storage without a row and without a call at work on it  *)
(* is from a call that failed at that step or later, or of a video that an  *)
(* overlapped query was about; only a failed import cleans up, and the raw  *)
(* file of a stored video stays for good (video_service.cpp:35-50,          *)
(* 133-157, mysql_video_repository.cpp:54-72).                              *)
LeftoversKnown ==
  \A v \in Videos :
    /\ fate[v] \in {"unopened", "cleaned"} => v \notin raws
    /\ fate[v] = "stored" => v \in raws
    /\ v \notin rows /\ fate[v] # "none" =>
         /\ video[v] = "partial" => fate[v] \in {"transcode", "cleaned", "thrown", "crash"}
         /\ video[v] \in {"cut", "short", "whole"} =>
              fate[v] \in {"save", "crash"} \/ v \in unsure
=============================================================================
