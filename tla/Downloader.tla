----------------------------- MODULE Downloader -----------------------------
(***************************************************************************)
(* Downloader::download (video_service/infrastructure/downloader.cpp): one *)
(* CURL handle for all callers, whose options a call sets just before it   *)
(* performs its transfer.  The output file is a stream on the caller's     *)
(* stack, and the handle is left with a pointer to it and to the header    *)
(* list when the call returns.                                             *)
(*                                                                         *)
(* libcurl is external.  It delivers a body in chunks to the write         *)
(* callback, takes any return value but the chunk's size for an error,     *)
(* refuses to perform on a handle that is performing, and knows a body     *)
(* that ends early from one that is complete.  A body is its chunks, each  *)
(* named by whose URL it is from and its position.                         *)
(***************************************************************************)
EXTENDS Naturals, Sequences

CONSTANTS
  Callers,      (* threads that upload                                       *)
  MaxVideos,    (* bound on the videos there ever are                        *)
  MaxChunks,    (* bound on the chunks of a body                             *)
  Nobody        (* no caller                                                 *)

ASSUME DownloaderAssumption ==
  /\ MaxVideos \in Nat
  /\ MaxChunks \in Nat
  /\ Nobody \notin Callers

VARIABLES
  handle,     (* curl_: whose file WRITEDATA points to, whose URL is set, the *)
              (* header list, who performs                                   *)
  load,       (* each caller in download(): where it is, its video, whether  *)
              (* it has a token, whose body it fetches and how much it got,  *)
              (* whether it has been alone so far (history)                  *)
  size,       (* chunks in the body behind each video's URL                  *)
  raws,       (* videos that have a raw file                                 *)
  content     (* and what is in it                                           *)

files == <<raws, content>>
downloads == <<handle, load, size, files>>

Videos == 1..MaxVideos
Body(v) == [i \in 1..size[v] |-> [of |-> v, part |-> i]]
IsWhole(v) == v \in raws /\ content[v] = Body(v)

Downloading(t) == load[t].at \notin {"idle", "ended", "failed"}
NoLoad ==
  [at |-> "idle", video |-> 1, token |-> FALSE, fetches |-> 1, got |-> 0, alone |-> TRUE]
NewHandle == [out |-> Nobody, url |-> 1, headers |-> "none", performing |-> Nobody]

Go(t, place) == load' = [load EXCEPT ![t].at = place]

-----------------------------------------------------------------------------
(* The output file is opened, and emptied should it exist.                  *)
BeginDownload(t, v, token) ==
  /\ load[t].at = "idle"
  /\ LET others == {c \in Callers : c # t /\ Downloading(c)} IN
       load' = [c \in Callers |->
         IF c = t THEN [NoLoad EXCEPT !.at = "opened", !.video = v, !.token = token,
                                      !.alone = others = {}]
         ELSE [load[c] EXCEPT !.alone = @ /\ c \notin others]]
  /\ \E n \in 0..MaxChunks : size' = [size EXCEPT ![v] = n]
  /\ raws' = raws \cup {v}
  /\ content' = [content EXCEPT ![v] = <<>>]
  /\ UNCHANGED handle

(* Mutant of Configure: the file is set once for all downloads.             *)
FirstConfigures(t) ==
  /\ load[t].at = "opened"
  /\ handle' = [handle EXCEPT !.out = IF @ = Nobody THEN t ELSE @,
                              !.url = load[t].video,
                              !.headers = IF load[t].token THEN "live" ELSE @]
  /\ Go(t, "configured")
  /\ UNCHANGED <<size, files>>

(* The options.  Without a token the header list of an earlier call stays.  *)
Configure(t) ==
  /\ load[t].at = "opened"
  /\ handle' = [handle EXCEPT !.out = t, !.url = load[t].video,
                              !.headers = IF load[t].token THEN "live" ELSE @]
  /\ Go(t, "configured")
  /\ UNCHANGED <<size, files>>

(* curl_easy_perform returns: the list is freed, the option is kept.        *)
FreeHeaders(t) == IF load[t].token THEN "freed" ELSE handle.headers

Perform(t) ==
  /\ load[t].at = "configured"
  /\ handle.performing = Nobody
  /\ handle' = [handle EXCEPT !.performing = t]
  /\ load' = [load EXCEPT ![t].at = "transfer", ![t].fetches = handle.url]
  /\ UNCHANGED <<size, files>>

PerformRefused(t) ==
  /\ load[t].at = "configured"
  /\ handle.performing # Nobody
  /\ handle' = [handle EXCEPT !.headers = FreeHeaders(t)]
  /\ Go(t, "failed")
  /\ UNCHANGED <<size, files>>

EndTransfer(t, place) ==
  /\ handle' = [handle EXCEPT !.performing = Nobody, !.headers = FreeHeaders(t)]
  /\ Go(t, place)

(* writeCallback returns the position in the file, which is what was        *)
(* written only for the first chunk.                                        *)
Chunk(t) == [of |-> load[t].fetches, part |-> load[t].got + 1]
More(t) == load[t].at = "transfer" /\ load[t].got < size[load[t].fetches]
Target == load[handle.out].video

WriteReturns(position) == position

Write(t) ==
  /\ More(t) /\ Downloading(handle.out)
  /\ content' = [content EXCEPT ![Target] = Append(@, Chunk(t))]
  /\ IF WriteReturns(Len(content[Target]) + 1) = 1
     THEN load' = [load EXCEPT ![t].got = @ + 1] /\ UNCHANGED handle
     ELSE EndTransfer(t, "failed")
  /\ UNCHANGED <<size, raws>>

(* The stream belongs to a call that has returned: the chunk goes nowhere,  *)
(* if the process survives.                                                 *)
WriteToDeadStream(t) ==
  /\ More(t) /\ ~Downloading(handle.out)
  /\ \/ load' = [load EXCEPT ![t].got = @ + 1] /\ UNCHANGED handle
     \/ EndTransfer(t, "failed")
  /\ UNCHANGED <<size, files>>

(* The body is complete and the status is 200.                              *)
TransferEnds(t) ==
  /\ load[t].at = "transfer"
  /\ load[t].got = size[load[t].fetches]
  /\ EndTransfer(t, "ended")
  /\ UNCHANGED <<size, files>>

(* The connection fails, or the status is another.                          *)
TransferFails(t) ==
  /\ load[t].at = "transfer"
  /\ EndTransfer(t, "failed")
  /\ UNCHANGED <<size, files>>

Download(t) ==
  \/ Configure(t) \/ Perform(t) \/ PerformRefused(t)
  \/ Write(t) \/ WriteToDeadStream(t) \/ TransferEnds(t) \/ TransferFails(t)

(* The caller has its answer.                                               *)
DownloadReturns(t, place) ==
  /\ load[t].at = place
  /\ load' = [load EXCEPT ![t] = NoLoad]
  /\ UNCHANGED <<handle, size, files>>

NoDownloads ==
  /\ handle = NewHandle
  /\ load = [t \in Callers |-> NoLoad]
  /\ size = [v \in Videos |-> 0]
  /\ raws = {}
  /\ content = [v \in Videos |-> <<>>]
=============================================================================
