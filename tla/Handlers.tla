------------------------------- MODULE Handlers -------------------------------
(***************************************************************************)
(* One HTTP request from the middleware to its end: what the handler has   *)
(* opened, written to disk, deferred, saved, counted and answered on every *)
(* path, early returns and panics included.  Saving is the subject of      *)
(* UploadServer, running the processors of Processing; here they succeed   *)
(* or fail.                                                                *)
(***************************************************************************)
EXTENDS ThumbGeometry

CONSTANTS
  Users, NoUser,
  Times, Durations,   (* of grants; time 0 is the zero time                *)
  Now,                (* auth.now: SetTime is called by tests only, so it  *)
                      (* is 0 in the server                                *)
  Requested,          (* the lists of thumbnails in requests               *)
  Dimensions          (* of images                                         *)

ASSUME HandlersAssumption ==
  /\ NoUser \notin Users
  /\ Times \subseteq Nat /\ Durations \subseteq Int /\ Now \in Nat
  /\ Requested \subseteq Seq(Thumb)
  /\ Dimensions \subseteq Nat \X Nat

UserRoutes   == {"user/file", "user/url", "user/base64"}
UploadRoutes == {"file", "url", "base64"} \cup UserRoutes
Routes       == UploadRoutes \cup {"thumbnail", "ocr", "root"}

(* The extractor of a route; /user/.../file has that of base64.            *)
Extractor(r) ==
  CASE r = "file"               -> "file"
    [] r \in {"url", "user/url"} -> "url"
    [] OTHER                    -> "base64"

Grants == [present : BOOLEAN, signed : BOOLEAN, user : Users \cup {NoUser},
           time : Times, lasts : Durations]

VARIABLES
  route, path,   (* the URL, and the user in it                            *)
  grant,         (* the headers, as far as authentication looks at them    *)
  scheme,        (* the authenticator of the server                        *)
  at,            (* what the goroutine does next                           *)
  user,          (* whom the request is from                               *)
  body,          (* the reader of the uploaded file                        *)
  reader,        (* the reader from the store                              *)
  tmp,           (* whether the temporary file is on disk                  *)
  upload,        (* the UploadedFile: none yet, nil, or one of the file    *)
  thumbs, made,  (* the thumbnails, and the commands that made them        *)
  defers,        (* the deferred calls of the function that runs, a stack  *)
  stored,        (* how many objects have been saved                       *)
  resp,          (* the status of the response to be written               *)
  status,        (* the status the client sees; 0 for none                 *)
  panicked,
  stats          (* what RuntimeStats has counted                          *)

inputs == <<route, path, grant, scheme>>
files  == <<body, reader, tmp, upload>>
images == <<thumbs, made, stored>>
vars == <<inputs, at, user, files, images, defers, resp, status, panicked, stats>>

Held == {"none", "open", "closed"}

(* What http.ServeFile may answer with a thumbnail: all of it, a range, or *)
(* that the client has it; or, by its own judgement, that the file is      *)
(* gone, must not be read or cannot be, or that a condition or a range of  *)
(* the request is not met.                                                 *)
FileStatus == {200, 206, 304, 403, 404, 412, 416, 500}

TypeOK ==
  /\ route \in Routes /\ path \in Users \cup {NoUser}
  /\ grant \in Grants /\ scheme \in {"hmac", "passthrough"}
  /\ at \in {"auth", "extract", "parse", "get", "copy", "open", "process",
             "save", "thumbs", "metadata", "serve", "return", "out", "end"}
  /\ user \in Users \cup {NoUser}
  /\ body \in Held /\ reader \in Held /\ tmp \in BOOLEAN
  /\ upload \in {"none", "nil", "file"}
  /\ thumbs \in Requested \cup {<<>>}
  /\ defers \in Seq({"Close", "Remove", "Clean"})
  /\ stored \in Nat
  /\ resp \in {0, 200, 500} /\ status \in {0, 400, 401} \cup FileStatus
  /\ panicked \in BOOLEAN
  /\ stats \in [{"request", "upload", "thumb", "error", "time"} -> Nat]

Begin(r) ==
  CASE r \in UserRoutes                -> "auth"
    [] r \in UploadRoutes \ UserRoutes -> "extract"
    [] r = "thumbnail"                 -> "parse"
    [] r = "ocr"                       -> "get"
    [] r = "root"                      -> "serve"

(* A route has been found, which has a user or not, and the middleware has *)
(* counted the request.                                                    *)
Init ==
  /\ route \in Routes
  /\ path \in IF route \in UserRoutes THEN Users ELSE {NoUser}
  /\ grant \in IF route \in UserRoutes THEN Grants
               ELSE {g \in Grants : ~g.present /\ ~g.signed /\ g.user = NoUser}
  /\ scheme \in {"hmac", "passthrough"}
  /\ at = Begin(route)
  /\ user = NoUser
  /\ body = "none" /\ reader = "none" /\ tmp = FALSE /\ upload = "none"
  /\ thumbs = <<>> /\ made = <<>> /\ stored = 0
  /\ defers = <<>>
  /\ resp = 0 /\ status = 0 /\ panicked = FALSE
  /\ stats = [n \in {"request", "upload", "thumb", "error", "time"} |->
                IF n = "request" THEN 1 ELSE 0]

-----------------------------------------------------------------------------
(* Answers.                                                                *)

(* Mutant: the counter is decremented.                                     *)
Bug_Counted(s, n) == [s EXCEPT ![n] = @ - 1]

Counted(s, n) == [s EXCEPT ![n] = @ + 1]

(* Mutant: a 400 is no error yet.                                          *)
Bug_Write(s) ==
  /\ status' = s
  /\ stats' = IF s > 400 THEN Counted(stats, "error") ELSE stats

(* ServerResponse.Write.                                                   *)
Write(s) ==
  /\ status' = s
  /\ stats' = IF s >= 400 THEN Counted(stats, "error") ELSE stats

(* The handler answers and returns; its deferred calls run.                *)
Answer(s) ==
  /\ Write(s)
  /\ at' = "return"
  /\ UNCHANGED resp

(* uploadFile returns a response, which its caller writes.                 *)
Respond(s) ==
  /\ resp' = s
  /\ at' = "return"
  /\ UNCHANGED <<status, stats>>

(* The answer to an error, by the one or the other.                        *)
Error(s) == IF route \in UploadRoutes THEN Respond(s) ELSE Answer(s)

GoOn(next) ==
  /\ at' = next
  /\ UNCHANGED <<resp, status, stats>>

-----------------------------------------------------------------------------
(* authenticatedEndpoint.                                                  *)

(* Mutant: the message authentication code is compared but not looked at.  *)
Bug_GetUser(g) ==
  IF scheme = "hmac" /\ g.present /\ g.user # NoUser
     /\ g.time # 0 /\ g.time + g.lasts >= Now
    THEN g.user ELSE NoUser

(* The user GetUser returns; it returns an error if that is NoUser.        *)
GetUser(g) ==
  IF scheme = "hmac" /\ g.present /\ g.signed /\ g.user # NoUser
     /\ g.time # 0 /\ g.time + g.lasts >= Now
    THEN g.user ELSE NoUser

Accept ==
  /\ at = "auth"
  /\ GetUser(grant) = path
  /\ user' = path
  /\ GoOn("extract")
  /\ UNCHANGED <<inputs, files, images, defers, panicked>>

(* 401, without a response of the server.                                  *)
Unauthorized ==
  /\ at = "auth"
  /\ GetUser(grant) = NoUser
  /\ status' = 401
  /\ at' = "out"
  /\ UNCHANGED <<inputs, user, files, images, defers, resp, panicked, stats>>

(* A valid grant of another user: after WriteHeader, which only remembers  *)
(* the status, the error that is logged is nil.                            *)
OtherUser ==
  /\ at = "auth"
  /\ GetUser(grant) \notin {path, NoUser}
  /\ panicked' = TRUE
  /\ at' = "out"
  /\ UNCHANGED <<inputs, user, files, images, defers, resp, status, stats>>

-----------------------------------------------------------------------------
(* uploadHandler: the extractors and parseThumbs.                          *)

(* The upload is counted; only a file or a download must be closed.        *)
Extract ==
  /\ at = "extract"
  /\ body' = IF Extractor(route) = "base64" THEN "none" ELSE "open"
  /\ stats' = Counted(stats, "upload")
  /\ at' = "parse"
  /\ UNCHANGED <<inputs, user, reader, tmp, upload, images, defers, resp, status, panicked>>

(* No file in the form; or the download fails, or has an answer that is    *)
(* not wanted, whose body stays open.                                      *)
ExtractFails ==
  /\ at = "extract"
  /\ Extractor(route) # "base64"
  /\ body' \in IF Extractor(route) = "url" THEN {"none", "open"} ELSE {"none"}
  /\ Write(400)
  /\ at' = "out"
  /\ UNCHANGED <<inputs, user, reader, tmp, upload, images, defers, resp, panicked>>

(* Mutant: the handler goes on after its answer.                           *)
Bug_Parse ==
  /\ at = "parse"
  /\ thumbs' \in Requested
  /\ IF route = "thumbnail" /\ Len(thumbs') # 1
       THEN Write(400) /\ at' = "get" /\ UNCHANGED resp
       ELSE GoOn(IF route = "thumbnail" THEN "get" ELSE "copy")
  /\ UNCHANGED <<inputs, user, files, made, stored, defers, panicked>>

(* For an upload, or for a render, which must have one thumbnail.          *)
Parse ==
  /\ at = "parse"
  /\ thumbs' \in Requested
  /\ IF route = "thumbnail" /\ Len(thumbs') # 1 THEN Answer(400)
     ELSE GoOn(IF route = "thumbnail" THEN "get" ELSE "copy")
  /\ UNCHANGED <<inputs, user, files, made, stored, defers, panicked>>

ParseFails ==
  /\ at = "parse"
  /\ Write(400)
  /\ at' = "out"
  /\ UNCHANGED <<inputs, user, files, images, defers, resp, panicked>>

-----------------------------------------------------------------------------
(* thumbnailHandler and ocrHandler: the original from the store.           *)

Get ==
  /\ at = "get"
  /\ reader' = "open"
  /\ defers' = Append(defers, "Close")
  /\ GoOn("copy")
  /\ UNCHANGED <<inputs, user, body, tmp, upload, images, panicked>>

(* No uid, for OCR, or no image.                                           *)
GetFails ==
  /\ at = "get"
  /\ Answer(IF route = "ocr" THEN 400 ELSE 404)
  /\ UNCHANGED <<inputs, user, files, images, defers, panicked>>

-----------------------------------------------------------------------------
(* All three: saveToTmp and NewUploadedFile.                               *)

(* Mutant: the file is removed only if it could be opened.                 *)
Bug_Copy ==
  /\ at = "copy"
  /\ tmp' = TRUE
  /\ GoOn("open")
  /\ UNCHANGED <<inputs, user, body, reader, upload, images, defers, panicked>>

Copy ==
  /\ at = "copy"
  /\ tmp' = TRUE
  /\ defers' = IF route \in UploadRoutes THEN defers ELSE Append(defers, "Remove")
  /\ GoOn("open")
  /\ UNCHANGED <<inputs, user, body, reader, upload, images, panicked>>

(* There is no file, or it stays half written.                             *)
CopyFails ==
  /\ at = "copy"
  /\ tmp' \in BOOLEAN
  /\ Error(IF route = "ocr" THEN 400 ELSE 500)
  /\ UNCHANGED <<inputs, user, body, reader, upload, images, defers, panicked>>

Open ==
  /\ at = "open"
  /\ upload' = "file"
  /\ defers' = Append(defers, "Clean")
  /\ GoOn("process")
  /\ UNCHANGED <<inputs, user, body, reader, tmp, images, panicked>>

(* Mutant: the handlers of renders and OCR defer Clean before they look at *)
(* the error, too.                                                         *)
Bug_OpenFails ==
  /\ at = "open"
  /\ upload' = "nil"
  /\ defers' = Append(defers, "Clean")
  /\ Error(500)
  /\ UNCHANGED <<inputs, user, body, reader, tmp, images, panicked>>

(* A type that is not supported, or an empty file; uploadFile has deferred *)
(* its Clean before it looks.                                              *)
OpenFails ==
  /\ at = "open"
  /\ upload' = "nil"
  /\ defers' = IF route \in UploadRoutes THEN Append(defers, "Clean") ELSE defers
  /\ Error(500)
  /\ UNCHANGED <<inputs, user, body, reader, tmp, images, panicked>>

-----------------------------------------------------------------------------
(* The processors run; all thumbnails have geometries that are accepted.   *)
Process ==
  /\ at = "process"
  /\ \E d \in Dimensions :
       made' \in {m \in [DOMAIN thumbs -> UNION {Commands(thumbs[i], d) : i \in DOMAIN thumbs}] :
                    \A i \in DOMAIN thumbs : m[i] \in Commands(thumbs[i], d)}
  /\ GoOn(CASE route \in UploadRoutes -> "save"
            [] route = "thumbnail"    -> "thumbs"
            [] OTHER                  -> "serve")
  /\ UNCHANGED <<inputs, user, files, thumbs, stored, defers, panicked>>

ProcessFails ==
  /\ at = "process"
  /\ Error(500)
  /\ UNCHANGED <<inputs, user, files, images, defers, panicked>>

(* The original is saved, under the id from the generator.                 *)
Save ==
  /\ at = "save"
  /\ stored' = 1
  /\ GoOn("thumbs")
  /\ UNCHANGED <<inputs, user, files, thumbs, made, defers, panicked>>

(* How many of the objects that are or will be saved are thumbnails.       *)
savedThumbs == stored - (IF route \in UploadRoutes THEN 1 ELSE 0)

(* Mutant: buildThumbResponse leaves its loop at a thumbnail that is not   *)
(* to be stored.                                                           *)
Bug_ThumbLeft ==
  /\ savedThumbs < Len(thumbs)
  /\ ~thumbs[savedThumbs + 1].nostore

(* Whether a thumbnail is left to be saved; a render asks whether it       *)
(* should, buildThumbResponse does not.                                    *)
ThumbLeft ==
  /\ savedThumbs < Len(thumbs)
  /\ route = "thumbnail" => ~thumbs[1].nostore

(* buildThumbResponse, or the handler of renders, saves the next one; the  *)
(* former counts it at once.                                               *)
SaveThumb ==
  /\ at = "thumbs"
  /\ ThumbLeft
  /\ stored' = stored + 1
  /\ stats' = IF route \in UploadRoutes THEN Counted(stats, "thumb") ELSE stats
  /\ UNCHANGED <<inputs, at, user, files, thumbs, made, defers, resp, status, panicked>>

SaveFails ==
  /\ \/ at = "save"
     \/ at = "thumbs" /\ ThumbLeft
  /\ Error(500)
  /\ UNCHANGED <<inputs, user, files, images, defers, panicked>>

AllSaved ==
  /\ at = "thumbs"
  /\ ~ThumbLeft
  /\ GoOn(IF route = "thumbnail" THEN "serve" ELSE "metadata")
  /\ UNCHANGED <<inputs, user, files, images, defers, panicked>>

(* Size and dimensions can be read, or not.                                *)
Metadata ==
  /\ at = "metadata"
  /\ \E s \in {200, 500} : Respond(s)
  /\ UNCHANGED <<inputs, user, files, images, defers, panicked>>

(* The handlers of renders, OCR and the front page.  A thumbnail is        *)
(* counted, and what ServeFile then answers is not.                        *)
Serve ==
  /\ at = "serve"
  /\ status' \in IF route = "thumbnail" THEN FileStatus ELSE {200}
  /\ stats' = IF route = "thumbnail" THEN Counted(stats, "thumb") ELSE stats
  /\ at' = "return"
  /\ UNCHANGED <<inputs, user, files, images, defers, resp, panicked>>

-----------------------------------------------------------------------------
(* The end.                                                                *)

(* A deferred call runs, the last first, whether the function returns or   *)
(* panics; Clean of a nil UploadedFile panics, and net/http then closes    *)
(* the connection without sending what it has buffered.                    *)
Deferred ==
  /\ at = "return"
  /\ defers # <<>>
  /\ LET call == defers[Len(defers)] IN
       /\ reader' = IF call = "Close" THEN "closed" ELSE reader
       /\ tmp' = (tmp /\ (call = "Close" \/ (call = "Clean" /\ upload = "nil")))
       /\ panicked' = (panicked \/ (call = "Clean" /\ upload = "nil"))
       /\ status' = IF panicked' THEN 0 ELSE status
  /\ defers' = SubSeq(defers, 1, Len(defers) - 1)
  /\ UNCHANGED <<inputs, at, user, body, upload, images, resp, stats>>

(* uploadHandler closes what it has extracted and writes the response, if  *)
(* uploadFile has returned.                                                *)
Returned ==
  /\ at = "return"
  /\ defers = <<>>
  /\ at' = "out"
  /\ IF resp # 0 /\ ~panicked
       THEN Write(resp) /\ body' = IF body = "open" THEN "closed" ELSE body
       ELSE UNCHANGED <<status, stats, body>>
  /\ UNCHANGED <<inputs, user, reader, tmp, upload, images, defers, resp, panicked>>

(* The middleware measures the time; net/http ends a handler that panics   *)
(* and its connection.                                                     *)
Out ==
  /\ at = "out"
  /\ at' = "end"
  /\ stats' = IF panicked THEN stats ELSE Counted(stats, "time")
  /\ UNCHANGED <<inputs, user, files, images, defers, resp, status, panicked>>

Step ==
  \/ Accept \/ Unauthorized \/ OtherUser
  \/ Extract \/ ExtractFails \/ Parse \/ ParseFails
  \/ Get \/ GetFails \/ Copy \/ CopyFails \/ Open \/ OpenFails
  \/ Process \/ ProcessFails
  \/ Save \/ SaveThumb \/ SaveFails \/ AllSaved \/ Metadata \/ Serve
  \/ Deferred \/ Returned \/ Out

Next == Step \/ (at = "end" /\ UNCHANGED vars)

Spec == Init /\ [][Next]_vars

-----------------------------------------------------------------------------
(* Every request is answered, but those a panic keeps from it: an upload   *)
(* whose file NewUploadedFile does not take, and one with a valid grant of *)
(* another user.                                                           *)
EveryRequestAnswered ==
  at = "end" =>
    status # 0 \/ (route \in UploadRoutes /\ upload = "nil")
               \/ GetUser(grant) \notin {path, NoUser}

(* When a request is over the reader from the store and the upload's own   *)
(* are closed, and its temporary file is gone.  The exceptions are those   *)
(* of the code: a file half written when the copy failed, what a panic     *)
(* left, and the body of an upload refused for its parameters or its       *)
(* download.                                                               *)
NothingHeld ==
  at = "end" =>
    /\ reader # "open"
    /\ tmp => panicked \/ (upload = "none" /\ status \in {400, 500})
    /\ body = "open" => panicked \/ status = 400

(* Nothing is saved at a user's endpoint, and no file is even copied,      *)
(* unless the request has a signed grant of that very user.                *)
OwnUpload ==
  route \in UserRoutes /\ (tmp \/ stored > 0) =>
    /\ scheme = "hmac" /\ grant.present /\ grant.signed
    /\ grant.user = path /\ user = path

(* The answer tells what has been saved.  An upload that succeeds has all  *)
(* of it, each thumbnail made by a command; a render counted as a          *)
(* thumbnail, which every one that succeeds is, has saved what it was      *)
(* asked to.  Otherwise nothing is saved, but for a 500, which leaves it   *)
(* open; so a client that is refused may have left an object only if it    *)
(* was ServeFile that refused.                                             *)
AnswerTellsStored ==
  at = "end" =>
    /\ status = 200 /\ route \in UploadRoutes =>
         stored = 1 + Len(thumbs) /\ Len(made) = Len(thumbs)
    /\ route = "thumbnail" /\ stats["thumb"] = 1 =>
         stored = (IF thumbs[1].nostore THEN 0 ELSE 1) /\ Len(made) = 1
    /\ route = "thumbnail" /\ status \in {200, 206, 304} => stats["thumb"] = 1
    /\ stored > 0 => \/ route \in UploadRoutes /\ status \in {200, 500}
                     \/ route = "thumbnail" /\ (stats["thumb"] = 1 \/ status = 500)

(* The statistics agree with what the client saw.  An error is counted for *)
(* each answer that is one, but for that of authentication and those of    *)
(* ServeFile: a render is counted either as a thumbnail or as an error.    *)
(* The time is counted of every request that did not panic.                *)
Accounting ==
  at = "end" =>
    /\ stats["request"] = 1
    /\ stats["time"] = IF panicked THEN 0 ELSE 1
    /\ IF route = "thumbnail"
         THEN /\ stats["thumb"] + stats["error"] = 1
              /\ stats["error"] = 1 => status >= 400
         ELSE /\ stats["error"] = IF status >= 400 /\ status # 401 THEN 1 ELSE 0
              /\ stats["thumb"] = IF stored > 0 THEN stored - 1 ELSE 0

(* Whatever numbers the ratio is given by, of either sign, infinite or not *)
(* numbers at all, and whatever side the crop is computed from: if every   *)
(* reading of the dimensions succeeded, the crop keeps that side of the    *)
(* command, and the other one has the ratio to it, unless they have no     *)
(* quotient or the product is too large for exact whole numbers.           *)
CropKeepsRatio ==
  \A i \in DOMAIN made :
    LET t    == thumbs[i]
        c    == made[i]
        wide == AtLeast(t.ratio[1], t.ratio[2])
        side == IF wide THEN c.height ELSE c.width
        kept == IF wide THEN c.crop[2] ELSE c.crop[1]
        computed == IF wide THEN c.crop[1] ELSE c.crop[2]
        q == IF wide THEN Quotient(t.ratio[1], t.ratio[2])
                     ELSE Quotient(t.ratio[2], t.ratio[1])
    IN t.shape = "custom" /\ t.gravity /\ Len(t.ratio) = 2
         /\ 0 \notin {side, kept, computed} /\ Magnitude(side) <= Precision
       => /\ kept = side
          /\ q[2] # 0 /\ Magnitude(side * q[1]) <= Precision * q[2]
               => HasRatio(computed, side, q[1], q[2])

(* No request is answered twice: on no path does a handler go on after it  *)
(* has written an answer, nor does its caller write one over it; only a    *)
(* panic in a deferred call takes one back that is still buffered.         *)
AnsweredOnce ==
  [][status # 0 \/ panicked => status' = status \/ (status' = 0 /\ panicked')]_vars

(* A user whose request is refused at an endpoint of another is told so.   *)
RefusedIsTold ==
  at = "end" /\ route \in UserRoutes /\ GetUser(grant) # path => status = 401
=============================================================================
